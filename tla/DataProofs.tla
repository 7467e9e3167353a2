----------------------------- MODULE DataProofs -----------------------------
(* The components that keep their state to themselves: a watch that was disconnected  *)
(* has let go of its connection, and tells nothing after that; opening a connection leaks no  *)
(* socket and loses no payload but the one decoded as frames; the fallback of TURN    *)
(* credentials is justified and their lifetime bounded; the receipt of an upload is   *)
(* evidence; a credential goes to the engine it was stored for and a connection where *)
(* the configuration sends it; who shares a session's key, and what is read with it.  *)
(* For any calls, purposes, options, lifetimes, lengths, configurations and keys.     *)
EXTENDS Data, ReplayProofs

-----------------------------------------------------------------------------
(* A watch *)

\* What makes it inductive: disconnect() at an await of the token path is noted as hasty.
HastyNoted ==
  \A w \in Watches :
    watch[w].aborted /\ watch[w].connect \in {"auth", "engine"} => watch[w].hasty

WatchInv == TypeOK /\ ClosedIsReleased /\ HastyNoted

\* What WatchInv says of one object r of transport t.
Sound(r, t) ==
  /\ r \in WatchObjects
  /\ r.connect = "stream" \/ r.arrived => t = "certificate"
  /\ r.connect \in {"auth", "engine"} => t # "certificate"
  /\ (t = "certificate" \/ ~r.hasty) /\ r.aborted => r.state = "closed" /\ r.source \notin Live
  /\ r.aborted /\ r.connect \in {"auth", "engine"} => r.hasty

\* WatchInv is about one object at a time.
LEMMA SoundObjects ==
  WatchInv <=> /\ watch \in [Watches -> WatchObjects]
               /\ \A w \in Watches : Sound(watch[w], Transport[w])
               /\ call \in Calls \union {NoCall}
BY DEF WatchInv, TypeOK, ClosedIsReleased, HastyNoted, Sound, Orderly, Certificate

\* A step that gives one object a sound value and makes a callback keeps the invariant.
LEMMA OneObject ==
  ASSUME WatchInv, NEW w \in Watches, NEW r, Becomes(w, r),
         Sound(r, Transport[w]), call' \in Calls \union {NoCall}
  PROVE  WatchInv'
<1>1. watch \in [Watches -> WatchObjects] /\ \A v \in Watches : Sound(watch[v], Transport[v])
  BY SoundObjects
<1>2. r \in WatchObjects
  BY DEF Sound
<1>3. watch' = [watch EXCEPT ![w] = r]
  BY DEF Becomes
<1>4. watch' \in [Watches -> WatchObjects]
  BY <1>1, <1>2, <1>3
<1>5. \A v \in Watches : watch'[v] = IF v = w THEN r ELSE watch[v]
  BY <1>1, <1>3
<1>6. \A v \in Watches : Sound(watch'[v], Transport[v])
  BY <1>1, <1>5
<1> QED
  BY <1>4, <1>6 DEF WatchInv, TypeOK, ClosedIsReleased, HastyNoted, Sound, Orderly, Certificate

\* The catch of connect() keeps an object sound.
LEMMA ThrewSound ==
  ASSUME NEW t, NEW r, Sound(r, t)
  PROVE  Sound(Threw(r), t)
BY DEF Sound, Threw, WatchObjects, Awaits, Live

\* So does disconnect().
LEMMA DisconnectedSound ==
  ASSUME NEW t, NEW r, Sound(r, t)
  PROVE  Sound(Disconnected(r), t)
BY DEF Sound, Disconnected, WatchObjects, Awaits, Live

\* Every step makes one of these calls.
LEMMA CallTypes ==
  ASSUME NEW w \in Watches
  PROVE  /\ \A name \in {"onConnect", "onEvent", "onClose"} : Call(w, name) \in Calls \union {NoCall}
         /\ NoCall \in Calls \union {NoCall}
         /\ CloseCall(w) \in Calls \union {NoCall}
BY DEF Call, Calls, NoCall, CloseCall

\* A step that is a disconnect() keeps the invariant.
LEMMA DisconnectsKeeps ==
  ASSUME WatchInv, NEW w \in Watches, Disconnects(w, watch[w])
  PROVE  WatchInv'
BY SoundObjects, OneObject, DisconnectedSound, CallTypes DEF Disconnects

-----------------------------------------------------------------------------
(* The steps *)

\* Types, released connections and noted hasty calls are an inductive invariant of watch.ts.
THEOREM WatchInvariant == Spec => []WatchInv
<1>1. Init => WatchInv
  BY DEF Init, WatchInv, TypeOK, ClosedIsReleased, HastyNoted, NewWatch, WatchObjects, Awaits, Live, Orderly
<1>2. WatchInv /\ [Next]_vars => WatchInv'
  <2> SUFFICES ASSUME WatchInv, [Next]_vars
               PROVE  WatchInv'
    OBVIOUS
  <2>0. \A w \in Watches : Sound(watch[w], Transport[w])
    BY SoundObjects
  <2>1. ASSUME NEW w \in Watches, Connect(w)
        PROVE  WatchInv'
    <3>1. watch[w].state = "preparing" /\ call' = NoCall
      BY <2>1 DEF Connect
    <3>2. Sound(Threw(watch[w]), Transport[w])
      BY <2>0, ThrewSound
    <3>3. Sound(Connecting(watch[w], w), Transport[w])
      BY ZenonT(60), <2>0, <3>1 DEF Sound, Connecting, WatchObjects, Awaits, Live, Certificate
    <3> QED
      BY <2>1, <3>1, <3>2, <3>3, OneObject, CallTypes DEF Connect
  <2>2. ASSUME NEW w \in Watches, Disconnect(w)
        PROVE  WatchInv'
    BY <2>2, DisconnectsKeeps DEF Disconnect
  <2>3. ASSUME NEW w \in Watches, AuthEnds(w)
        PROVE  WatchInv'
    <3>1. watch[w].connect = "auth" /\ call' = NoCall
      BY <2>3 DEF AuthEnds
    <3>2. Sound(Threw(watch[w]), Transport[w])
      BY <2>0, ThrewSound
    <3>3. Sound([watch[w] EXCEPT !.connect = "engine"], Transport[w])
      BY <2>0, <3>1 DEF Sound, WatchObjects, Awaits, Live
    <3> QED
      BY <2>3, <3>1, <3>2, <3>3, OneObject, CallTypes DEF AuthEnds
  <2>4. ASSUME NEW w \in Watches, EngineEnds(w)
        PROVE  WatchInv'
    <3>1. watch[w].connect = "engine" /\ call' = NoCall
      BY <2>4 DEF EngineEnds
    <3>2. Sound(Threw(watch[w]), Transport[w])
      BY <2>0, ThrewSound
    <3>3. Sound([watch[w] EXCEPT !.connect = "returned", !.source = "opening"], Transport[w])
      BY <2>0, <3>1 DEF Sound, WatchObjects, Awaits, Live
    <3> QED
      BY <2>4, <3>1, <3>2, <3>3, OneObject, CallTypes DEF EngineEnds
  <2>5. ASSUME NEW w \in Watches, StreamEnds(w)
        PROVE  WatchInv'
    <3>1. Sound(Threw(watch[w]), Transport[w])
      BY <2>0, ThrewSound
    <3>2. CASE Becomes(w, Threw(watch[w])) /\ call' = NoCall
      BY <3>1, <3>2, OneObject, CallTypes
    <3>3. CASE /\ ~watch[w].aborted /\ call' = Call(w, "onConnect")
               /\ Becomes(w, [watch[w] EXCEPT !.connect = "returned", !.source = "open", !.state = "connected"])
      <4>1. Sound([watch[w] EXCEPT !.connect = "returned", !.source = "open", !.state = "connected"], Transport[w])
        BY <2>0, <3>3, ZenonT(60) DEF Sound, WatchObjects, Awaits, Live
      <4> QED
        BY <3>3, <4>1, OneObject, CallTypes
    <3> QED
      BY <2>5, <3>2, <3>3 DEF StreamEnds
  <2>6. ASSUME NEW w \in Watches, Opens(w)
        PROVE  WatchInv'
    <3>1. watch[w].source = "opening" /\ call' = Call(w, "onConnect")
      BY <2>6 DEF Opens
    <3>2. Sound([watch[w] EXCEPT !.source = "open", !.state = "connected"], Transport[w])
      BY <2>0, <3>1 DEF Sound, WatchObjects, Awaits, Live
    <3> QED
      BY <2>6, <3>1, <3>2, OneObject, CallTypes DEF Opens
  <2>7. ASSUME NEW w \in Watches, Message(w)
        PROVE  WatchInv'
    <3>1. CASE UNCHANGED watch /\ call' = Call(w, "onEvent")
      BY <3>1, CallTypes DEF WatchInv, TypeOK, ClosedIsReleased, HastyNoted, Orderly
    <3> QED
      BY <2>7, <3>1, DisconnectsKeeps DEF Message
  <2>8. ASSUME NEW w \in Watches, Breaks(w)
        PROVE  WatchInv'
    <3>1. CASE Disconnects(w, watch[w])
      BY <3>1, DisconnectsKeeps
    <3>2. CASE /\ watch[w].state = "closed" /\ call' = NoCall
               /\ \E s \in {"closed"} \union (IF Transport[w] = "sse" THEN {"opening"} ELSE {}) :
                    Becomes(w, [watch[w] EXCEPT !.source = s])
      <4>1. PICK s \in {"closed", "opening"} : Becomes(w, [watch[w] EXCEPT !.source = s])
        BY <3>2
      <4>2. Sound([watch[w] EXCEPT !.source = s], Transport[w])
        BY <2>0, <2>8 DEF Breaks, Sound, WatchObjects, Awaits, Live
      <4> QED
        BY <3>2, <4>1, <4>2, OneObject, CallTypes
    <3> QED
      BY <2>8, <3>1, <3>2 DEF Breaks
  <2>9. ASSUME NEW w \in Watches, ChunkArrives(w)
        PROVE  WatchInv'
    <3>1. Certificate(w) /\ call' = NoCall
      BY <2>9 DEF ChunkArrives
    <3>2. Sound([watch[w] EXCEPT !.arrived = TRUE], Transport[w])
      BY <2>0, <3>1, ZenonT(60) DEF Sound, WatchObjects, Awaits, Live, Certificate
    <3> QED
      BY <2>9, <3>1, <3>2, OneObject, CallTypes DEF ChunkArrives
  <2>10. ASSUME NEW w \in Watches, HandleChunk(w)
         PROVE  WatchInv'
    <3> DEFINE read == [watch[w] EXCEPT !.arrived = FALSE]
    <3>1. Sound(read, Transport[w])
      BY <2>0, ZenonT(60) DEF Sound, WatchObjects, Awaits, Live
    <3> HIDE DEF read
    <3>2. Sound(Disconnected(read), Transport[w])
      BY <3>1, DisconnectedSound
    <3>3. (Becomes(w, read) /\ call' = Call(w, "onEvent")) \/ Disconnects(w, read)
      BY <2>10 DEF HandleChunk, read
    <3> QED
      BY <3>1, <3>2, <3>3, OneObject, CallTypes DEF Disconnects
  <2>11. ASSUME NEW w \in Watches, StreamStops(w)
         PROVE  WatchInv'
    BY <2>11, DisconnectsKeeps DEF StreamStops
  <2>12. CASE UNCHANGED vars
    BY <2>12 DEF vars, WatchInv, TypeOK, ClosedIsReleased, HastyNoted, Orderly
  <2> QED
    BY <2>1, <2>2, <2>3, <2>4, <2>5, <2>6, <2>7, <2>8, <2>9, <2>10, <2>11, <2>12 DEF Next
<1> QED
  BY <1>1, <1>2, PTL DEF Spec

\* Whatever was under way when disconnect() was called, the object ends closed and without
\* a connection, unless the call fell into the token path's awaits (the repository's leak).
THEOREM ReleasedForGood == Spec => []ClosedIsReleased
<1>1. WatchInv => ClosedIsReleased
  BY DEF WatchInv
<1> QED
  BY <1>1, WatchInvariant, PTL

\* No callback follows onClose but the event of a chunk that had been read before it.
THEOREM NothingAfterClose == Spec => CloseIsLast
<1> DEFINE LastCall == \A w \in Watches : watch[w].aborted /\ Orderly(w) /\ call' # NoCall /\ call'.of = w =>
                     call'.name = "onEvent" /\ watch[w].arrived
<1>1. WatchInv /\ [Next]_vars => [LastCall]_vars
  <2> SUFFICES ASSUME WatchInv, Next, NEW w \in Watches,
                      watch[w].aborted, Orderly(w), call' # NoCall, call'.of = w
               PROVE  call'.name = "onEvent" /\ watch[w].arrived
    OBVIOUS
  <2>1. watch[w].state = "closed" /\ watch[w].source \notin Live
    BY DEF WatchInv, ClosedIsReleased
  <2>2. ~(watch[w].connect \in {"auth", "engine"})
    BY DEF WatchInv, TypeOK, HastyNoted, Orderly
  <2>3. CloseCall(w) = NoCall
    BY <2>1 DEF CloseCall
  <2>4. PICK v \in Watches :
          \/ Connect(v) \/ Disconnect(v) \/ AuthEnds(v) \/ EngineEnds(v) \/ StreamEnds(v)
          \/ Opens(v) \/ Message(v) \/ Breaks(v)
          \/ ChunkArrives(v) \/ HandleChunk(v) \/ StreamStops(v)
    BY DEF Next
  <2>5. call' \in {NoCall, CloseCall(v)} \union {Call(v, name) : name \in {"onConnect", "onEvent", "onClose"}}
    BY <2>4 DEF Connect, Disconnect, AuthEnds, EngineEnds, StreamEnds, Opens, Message, Breaks,
                ChunkArrives, HandleChunk, StreamStops, Disconnects, CloseCall
  <2>6. v = w
    BY <2>5 DEF Call, CloseCall
  <2>7. CASE HandleChunk(v)
    BY <2>3, <2>6, <2>7 DEF HandleChunk, Disconnects, Call
  <2> QED
    BY <2>1, <2>2, <2>3, <2>4, <2>6, <2>7
    DEF Connect, Disconnect, AuthEnds, EngineEnds, StreamEnds, Opens, Message, Breaks,
        ChunkArrives, StreamStops, Disconnects, Live
<1> QED
  BY <1>1, WatchInvariant, PTL DEF Spec, CloseIsLast

-----------------------------------------------------------------------------
(* Opening a connection *)

\* What the FramedReader of a call knows at each stage: it has nothing before TLS, nor ever
\* for a stream that needs no answer; what it took is the response, what it decoded beside that
\* and what it has not decoded yet; and a call that returned gave the latter back.
ReaderSound(q) ==
  /\ q.stage \in {"idle", "connectRequest", "connected"} \union Cancellable \/ q.zeroRtt =>
       q.taken = 0 /\ q.buffered = 0 /\ q.lost = 0 /\ ~q.listening /\ ~q.answered
  /\ q.zeroRtt => q.stage # "response"
  /\ q.taken = (IF q.answered THEN 2 ELSE 0) + q.lost + q.buffered
  /\ q.taken <= q.arrived
  /\ q.lost > 0 => q.ahead \/ q.uncaught
  /\ q.stage = "returned" /\ ~q.zeroRtt => q.answered /\ q.buffered = 0

SocketsSound(q) == q.stage = "threw" /\ ~q.late => "open" \notin {q.raw, q.overProxy, q.socket}

DialCallSound(q) == q \in DialRecords /\ ReaderSound(q) /\ SocketsSound(q)
DialInv == dial \in [Dials -> DialRecords] /\ \A d \in Dials : DialCallSound(dial[d])

\* The engine sends the response and at most MaxPayload half frames after it.
LEMMA StreamLength == MaxPayload \in Nat /\ Len(DialStream) = MaxPayload + 2 /\ Len(Response) = 2
<1>1. MaxPayload \in Nat
  BY DialAssumption
<1>2. [i \in 1..MaxPayload |-> "p"] \in Seq({"p", "r1", "r2"}) /\ Len([i \in 1..MaxPayload |-> "p"]) = MaxPayload
  BY <1>1
<1>3. Response \in Seq({"p", "r1", "r2"}) /\ Len(Response) = 2
  BY DEF Response
<1> DEFINE payload == [i \in 1..MaxPayload |-> "p"]
<1>4. Len(Response \o payload) = 2 + MaxPayload
  <2>1. Response \in Seq({"p", "r1", "r2"}) /\ payload \in Seq({"p", "r1", "r2"}) /\ Len(payload) = MaxPayload
    BY <1>2, <1>3
  <2> HIDE DEF payload
  <2>2. Len(Response \o payload) = Len(Response) + Len(payload)
    BY <2>1, ConcatProperties
  <2> QED
    BY <1>3, <2>1, <2>2
<1> QED
  BY <1>1, <1>3, <1>4 DEF DialStream

\* What is released, and what the reader counts after a chunk of n, when it takes k of what it
\* has, `answer' of it for the response.
LEMMA ReleaseCounts ==
  ASSUME NEW taken \in Nat, NEW arrived \in Nat, NEW buffered \in Nat, NEW lost \in Nat,
         taken = 2 + lost + buffered, taken <= arrived, arrived <= MaxPayload + 2
  PROVE  taken - buffered = 2 + lost /\ taken - buffered \in 0..MaxPayload + 2 /\ taken - buffered <= arrived
BY DialAssumption

LEMMA DecodeCounts ==
  ASSUME NEW taken \in Nat, NEW arrived \in Nat, NEW lost \in Nat, NEW buffered \in Nat, NEW n \in Nat,
         NEW base \in Nat, NEW answer \in Nat, NEW k \in answer..(buffered + n),
         taken = base + lost + buffered, taken <= arrived, arrived + n <= MaxPayload + 2
  PROVE  /\ taken + n = (base + answer) + (lost + k - answer) + (buffered + n - k)
         /\ lost + k - answer \in 0..MaxPayload + 2 /\ buffered + n - k \in 0..MaxPayload + 2
         /\ taken + n \in 0..MaxPayload + 2 /\ arrived + n \in 0..MaxPayload + 2 /\ taken + n <= arrived + n
         /\ lost + k - answer > 0 => lost > 0 \/ k > answer
BY DialAssumption

\* An action of one call keeps the invariant when its call stays sound.
LEMMA OneDial ==
  ASSUME DialInv, NEW d \in Dials, NEW q, DialCallSound(q), DialBecomes(d, q)
  PROVE  DialInv'
BY DEF DialInv, DialBecomes, DialCallSound

\* A call that throws lets its sockets go, and what its reader has does not matter any more.
LEMMA ThrewIsSound ==
  ASSUME NEW q, DialCallSound(q), q.stage \notin {"returned", "threw"}
  PROVE  DialCallSound(DialThrew(q))
<1> DEFINE t == DialThrew(q)
<1>1. q \in DialRecords /\ ReaderSound(q)
  BY DEF DialCallSound
<1>2. Gone(q.raw) \in Sockets \ {"open"} /\ Gone(q.overProxy) \in Sockets \ {"open"} /\ Gone(q.socket) \in Sockets \ {"open"}
  BY <1>1 DEF Gone, Sockets, DialRecords
<1>3. t \in DialRecords
  <2>1. 0 \in 0..MaxPayload + 2
    BY DialAssumption
  <2> QED
    BY <1>1, <1>2, <2>1 DEF DialThrew, DialRecords
<1>4. /\ t.stage = "threw" /\ ~t.listening /\ t.raw # "open" /\ t.overProxy # "open" /\ t.socket # "open"
      /\ t.taken = 0 /\ t.arrived = 0 /\ t.buffered = 0 /\ ~t.answered /\ t.lost = 0
  BY <1>1, <1>2 DEF DialThrew, DialRecords
<1>5. ReaderSound(t)
  <2> HIDE DEF t
  <2> QED
    BY <1>4 DEF ReaderSound, Cancellable
<1>6. SocketsSound(t)
  BY <1>4 DEF SocketsSound
<1> QED
  BY <1>3, <1>5, <1>6 DEF DialCallSound

\* What the reader takes of a chunk leaves its call sound.
LEMMA DrainSound ==
  ASSUME NEW q, DialCallSound(q), q.stage \in {"request", "response"}, ~q.zeroRtt,
         NEW n \in Nat, q.arrived + n <= MaxPayload + 2, NEW k \in 0..(q.buffered + n), NEW end \in Endings,
         NEW rejected \in BOOLEAN, ~q.answered => k # 1, end = "malformed" => k > 0
  PROVE  DialCallSound(Drained(q, n, k, end, rejected))
<1> DEFINE answers == Answers(q, k, end)
           answer == IF answers THEN 2 ELSE 0
           base == IF q.answered THEN 2 ELSE 0
           has == q.buffered + n
           r == Drained(q, n, k, end, rejected)
<1>1. q \in DialRecords /\ ReaderSound(q) /\ SocketsSound(q) /\ Len(Response) = 2 /\ MaxPayload \in Nat
  BY StreamLength DEF DialCallSound
<1>2. /\ q.buffered \in Nat /\ q.taken \in Nat /\ q.arrived \in Nat /\ q.lost \in Nat
      /\ q.answered \in BOOLEAN /\ q.ahead \in BOOLEAN /\ q.uncaught \in BOOLEAN
  BY <1>1 DEF DialRecords
<1>3. /\ q.taken = base + q.lost + q.buffered
      /\ q.taken <= q.arrived /\ (q.lost > 0 => q.ahead \/ q.uncaught)
  BY <1>1 DEF ReaderSound
<1>4. /\ answers \in BOOLEAN /\ (answers <=> ~q.answered /\ k > (IF end = "malformed" THEN 2 ELSE 0))
      /\ (answers => ~q.answered /\ k >= 2)
      /\ (q.answered \/ answers \/ k = 0 \/ (end = "malformed"))
      /\ has \in Nat /\ k \in Nat /\ k <= has /\ (end = "malformed" \/ end # "malformed")
  <2>1. answers <=> ~q.answered /\ k > (IF end = "malformed" THEN 2 ELSE 0)
    BY <1>1 DEF Answers
  <2>2. answers \in BOOLEAN
    BY DEF Answers
  <2>3. has \in Nat /\ k \in Nat /\ k <= has
    BY <1>2
  <2> HIDE DEF answers
  <2> QED
    BY <1>2, <2>1, <2>2, <2>3
<1>5. /\ answer \in Nat /\ base \in Nat /\ k \in answer..has /\ (answers => answer = 2) /\ (~answers => answer = 0)
      /\ ((IF q.answered \/ answers THEN 2 ELSE 0) = base + answer)
  <2>1. CASE answers
    BY <1>4, <2>1
  <2>2. CASE ~answers
    BY <1>2, <1>4, <2>2
  <2> QED
    BY <2>1, <2>2
<1>6. /\ q.taken + n = (base + answer) + (q.lost + k - answer) + (has - k)
      /\ q.lost + k - answer \in 0..MaxPayload + 2 /\ has - k \in 0..MaxPayload + 2
      /\ q.taken + n \in 0..MaxPayload + 2 /\ q.arrived + n \in 0..MaxPayload + 2 /\ q.taken + n <= q.arrived + n
      /\ q.lost + k - answer > 0 => q.lost > 0 \/ k > answer
  <2>1. /\ q.taken \in Nat /\ q.arrived \in Nat /\ q.lost \in Nat /\ q.buffered \in Nat /\ n \in Nat
        /\ base \in Nat /\ answer \in Nat /\ k \in answer..(q.buffered + n)
        /\ q.taken = base + q.lost + q.buffered /\ q.taken <= q.arrived /\ q.arrived + n <= MaxPayload + 2
    BY <1>2, <1>3, <1>5
  <2> DEFINE taken == q.taken
             arrived == q.arrived
             lost == q.lost
             buffered == q.buffered
  <2>2. /\ taken \in Nat /\ arrived \in Nat /\ lost \in Nat /\ buffered \in Nat /\ k \in answer..(buffered + n)
        /\ taken = base + lost + buffered /\ taken <= arrived /\ arrived + n <= MaxPayload + 2
    BY <2>1
  <2>3. /\ taken + n = (base + answer) + (lost + k - answer) + (buffered + n - k)
        /\ lost + k - answer \in 0..MaxPayload + 2 /\ buffered + n - k \in 0..MaxPayload + 2
        /\ taken + n \in 0..MaxPayload + 2 /\ arrived + n \in 0..MaxPayload + 2 /\ taken + n <= arrived + n
        /\ lost + k - answer > 0 => lost > 0 \/ k > answer
    <3> HIDE DEF base, answer, taken, arrived, lost, buffered
    <3> QED
      BY <1>1, <2>1, <2>2
  <2> HIDE DEF base, answer
  <2> QED
    BY <2>1, <2>3
<1> DEFINE answered == q.answered \/ answers
           ahead == q.ahead \/ q.answered \/ (answers /\ has > 2)
           listening == end # "too large"
           uncaught == q.uncaught \/ end = "malformed"
<1>7. answered \in BOOLEAN /\ ahead \in BOOLEAN /\ listening \in BOOLEAN /\ uncaught \in BOOLEAN
  BY <1>2, <1>4
<1>8. q.lost + k - answer > 0 => ahead \/ uncaught
  <2>1. CASE q.lost > 0
    BY <1>3, <2>1
  <2>2. CASE k > answer /\ ~q.answered /\ end # "malformed"
    <3>1. answers
      BY <1>4, <2>2
    <3>2. has > 2
      BY <1>4, <1>5, <2>2, <3>1
    <3> QED
      BY <3>1, <3>2
  <2> QED
    BY <1>2, <1>6, <2>1, <2>2
<1>9. r = [q EXCEPT !.arrived = q.arrived + n, !.taken = q.taken + n, !.buffered = has - k, !.lost = q.lost + k - answer,
                    !.answered = answered, !.rejected = rejected, !.ahead = ahead, !.listening = listening,
                    !.uncaught = uncaught]
  BY <1>1 DEF Drained, DialRecords
<1> HIDE DEF answered, ahead, listening, uncaught, r, answer, answers, has, base
<1>10. r \in DialRecords
  <2> DEFINE counts == 0..MaxPayload + 2
             arrived == q.arrived + n
             taken == q.taken + n
             buffered == has - k
             lost == q.lost + k - answer
             counted == [q EXCEPT !.arrived = arrived, !.taken = taken, !.buffered = buffered, !.lost = lost]
  <2>1. arrived \in counts /\ taken \in counts /\ buffered \in counts /\ lost \in counts
    BY <1>6
  <2>2. r = [counted EXCEPT !.answered = answered, !.rejected = rejected, !.ahead = ahead, !.listening = listening,
                            !.uncaught = uncaught]
    BY <1>9, Zenon
  <2> HIDE DEF arrived, taken, buffered, lost
  <2>3. counted \in DialRecords
    BY <1>1, <2>1 DEF DialRecords
  <2> HIDE DEF counted
  <2> QED
    BY <1>7, <2>2, <2>3, ZenonT(60) DEF DialRecords
<1>11. /\ r.stage = q.stage /\ r.zeroRtt = q.zeroRtt /\ r.taken = q.taken + n /\ r.arrived = q.arrived + n
       /\ r.buffered = has - k /\ r.lost = q.lost + k - answer /\ r.answered = answered /\ r.ahead = ahead
       /\ r.uncaught = uncaught
  BY <1>1, <1>9 DEF DialRecords
<1>12. r.taken = (IF r.answered THEN 2 ELSE 0) + r.lost + r.buffered
  BY <1>5, <1>6, <1>11 DEF answered
<1>13. ReaderSound(r)
  BY <1>6, <1>8, <1>11, <1>12 DEF ReaderSound, Cancellable
<1>14. SocketsSound(r)
  BY <1>11 DEF SocketsSound
<1> QED
  BY <1>10, <1>13, <1>14 DEF DialCallSound, r

\* A chunk leaves its call sound, whatever it completes and decodes.
LEMMA ChunkSound ==
  ASSUME DialInv, NEW d \in Dials, NEW n \in 1..Len(DialStream), Chunk(d, n)
  PROVE  DialInv'
<1> DEFINE q == dial[d]
<1>1. DialCallSound(q) /\ MaxPayload \in Nat /\ Len(DialStream) = MaxPayload + 2
  BY StreamLength DEF DialInv
<1>2. q.stage \in {"request", "response"} /\ q.listening /\ q.arrived + n <= Len(DialStream)
  BY Zenon DEF Chunk
<1>3. ~q.zeroRtt
  BY <1>1, <1>2 DEF DialCallSound, ReaderSound
<1>4. PICK k \in 0..(q.buffered + n), end \in Endings, rejected \in BOOLEAN :
        (~q.answered => k # 1) /\ (end = "malformed" => k > 0) /\ DialBecomes(d, Drained(q, n, k, end, rejected))
  BY Zenon DEF Chunk
<1>5. DialCallSound(Drained(q, n, k, end, rejected))
  <2>1. n \in Nat /\ q.arrived + n <= MaxPayload + 2
    BY <1>1, <1>2
  <2> HIDE DEF q
  <2> QED
    BY <1>1, <1>2, <1>3, <1>4, <2>1, DrainSound
<1> QED
  BY <1>4, <1>5, OneDial

\* Every call is sound at every step.
LEMMA DialInvariant == DialSpec => []DialInv
<1>1. DialInit => DialInv
  <2> SUFFICES ASSUME DialInit PROVE DialInv
    OBVIOUS
  <2>1. PICK route \in [Dials -> {"direct", "http", "https"}], zeroRtt \in [Dials -> BOOLEAN] :
          dial = [d \in Dials |-> NewDial(d, route[d], zeroRtt[d])]
    BY DEF DialInit
  <2>2. ASSUME NEW d \in Dials PROVE DialCallSound(NewDial(d, route[d], zeroRtt[d]))
    <3>1. NewDial(d, route[d], zeroRtt[d]) \in DialRecords
      BY DialAssumption, StreamLength DEF NewDial, DialRecords, Sockets
    <3> QED
      BY <3>1 DEF DialCallSound, NewDial, ReaderSound, SocketsSound
  <2> QED
    BY <2>1, <2>2 DEF DialInv, DialCallSound
<1>2. DialInv /\ [DialNext]_dialVars => DialInv'
  <2> SUFFICES ASSUME DialInv, [DialNext]_dialVars PROVE DialInv'
    OBVIOUS
  <2>1. CASE UNCHANGED dialVars
    BY <2>1 DEF DialInv, dialVars
  <2>2. ASSUME NEW d \in Dials,
               \/ StartDial(d) \/ Connected(d) \/ CertificateRead(d) \/ ProxySecured(d) \/ ConnectWritten(d)
               \/ ProxyAccepts(d) \/ StartTls(d) \/ Secured(d) \/ Abort(d) \/ SocketFails(d) \/ RawFails(d)
               \/ RequestWritten(d) \/ Responded(d) \/ ResponseFails(d)
        PROVE  DialInv'
    <3> DEFINE q == dial[d]
    <3>0. DialCallSound(q) /\ q \in DialRecords /\ ReaderSound(q) /\ SocketsSound(q)
      BY DEF DialInv, DialCallSound
    <3>1. CASE StartDial(d)
      <4>1. DialCallSound(DialThrew(q)) /\ DialCallSound([q EXCEPT !.stage = "tcp", !.raw = "open"])
        BY <3>0, <3>1, ThrewIsSound, ZenonT(60) DEF StartDial, DialCallSound, DialRecords, ReaderSound, SocketsSound, Cancellable, DialAwaits, Sockets
      <4> QED
        BY <3>1, <4>1, OneDial DEF StartDial
    <3>2. CASE Connected(d)
      <4>1. q.route \in {"direct", "http", "https"}
        BY <3>0 DEF DialRecords
      <4>2. ASSUME NEW stage \in {"connected", "connectRequest", "certificate"}
            PROVE  DialCallSound([q EXCEPT !.stage = stage])
        BY <3>0, <3>2 DEF Connected, DialCallSound, DialRecords, ReaderSound, SocketsSound, Cancellable, DialAwaits
      <4> QED
        BY <3>2, <4>1, <4>2, OneDial DEF Connected
    <3>3. CASE CertificateRead(d)
      <4>1. DialCallSound(DialThrew(q)) /\ DialCallSound([q EXCEPT !.stage = "proxyTLS", !.overProxy = "open"])
        BY <3>0, <3>3, ThrewIsSound, ZenonT(60) DEF CertificateRead, DialCallSound, DialRecords, ReaderSound, SocketsSound, Cancellable, DialAwaits, Sockets
      <4> QED
        BY <3>3, <4>1, OneDial DEF CertificateRead
    <3>4. CASE ProxySecured(d)
      <4>1. DialCallSound([q EXCEPT !.stage = "connectRequest"])
        BY <3>0, <3>4 DEF ProxySecured, DialCallSound, DialRecords, ReaderSound, SocketsSound, Cancellable, DialAwaits
      <4> QED
        BY <3>4, <4>1, OneDial DEF ProxySecured
    <3>5. CASE ConnectWritten(d)
      <4>1. DialCallSound(DialThrew(q)) /\ DialCallSound([q EXCEPT !.stage = "connectResponse"])
        BY <3>0, <3>5, ThrewIsSound DEF ConnectWritten, DialCallSound, DialRecords, ReaderSound, SocketsSound, Cancellable, DialAwaits
      <4> QED
        BY <3>5, <4>1, OneDial DEF ConnectWritten
    <3>6. CASE ProxyAccepts(d)
      <4>1. DialCallSound([q EXCEPT !.stage = "connected"])
        BY <3>0, <3>6 DEF ProxyAccepts, DialCallSound, DialRecords, ReaderSound, SocketsSound, Cancellable, DialAwaits
      <4> QED
        BY <3>6, <4>1, OneDial DEF ProxyAccepts
    <3>7. CASE StartTls(d)
      <4>1. DialCallSound([q EXCEPT !.stage = "threw", !.late = TRUE]) /\ DialCallSound([q EXCEPT !.stage = "tls", !.socket = "open"])
        BY <3>0, <3>7 DEF StartTls, DialCallSound, DialRecords, ReaderSound, SocketsSound, Cancellable, DialAwaits, Sockets
      <4> QED
        BY <3>7, <4>1, OneDial DEF StartTls
    <3>8. CASE Secured(d)
      <4>1. DialCallSound([q EXCEPT !.stage = "request", !.listening = ~q.zeroRtt])
        BY <3>0, <3>8 DEF Secured, DialCallSound, DialRecords, ReaderSound, SocketsSound, Cancellable, DialAwaits
      <4> QED
        BY <3>8, <4>1, OneDial DEF Secured
    <3>9. CASE Abort(d)
      <4> DEFINE a == [q EXCEPT !.aborted = TRUE]
      <4>1. DialCallSound(a) /\ a.stage = q.stage
        BY <3>0, ZenonT(60) DEF DialCallSound, DialRecords, ReaderSound, SocketsSound
      <4>2. DialCallSound(DialThrew(a))
        BY <3>9, <4>1, ThrewIsSound DEF Abort
      <4> QED
        BY <3>9, <4>1, <4>2, OneDial DEF Abort
    <3>10. CASE SocketFails(d)
      <4>1. PICK uncaught \in BOOLEAN : (q.uncaught => uncaught) /\ DialBecomes(d, DialThrew([q EXCEPT !.uncaught = uncaught]))
        <5>1. q.uncaught \in BOOLEAN
          BY <3>0 DEF DialRecords
        <5> QED
          BY <3>10, <5>1 DEF SocketFails
      <4> DEFINE f == [q EXCEPT !.uncaught = uncaught]
      <4>2. DialCallSound(f) /\ f.stage = q.stage
        BY <3>0, <4>1, ZenonT(60) DEF DialCallSound, DialRecords, ReaderSound, SocketsSound
      <4>3. DialCallSound(DialThrew(f))
        BY <3>10, <4>2, ThrewIsSound DEF SocketFails, DialAwaits, Cancellable
      <4> QED
        BY <4>1, <4>3, OneDial
    <3>11. CASE RequestWritten(d)
      <4>1. DialCallSound([q EXCEPT !.stage = IF q.zeroRtt THEN "returned" ELSE "response"])
        BY <3>0, <3>11 DEF RequestWritten, DialCallSound, DialRecords, ReaderSound, SocketsSound, Cancellable, DialAwaits
      <4> QED
        BY <3>11, <4>1, OneDial DEF RequestWritten
    <3>12. CASE Responded(d)
      <4>1. DialCallSound(DialThrew(q))
        BY <3>0, <3>12, ThrewIsSound DEF Responded
      <4> DEFINE r == ReleasedTo(q, "returned")
      <4>2. DialCallSound(r)
        <5>1. /\ q.stage = "response" /\ q.answered /\ ~q.zeroRtt /\ q.taken = 2 + q.lost + q.buffered /\ q.taken <= q.arrived
              /\ q.taken \in Nat /\ q.arrived \in Nat /\ q.arrived <= MaxPayload + 2 /\ q.buffered \in Nat /\ q.lost \in Nat
          BY <3>0, <3>12, DialAssumption DEF Responded, ReaderSound, DialRecords
        <5>2. q.taken - q.buffered = 2 + q.lost /\ q.taken - q.buffered \in 0..MaxPayload + 2
              /\ q.taken - q.buffered <= q.arrived
          <6> HIDE DEF q
          <6> QED
            BY <5>1, ReleaseCounts
        <5>3. r \in DialRecords
          <6>1. 0 \in 0..MaxPayload + 2 /\ "returned" \in {"idle", "returned", "threw"} \union DialAwaits
            BY DialAssumption
          <6> QED
            BY <3>0, <5>2, <6>1 DEF ReleasedTo, DialRecords
        <5>4. /\ r.stage = "returned" /\ ~r.listening /\ r.taken = q.taken - q.buffered /\ r.buffered = 0
              /\ r.zeroRtt = q.zeroRtt /\ r.arrived = q.arrived /\ r.answered = q.answered /\ r.lost = q.lost /\ r.ahead = q.ahead
              /\ r.uncaught = q.uncaught
          BY <3>0 DEF ReleasedTo, DialRecords
        <5>5. (q.lost > 0 => q.ahead \/ q.uncaught) /\ q.answered
          BY <3>0, <5>1 DEF ReaderSound
        <5>6. ReaderSound(r)
          <6>1. /\ r.stage = "returned" /\ ~r.zeroRtt /\ r.answered /\ r.taken = 2 + r.lost + r.buffered
                /\ r.taken <= r.arrived /\ (r.lost > 0 => r.ahead \/ r.uncaught) /\ r.buffered = 0
            <7> HIDE DEF q, r
            <7> QED
              BY <5>1, <5>2, <5>4, <5>5
          <6> HIDE DEF r
          <6> QED
            BY <6>1 DEF ReaderSound, Cancellable
        <5>7. SocketsSound(r)
          BY <5>4 DEF SocketsSound
        <5> QED
          BY <5>3, <5>6, <5>7 DEF DialCallSound
      <4> QED
        BY <3>12, <4>1, <4>2, OneDial DEF Responded
    <3>13. CASE ResponseFails(d)
      <4>1. DialCallSound(DialThrew(q))
        BY <3>0, <3>13, ThrewIsSound DEF ResponseFails
      <4> QED
        BY <3>13, <4>1, OneDial DEF ResponseFails
    <3>14. CASE RawFails(d)
      <4>1. DialCallSound([q EXCEPT !.raw = "destroyed", !.uncaught = TRUE])
        BY <3>0, <3>14 DEF RawFails, DialCallSound, DialRecords, ReaderSound, SocketsSound, Cancellable, DialAwaits, Sockets
      <4> QED
        BY <3>14, <4>1, OneDial DEF RawFails
    <3> QED
      BY <2>2, <3>1, <3>2, <3>3, <3>4, <3>5, <3>6, <3>7, <3>8, <3>9, <3>10, <3>11, <3>12, <3>13, <3>14
  <2> QED
    BY <2>1, <2>2, ChunkSound DEF DialNext
<1> QED
  BY <1>1, <1>2, PTL DEF DialSpec

\* A dial that throws holds no socket, except when it was aborted in the instant before TLS to
\* the engine began (Client.dial, openProxyConnection, NodeTransport).
THEOREM SocketsReleased == DialSpec => []NoSocketLeaked
<1>1. DialInv => NoSocketLeaked
  BY DEF DialInv, DialCallSound, SocketsSound, NoSocketLeaked
<1> QED
  BY <1>1, DialInvariant, PTL

\* A returned connection gives every byte after the response, except those decoded as frames
\* ahead of time, to its user (FramedReader.release).
THEOREM PayloadReturned == DialSpec => []PayloadIntact
<1>1. DialInv => PayloadIntact
  BY StreamLength DEF DialInv, DialCallSound, ReaderSound, DialRecords, PayloadIntact
<1> QED
  BY <1>1, DialInvariant, PTL
-----------------------------------------------------------------------------
(* TURN credentials *)

\* What has to be known of a call at each stage: nothing has been asked before the dispatch,
\* the engine is only asked with a reason, and the requested mode is the one that runs.
EngineJustified(t) ==
  \/ t.options.mode = "engine"
  \/ t.options.mode = "auto" /\ t.options.certificate
  \/ t.options.mode = "auto" /\ t.asked \subseteq {"engine"} /\ ~t.options.controlPlane /\ t.options.credentials = "none"
  \/ t.options.mode = "auto" /\ t.answer \in {"unavailable", "timeout"} /\ t.options.engine

StageSound(t) ==
  /\ t.stage \in {"idle", "target", "dispatch"} => t.asked = {} /\ t.mode = t.options.mode
  /\ t.stage = "keyring" => t.asked = {} /\ t.options.mode \in {"auto", "app"}
  /\ t.stage = "api" => t.options.mode \in {"auto", "api"} /\ t.asked = {"api"}
                        /\ (t.mode = "auto" => t.options.mode = "auto")
  /\ t.stage = "engine" => t.options.mode \in {"auto", "engine"} /\ EngineJustified(t)

OutcomeSound(t) ==
  /\ "engine" \in t.asked => EngineJustified(t)
  /\ "api" \in t.asked => ~t.options.certificate
  /\ t.outcome = "resolved" =>
       /\ t.ttl \in 1..t.options.ttl /\ (t.options.mode # "auto" => t.by = t.options.mode)
       /\ t.by = "pat" => t.ttl <= t.options.remaining

TURNCallSound(t) == t \in TURNRecords /\ StageSound(t) /\ OutcomeSound(t)
TURNInv == (\A c \in TURNCalls : TURNCallSound(turn[c])) /\ TURNTypeOK

-----------------------------------------------------------------------------
(* What the helpers do to a sound call *)

\* A call that fails is as sound as it was.
LEMMA FailingSound ==
  ASSUME NEW t \in TURNRecords, OutcomeSound(t)
  PROVE  TURNCallSound(Failing(t))
<1> DEFINE f == Failing(t)
<1>1. /\ f \in TURNRecords /\ f.stage = "ended" /\ f.options = t.options /\ f.asked = t.asked /\ f.answer = t.answer
      /\ f.outcome = "resolved" => t.outcome = "resolved" /\ f.ttl = t.ttl /\ f.by = t.by
  BY DEF Failing, TURNRecords, Waiting
<1>2. StageSound(f)
  BY <1>1 DEF StageSound
<1>3. OutcomeSound(f)
  BY <1>1 DEF OutcomeSound, EngineJustified
<1> QED
  BY <1>1, <1>2, <1>3 DEF TURNCallSound

\* A credential is issued soundly by what was asked for, within its lifetime.
LEMMA IssuedSound ==
  ASSUME NEW t \in TURNRecords, OutcomeSound(t), NEW by \in IssuedBy, NEW ttl \in 1..t.options.ttl,
         t.options.mode # "auto" => by = t.options.mode,
         by = "pat" => ttl <= t.options.remaining
  PROVE  TURNCallSound(Issued(t, by, ttl))
<1>1. t.options \in CreateTURNCredentialsOptions
  BY TURNAssumption DEF TURNRecords
<1>2. ttl \in 0..MaxTTL
  BY <1>1, TURNAssumption DEF CreateTURNCredentialsOptions
<1>3. Issued(t, by, ttl) \in TURNRecords
  BY <1>2 DEF Issued, TURNRecords, IssuedBy, Waiting
<1>4. StageSound(Issued(t, by, ttl))
  BY DEF Issued, StageSound, TURNRecords
<1>5. OutcomeSound(Issued(t, by, ttl))
  BY DEF Issued, OutcomeSound, EngineJustified, TURNRecords
<1> QED
  BY <1>3, <1>4, <1>5 DEF TURNCallSound

\* The dispatch of a call that asked nobody is sound.
LEMMA DispatchSound ==
  ASSUME NEW t \in TURNRecords, TURNCallSound(t), t.stage = "dispatch"
  PROVE  TURNCallSound(Dispatched(t))
<1> DEFINE o == t.options
           modal == [t EXCEPT !.mode = TURNMode(o)]
<1>1. o \in CreateTURNCredentialsOptions /\ o \in TURNOptions
  BY TURNAssumption DEF TURNRecords
<1>2. TURNMode(o) \in Modes
  BY <1>1 DEF TURNMode, CreateTURNCredentialsOptions, Modes
<1>3. t.asked = {} /\ OutcomeSound(t)
  BY DEF TURNCallSound, StageSound
<1>4. modal \in TURNRecords /\ modal.options = o /\ OutcomeSound(modal) /\ modal.asked = {}
  BY <1>2, <1>3 DEF TURNRecords, OutcomeSound, EngineJustified
<1>5. o.mode # "auto" => TURNMode(o) = o.mode
  BY DEF TURNMode
<1>6. CASE t.aborted \/ (o.certificate /\ o.credentials # "none")
  BY <1>6, <1>3, FailingSound DEF Dispatched
<1>7. CASE ~(t.aborted \/ (o.certificate /\ o.credentials # "none"))
  <2>1. CASE TURNMode(o) = "engine"
    <3>1. Dispatched(t) = [modal EXCEPT !.stage = "engine"]
      BY <1>7, <2>1 DEF Dispatched
    <3>2. o.mode = "engine" \/ (o.mode = "auto" /\ o.certificate)
      BY <2>1, <1>1, <1>5 DEF TURNMode, CreateTURNCredentialsOptions, Modes
    <3> DEFINE e == [modal EXCEPT !.stage = "engine"]
    <3>3. /\ e \in TURNRecords /\ e.stage = "engine" /\ e.options = o /\ e.asked = modal.asked /\ e.answer = modal.answer
          /\ e.outcome = modal.outcome /\ e.ttl = modal.ttl /\ e.by = modal.by
      BY <1>4 DEF TURNRecords, Waiting
    <3> HIDE DEF e, modal
    <3>4. EngineJustified(e)
      BY <3>2, <3>3 DEF EngineJustified
    <3>5. StageSound(e)
      BY <3>2, <3>3, <3>4 DEF StageSound
    <3>6. OutcomeSound(e)
      BY <1>4, <3>3, <3>4 DEF OutcomeSound
    <3> QED
      BY <3>1, <3>3, <3>5, <3>6 DEF TURNCallSound, e
  <2>2. CASE TURNMode(o) # "engine" /\ o.certificate
    BY <1>7, <2>2, <1>4, FailingSound DEF Dispatched
  <2>3. CASE TURNMode(o) = "pat" /\ ~o.certificate
    <3>1. Dispatched(t) = FromToken(modal)
      BY <1>7, <2>3 DEF Dispatched
    <3>2. o.mode \in {"auto", "pat"}
      BY <2>3, <1>5
    <3>3. CASE ~UsablePAT(o) \/ ~o.endpoint
      BY <3>1, <3>3, <1>4, FailingSound DEF FromToken
    <3>4. CASE UsablePAT(o) /\ o.endpoint
      <4> DEFINE ttl == IF o.remaining < o.ttl THEN o.remaining ELSE o.ttl
      <4>1. ttl \in 1..o.ttl /\ ttl <= o.remaining
        BY <3>4, <1>1, TURNAssumption DEF UsablePAT, CreateTURNCredentialsOptions
      <4>2. Dispatched(t) = Issued(modal, "pat", ttl)
        BY <3>1, <3>4, <1>4 DEF FromToken
      <4> HIDE DEF ttl, modal, o
      <4>3. TURNCallSound(Issued(modal, "pat", ttl))
        BY <4>1, <3>2, <1>4, IssuedSound DEF IssuedBy
      <4> QED
        BY <4>2, <4>3
    <3> QED
      BY <3>3, <3>4
  <2>4. CASE TURNMode(o) = "app" /\ ~o.certificate
    <3>1. o.mode \in {"auto", "app"}
      BY <2>4, <1>5
    <3>2. CASE o.credentials = "app" /\ o.endpoint
      <4>1. Dispatched(t) = [modal EXCEPT !.stage = "keyring"]
        BY <1>7, <2>4, <3>2 DEF Dispatched
      <4> DEFINE k == [modal EXCEPT !.stage = "keyring"]
      <4>2. /\ k \in TURNRecords /\ k.stage = "keyring" /\ k.options = o /\ k.asked = {}
            /\ k.outcome = modal.outcome /\ k.ttl = modal.ttl /\ k.by = modal.by
        BY <1>4 DEF TURNRecords, Waiting
      <4> HIDE DEF k, modal
      <4>3. StageSound(k)
        BY <3>1, <4>2 DEF StageSound
      <4>4. OutcomeSound(k)
        BY <1>4, <4>2 DEF OutcomeSound
      <4> QED
        BY <4>1, <4>2, <4>3, <4>4 DEF TURNCallSound, k
    <3>3. CASE ~(o.credentials = "app" /\ o.endpoint)
      BY <1>7, <2>4, <3>3, <1>4, FailingSound DEF Dispatched
    <3> QED
      BY <3>2, <3>3
  <2>5. CASE TURNMode(o) \in {"api", "auto"} /\ ~o.certificate
    <3>1. o.mode \in {"auto", "api"} /\ (TURNMode(o) = "auto" => o.mode = "auto")
      BY <2>5, <1>5
    <3>2. CASE (o.controlPlane \/ o.credentials # "none") /\ o.endpoint
      <4>1. Dispatched(t) = [modal EXCEPT !.stage = "api", !.asked = @ \union {"api"}]
        BY <1>7, <2>5, <3>2 DEF Dispatched
      <4> DEFINE d == [modal EXCEPT !.stage = "api", !.asked = @ \union {"api"}]
      <4>2. d \in TURNRecords /\ d.options = o /\ d.stage = "api" /\ d.mode = TURNMode(o) /\ d.asked = {"api"}
            /\ d.outcome = modal.outcome /\ d.ttl = modal.ttl /\ d.by = modal.by
        BY <1>4 DEF TURNRecords, Waiting
      <4>3. StageSound(d)
        BY <4>2, <3>1 DEF StageSound
      <4>4. OutcomeSound(d)
        BY <4>2, <2>5, <1>4 DEF OutcomeSound
      <4> QED
        BY <4>1, <4>2, <4>3, <4>4 DEF TURNCallSound
    <3>3. CASE (o.controlPlane \/ o.credentials # "none") /\ ~o.endpoint
      BY <1>7, <2>5, <3>3, <1>4, FailingSound DEF Dispatched
    <3>4. CASE ~(o.controlPlane \/ o.credentials # "none") /\ TURNMode(o) = "auto"
      <4>1. Dispatched(t) = [modal EXCEPT !.stage = "engine"]
        BY <1>7, <2>5, <3>4 DEF Dispatched
      <4>2. ~o.controlPlane /\ o.credentials = "none"
        BY <3>4
      <4> QED
        BY <4>1, <4>2, <3>1, <3>4, <1>4, ZenonT(60) DEF TURNCallSound, StageSound, OutcomeSound, EngineJustified, TURNRecords, Waiting
    <3>5. CASE ~(o.controlPlane \/ o.credentials # "none") /\ TURNMode(o) # "auto"
      BY <1>7, <2>5, <3>5, <1>4, FailingSound DEF Dispatched
    <3> QED
      BY <3>2, <3>3, <3>4, <3>5
  <2> QED
    BY <2>1, <2>2, <2>3, <2>4, <2>5, <1>2 DEF Modes
<1> QED
  BY <1>6, <1>7

-----------------------------------------------------------------------------
(* The invariant *)

\* A step that changes one call soundly keeps the invariant.
LEMMA OneTURNCall ==
  ASSUME TURNInv, NEW c \in TURNCalls, NEW t, TURNCallSound(t), TURNBecomes(c, t),
         project' \in {"none", "pending", "resolved"}
  PROVE  TURNInv'
BY DEF TURNInv, TURNTypeOK, TURNBecomes, TURNCallSound

\* Every operation of every call keeps the invariant.
LEMMA TURNStep == TURNInv /\ [TURNNext]_turnVars => TURNInv'
<1> SUFFICES ASSUME TURNInv, [TURNNext]_turnVars PROVE TURNInv'
  OBVIOUS
<1> USE DEF TURNTypeOK
<1>0. \A c \in TURNCalls : turn[c] \in TURNRecords /\ TURNCallSound(turn[c]) /\ OutcomeSound(turn[c])
  BY DEF TURNInv, TURNCallSound
<1>p. project \in {"none", "pending", "resolved"}
  BY DEF TURNInv
<1>1. CASE ProjectAnswers
  <2>1. CASE project' = "resolved" /\ UNCHANGED turn
    BY <2>1 DEF TURNInv
  <2>2. CASE project' = "none" /\ turn' = [c \in TURNCalls |-> IF turn[c].stage = "target" THEN Failing(turn[c]) ELSE turn[c]]
    <3>1. \A c \in TURNCalls : TURNCallSound(turn'[c])
      BY <2>2, <1>0, FailingSound
    <3> QED
      BY <3>1, <2>2 DEF TURNInv, TURNCallSound
  <2> QED
    BY <1>1, <2>1, <2>2 DEF ProjectAnswers
<1>2. ASSUME NEW c \in TURNCalls, CreateCredentials(c) PROVE TURNInv'
  <2> DEFINE t == turn[c]
  <2>1. t \in TURNRecords /\ TURNCallSound(t) /\ OutcomeSound(t) /\ t.stage = "idle" /\ t.asked = {} /\ t.mode = t.options.mode
    BY <1>0, <1>2 DEF CreateCredentials, TURNCallSound, StageSound
  <2>2. project' \in {"none", "pending", "resolved"}
    BY <1>2, <1>p DEF CreateCredentials
  <2>3. TURNCallSound([t EXCEPT !.stage = "dispatch"]) /\ TURNCallSound([t EXCEPT !.stage = "target"])
    BY <2>1 DEF TURNCallSound, StageSound, OutcomeSound, EngineJustified, TURNRecords, Waiting
  <2>4. TURNCallSound(Failing(t))
    BY <2>1, FailingSound
  <2>5. \/ TURNBecomes(c, [t EXCEPT !.stage = "dispatch"]) \/ TURNBecomes(c, Failing(t))
        \/ TURNBecomes(c, [t EXCEPT !.stage = "target"])
    BY <1>2 DEF CreateCredentials
  <2> QED
    BY <2>2, <2>3, <2>4, <2>5, OneTURNCall
<1>3. ASSUME NEW c \in TURNCalls, TargetKnown(c) PROVE TURNInv'
  <2>1. TURNCallSound([turn[c] EXCEPT !.stage = "dispatch"])
    BY <1>0, <1>3 DEF TargetKnown, TURNCallSound, StageSound, OutcomeSound, EngineJustified, TURNRecords, Waiting
  <2> QED
    BY <2>1, <1>3, <1>p, OneTURNCall DEF TargetKnown
<1>4. ASSUME NEW c \in TURNCalls, Dispatch(c) PROVE TURNInv'
  <2>1. TURNCallSound(Dispatched(turn[c]))
    BY <1>0, <1>4, DispatchSound DEF Dispatch
  <2> QED
    BY <2>1, <1>4, <1>p, OneTURNCall DEF Dispatch
<1>5. ASSUME NEW c \in TURNCalls, LoadServerKey(c) PROVE TURNInv'
  <2>1. PICK answer \in KeyringAnswers : TURNBecomes(c, FromKey(turn[c], answer))
    BY <1>5 DEF LoadServerKey
  <2>2. turn[c].options.mode \in {"auto", "app"} /\ turn[c].options.ttl \in 1..turn[c].options.ttl
    BY <1>0, <1>5, TURNAssumption DEF LoadServerKey, TURNCallSound, StageSound, TURNRecords, CreateTURNCredentialsOptions
  <2>3. TURNCallSound(Failing(turn[c]))
    BY <1>0, FailingSound
  <2>4. TURNCallSound(Issued(turn[c], "app", turn[c].options.ttl))
    BY <1>0, <2>2, IssuedSound DEF IssuedBy
  <2>5. TURNCallSound(FromKey(turn[c], answer))
    BY <2>3, <2>4 DEF FromKey
  <2> QED
    BY <2>1, <2>5, <1>5, <1>p, OneTURNCall DEF LoadServerKey
<1>6. ASSUME NEW c \in TURNCalls, APIIssues(c) PROVE TURNInv'
  <2>1. PICK ttl \in 1..turn[c].options.ttl : TURNBecomes(c, Issued(turn[c], "api", ttl))
    BY <1>6 DEF APIIssues
  <2>2. turn[c].options.mode \in {"auto", "api"}
    BY <1>0, <1>6 DEF APIIssues, TURNCallSound, StageSound
  <2>3. TURNCallSound(Issued(turn[c], "api", ttl))
    BY <1>0, <2>2, IssuedSound DEF IssuedBy
  <2> QED
    BY <2>1, <2>3, <1>6, <1>p, OneTURNCall DEF APIIssues
<1>7. ASSUME NEW c \in TURNCalls, EngineIssues(c) PROVE TURNInv'
  <2> DEFINE t == [turn[c] EXCEPT !.asked = @ \union {"engine"}]
  <2>1. turn[c].stage = "engine" /\ turn[c].options.mode \in {"auto", "engine"} /\ EngineJustified(turn[c])
    BY <1>0, <1>7 DEF EngineIssues, TURNCallSound, StageSound
  <2>2. t \in TURNRecords /\ OutcomeSound(t) /\ t.options = turn[c].options
    BY <1>0, <2>1 DEF OutcomeSound, EngineJustified, TURNRecords
  <2>3. TURNCallSound(Failing(turn[c])) /\ TURNCallSound(Failing(t))
    BY <1>0, <2>2, FailingSound
  <2>4. \A ttl \in 1..t.options.ttl : TURNCallSound(Issued(t, "engine", ttl))
    <3> HIDE DEF t
    <3> QED
      BY <2>1, <2>2, IssuedSound DEF IssuedBy
  <2>5. \/ TURNBecomes(c, Failing(turn[c])) \/ TURNBecomes(c, Failing(t))
        \/ \E ttl \in 1..t.options.ttl : TURNBecomes(c, Issued(t, "engine", ttl))
    BY <1>7 DEF EngineIssues
  <2>6. project' = project
    BY <1>7 DEF EngineIssues
  <2> QED
    BY <2>3, <2>4, <2>5, <2>6, <1>p, OneTURNCall
<1>8. ASSUME NEW c \in TURNCalls, TURNAbort(c) PROVE TURNInv'
  <2>1. TURNCallSound([turn[c] EXCEPT !.outcome = "rejected", !.aborted = TRUE])
    <3> DEFINE t == turn[c]
               a == [t EXCEPT !.outcome = "rejected", !.aborted = TRUE]
    <3>1. TURNCallSound(t)
      BY <1>0
    <3> HIDE DEF t
    <3>2. /\ a \in TURNRecords /\ a.stage = t.stage /\ a.options = t.options /\ a.asked = t.asked /\ a.answer = t.answer
          /\ a.mode = t.mode /\ a.outcome = "rejected"
      BY <3>1 DEF TURNCallSound, TURNRecords
    <3> HIDE DEF a
    <3>3. EngineJustified(t) => EngineJustified(a)
      BY <3>2 DEF EngineJustified
    <3>4. StageSound(a)
      BY <3>1, <3>2, <3>3 DEF TURNCallSound, StageSound
    <3>5. OutcomeSound(a)
      BY <3>1, <3>2, <3>3 DEF TURNCallSound, OutcomeSound
    <3> QED
      BY <3>2, <3>4, <3>5 DEF TURNCallSound, a, t
  <2> QED
    BY <2>1, <1>8, <1>p, OneTURNCall DEF TURNAbort
<1>9. ASSUME NEW c \in TURNCalls, NEW answer \in {"refused", "unavailable", "timeout"}, APIFails(c, answer)
      PROVE  TURNInv'
  <2> DEFINE t == [turn[c] EXCEPT !.answer = answer]
  <2>1. /\ turn[c].stage = "api" /\ turn[c].options.mode \in {"auto", "api"} /\ turn[c].asked = {"api"}
        /\ turn[c].mode = "auto" => turn[c].options.mode = "auto"
    BY <1>0, <1>9 DEF APIFails, TURNCallSound, StageSound
  <2>2. t \in TURNRecords /\ OutcomeSound(t)
    BY <1>0, <2>1 DEF OutcomeSound, EngineJustified, TURNRecords
  <2>3. TURNCallSound(Failing(t))
    BY <2>2, FailingSound
  <2>4. t.mode = "auto" /\ t.options.engine /\ Fallback(t, answer) => TURNCallSound([t EXCEPT !.stage = "engine"])
    BY <1>0, <2>1, <2>2, ZenonT(60) DEF Fallback, TURNCallSound, StageSound, OutcomeSound, EngineJustified, TURNRecords, Waiting
  <2>5. TURNBecomes(c, IF t.mode = "auto" /\ t.options.engine /\ Fallback(t, answer)
                       THEN [t EXCEPT !.stage = "engine"] ELSE Failing(t))
    BY <1>9 DEF APIFails
  <2>6. project' = project
    BY <1>9 DEF APIFails
  <2> QED
    BY <2>3, <2>4, <2>5, <2>6, <1>p, OneTURNCall
<1>10. CASE UNCHANGED turnVars
  BY <1>10 DEF turnVars, TURNInv
<1> QED
  BY <1>1, <1>2, <1>3, <1>4, <1>5, <1>6, <1>7, <1>8, <1>9, <1>10 DEF TURNNext

\* At the start nothing has been asked.
LEMMA TURNStart == TURNInit => TURNInv
<1> SUFFICES ASSUME TURNInit PROVE TURNInv
  OBVIOUS
<1>1. \A c \in TURNCalls : \E o \in TURNOptions : turn[c] = NewTURNCall(o)
  BY DEF TURNInit
<1>2. \A o \in TURNOptions : TURNCallSound(NewTURNCall(o))
  BY TURNAssumption DEF NewTURNCall, TURNCallSound, StageSound, OutcomeSound, TURNRecords, CreateTURNCredentialsOptions, IssuedBy
<1>3. \A c \in TURNCalls : TURNCallSound(turn[c])
  BY <1>1, <1>2
<1>4. turn \in [TURNCalls -> TURNRecords]
  <2>1. turn \in [TURNCalls -> {NewTURNCall(o) : o \in TURNOptions}]
    BY DEF TURNInit
  <2> QED
    BY <2>1, <1>3 DEF TURNCallSound
<1> QED
  BY <1>3, <1>4 DEF TURNInit, TURNInv, TURNTypeOK

\* Types and stages of every call, along every behaviour.
LEMMA TURNInvariant == TURNSpec => []TURNInv
BY TURNStart, TURNStep, PTL DEF TURNSpec

\* The engine stands in for the control plane only with a reason, a certificate reaches only the
\* engine, and a credential derived from a token does not outlive it.
THEOREM NothingBypassed == TURNSpec => []NoBypass
<1>1. TURNInv => NoBypass
  <2> SUFFICES ASSUME TURNInv PROVE NoBypass
    OBVIOUS
  <2>1. \A c \in TURNCalls : OutcomeSound(turn[c])
    BY DEF TURNInv, TURNCallSound
  <2>2. ASSUME NEW c \in TURNCalls, "engine" \in turn[c].asked, turn[c].asked \subseteq {"engine"}
        PROVE  turn[c].asked = {"engine"}
    BY <2>2
  <2> QED
    BY <2>1, <2>2 DEF NoBypass, OutcomeSound, EngineJustified
<1> QED
  BY <1>1, TURNInvariant, PTL

-----------------------------------------------------------------------------
(* Uploads and removals *)

FileCallRecords ==
  [stage : {"idle", "sent", "received", "confirmed", "unconfirmed", "returned", "threw"},
   operation : {"upload", "lookup", "remove"},
   id : Maybe(Ids), path : Maybe(Paths), content : Maybe(Contents), expected : Maybe(Contents),
   outcome : Maybe(AttemptStates \union {"removed"}), receipt : Maybe(Contents)]
AttemptRecords == [path : Maybe(Paths), content : Maybe(Contents), expected : Maybe(Contents), state : Maybe(AttemptStates)]
Publication(id, path, content) == [id |-> id, path |-> path, content |-> content]

\* What a call asked for and what it may have been told, given all that was published and the
\* contents that its own removal removed.
Evident(r, published, removed) ==
  /\ r \in FileCallRecords
  /\ r.stage # "idle" => r.path \in Paths
  /\ r.stage # "idle" /\ r.operation # "remove" => r.id \in Ids
  /\ r.stage # "idle" /\ r.operation = "upload" => r.content \in Contents
  /\ r.stage # "idle" /\ r.operation = "remove" => r.expected \in Contents
  /\ r.stage \in {"confirmed", "unconfirmed"} => r.operation = "remove"
  /\ r.stage # "returned" => r.outcome = Nothing
  /\ r.stage \in {"idle", "sent", "received"} => removed = {}
  /\ r.stage = "confirmed" \/ r.outcome = "removed" => removed = {r.expected}
  /\ r.outcome = "committed" => Publication(r.id, r.path, r.receipt) \in published
  /\ r.stage = "returned" /\ r.operation = "upload" => r.receipt = r.content

\* An attempt that began has what its request had, and one that committed is published.
AttemptSound(id, a, published) ==
  /\ a \in AttemptRecords
  /\ a.state # Nothing => a.path \in Paths /\ a.content \in Contents
  /\ a.state = "committed" => Publication(id, a.path, a.content) \in published

RemovedBy(c) == {d.content : d \in {x \in done.removed : x.by = c}}
UploadsInv ==
  /\ UploadsTypeOK
  /\ \A c \in FileCalls : Evident(fileCall[c], done.published, RemovedBy(c))
  /\ \A id \in Ids : AttemptSound(id, attempt[id], done.published)

\* The types that the invariant needs.
LEMMA UploadsTyped ==
  UploadsTypeOK <=> /\ fileCall \in [FileCalls -> FileCallRecords] /\ attempt \in [Ids -> AttemptRecords]
                    /\ file \in [Paths -> Maybe(Contents)]
                    /\ done \in [published : SUBSET [id : Ids, path : Paths, content : Contents],
                                removed : SUBSET [by : FileCalls, content : Contents]]
BY DEF UploadsTypeOK, FileCallRecords, AttemptRecords

\* A call that becomes as evident a one, while nothing happens to the owner, keeps the invariant.
LEMMA OneFileCall ==
  ASSUME UploadsInv, NEW c \in FileCalls, NEW r, fileCall' = [fileCall EXCEPT ![c] = r],
         Evident(r, done.published, RemovedBy(c)), UNCHANGED <<attempt, file, done>>
  PROVE  UploadsInv'
<1>1. fileCall \in [FileCalls -> FileCallRecords] /\ r \in FileCallRecords
  BY UploadsTyped DEF UploadsInv, Evident
<1>2. fileCall' \in [FileCalls -> FileCallRecords] /\ \A d \in FileCalls : fileCall'[d] = IF d = c THEN r ELSE fileCall[d]
  BY <1>1
<1>3. UploadsTypeOK'
  BY <1>2, UploadsTyped DEF UploadsInv, UploadsTypeOK, FileCallRecords
<1>4. \A d \in FileCalls : RemovedBy(d)' = RemovedBy(d)
  BY DEF RemovedBy
<1>5. \A d \in FileCalls : Evident(fileCall'[d], done.published, RemovedBy(d))
  BY <1>2 DEF UploadsInv
<1>6. (\A d \in FileCalls : Evident(fileCall[d], done.published, RemovedBy(d)))'
  BY <1>4, <1>5
<1>7. (\A id \in Ids : AttemptSound(id, attempt[id], done.published))'
  BY DEF UploadsInv
<1> QED
  BY <1>3, <1>6, <1>7 DEF UploadsInv

\* A call that threw was told nothing.
LEMMA ThrowsSound ==
  ASSUME UploadsInv, NEW c \in FileCalls, fileCall[c].stage \notin {"idle", "returned"}, Throws(c),
         UNCHANGED <<attempt, file, done>>
  PROVE  UploadsInv'
<1> DEFINE r == [fileCall[c] EXCEPT !.stage = "threw"]
<1>1. fileCall \in [FileCalls -> FileCallRecords] /\ Evident(fileCall[c], done.published, RemovedBy(c))
  BY UploadsTyped DEF UploadsInv
<1>2. fileCall' = [fileCall EXCEPT ![c] = r]
  BY DEF Throws
<1>3. Evident(r, done.published, RemovedBy(c))
  BY <1>1 DEF Evident, FileCallRecords, Nothing
<1> QED
  BY <1>2, <1>3, OneFileCall

\* A request is sent with what its call needs to have.
LEMMA SendsSound ==
  ASSUME UploadsInv, NEW c \in FileCalls, NEW request \in FileCallRecords, Sends(c, request),
         request.stage = "idle", request.outcome = Nothing, request.path \in Paths,
         request.operation # "remove" => request.id \in Ids,
         request.operation = "upload" => request.content \in Contents,
         request.operation = "remove" => request.expected \in Contents
  PROVE  UploadsInv'
<1> DEFINE r == [request EXCEPT !.stage = "sent"]
<1>1. fileCall' = [fileCall EXCEPT ![c] = r] /\ UNCHANGED <<attempt, file, done>>
  BY DEF Sends
<1>2. RemovedBy(c) = {}
  BY DEF UploadsInv, Evident, Sends
<1>3. Evident(r, done.published, RemovedBy(c))
  BY <1>2 DEF Evident, FileCallRecords, Nothing
<1> QED
  BY <1>1, <1>3, OneFileCall

\* A receipt that claims nothing wrong is of an attempt as it stands.
LEMMA SoundReceipts ==
  ASSUME NEW r \in ReceiptsSent, r.protocol = "durable-v1", r.consistent
  PROVE  \E id \in Ids : attempt[id].state # Nothing /\ r = Receipt(id, attempt[id].state, TRUE)
<1> DEFINE known == {id \in Ids : attempt[id].state # Nothing}
           sound == {Receipt(id, attempt[id].state, TRUE) : id \in known}
<1>1. CASE r \in sound
  BY <1>1
<1>2. CASE r \in {[s EXCEPT !.protocol = Nothing] : s \in sound}
  <2>1. PICK id \in known : r = [Receipt(id, attempt[id].state, TRUE) EXCEPT !.protocol = Nothing]
    BY <1>2
  <2>2. r.protocol = Nothing
    BY <2>1 DEF Receipt
  <2> QED
    BY <2>2 DEF Nothing
<1>3. CASE r \in {Receipt(id, "committed", FALSE) : id \in known}
  <2>1. PICK id \in known : r = Receipt(id, "committed", FALSE)
    BY <1>3
  <2> QED
    BY <2>1 DEF Receipt
<1> QED
  BY <1>1, <1>2, <1>3 DEF ReceiptsSent

\* The response to upload() or getUploadReceipt() makes it evident, or throws.
LEMMA AnswerSound ==
  ASSUME UploadsInv, NEW c \in FileCalls, NEW r \in ReceiptsSent, ReceiptAnswered(c, r)
  PROVE  UploadsInv'
<1>0. /\ fileCall \in [FileCalls -> FileCallRecords] /\ Evident(fileCall[c], done.published, RemovedBy(c))
      /\ fileCall[c].stage = "received" /\ fileCall[c].operation # "remove" /\ UNCHANGED <<attempt, file, done>>
  BY UploadsTyped DEF UploadsInv, ReceiptAnswered
<1>1. CASE ~Accepts(c, r)
  BY <1>0, <1>1, ThrowsSound DEF ReceiptAnswered
<1>2. CASE Accepts(c, r)
  <2>1. r.protocol = "durable-v1" /\ r.consistent /\ r.id = fileCall[c].id /\ r.path = fileCall[c].path
        /\ (fileCall[c].operation = "upload" => r.content = fileCall[c].content)
    BY <1>2 DEF Accepts, ReadReceipt
  <2>2. PICK id \in Ids : attempt[id].state # Nothing /\ r = Receipt(id, attempt[id].state, TRUE)
    BY <2>1, SoundReceipts
  <2>3. r.id = id /\ r.path = attempt[id].path /\ r.content = attempt[id].content /\ r.state = attempt[id].state
    BY <2>2 DEF Receipt
  <2>4. AttemptSound(id, attempt[id], done.published)
    BY DEF UploadsInv
  <2>5. r.content \in Contents /\ r.state \in AttemptStates
        /\ (r.state = "committed" => Publication(r.id, r.path, r.content) \in done.published)
    BY <2>2, <2>3, <2>4 DEF AttemptSound, AttemptRecords, Maybe
  <2> DEFINE s == [fileCall[c] EXCEPT !.stage = "returned", !.outcome = r.state, !.receipt = r.content]
  <2>6. fileCall' = [fileCall EXCEPT ![c] = s]
    BY <1>2 DEF ReceiptAnswered, Returns
  <2>7. /\ s \in FileCallRecords /\ s.stage = "returned" /\ s.operation = fileCall[c].operation /\ s.id = fileCall[c].id
        /\ s.path = fileCall[c].path /\ s.content = fileCall[c].content /\ s.outcome = r.state /\ s.receipt = r.content
        /\ s.expected = fileCall[c].expected
    BY <1>0, <2>5 DEF FileCallRecords, Maybe
  <2>8. r.state # "removed"
    BY <2>5 DEF AttemptStates, Terminal
  <2> HIDE DEF s
  <2>9. Evident(s, done.published, RemovedBy(c))
    BY <1>0, <2>1, <2>5, <2>7, <2>8 DEF Evident
  <2> QED
    BY <1>0, <2>6, <2>9, OneFileCall
<1> QED
  BY <1>1, <1>2

\* A removal notes what it removed, and is confirmed if that was what was expected.
LEMMA RemovesSound ==
  ASSUME UploadsInv, NEW c \in FileCalls, OwnerRemoves(c)
  PROVE  UploadsInv'
<1> DEFINE q == fileCall[c]
           old == file[q.path]
           removed == IF old = Nothing THEN done.removed ELSE done.removed \union {[by |-> c, content |-> old]}
<1>1. /\ fileCall \in [FileCalls -> FileCallRecords] /\ file \in [Paths -> Maybe(Contents)]
      /\ done.removed \subseteq [by : FileCalls, content : Contents]
      /\ q.stage = "received" /\ q.operation = "remove"
      /\ \A d \in FileCalls : Evident(fileCall[d], done.published, RemovedBy(d))
  BY UploadsTyped DEF UploadsInv, OwnerRemoves
<1>2. q.path \in Paths /\ q.expected \in Contents /\ RemovedBy(c) = {} /\ q \in FileCallRecords
  BY <1>1 DEF Evident
<1>3. old \in Maybe(Contents) /\ Nothing \notin Contents
  BY <1>1, <1>2, UploadsAssumption
<1>4. PICK stage \in {"confirmed", "unconfirmed"} :
        /\ stage = "confirmed" => old = q.expected
        /\ fileCall' = [fileCall EXCEPT ![c].stage = stage]
  BY DEF OwnerRemoves
<1>5. /\ file' = [file EXCEPT ![q.path] = Nothing] /\ attempt' = attempt
      /\ done' = [done EXCEPT !.removed = removed]
  BY DEF OwnerRemoves
<1>6. done'.published = done.published /\ done'.removed = removed
  BY <1>5, UploadsTyped DEF UploadsInv
<1> DEFINE s == [q EXCEPT !.stage = stage]
<1>7. s \in FileCallRecords
  BY <1>2, <1>4 DEF FileCallRecords
<1>8. fileCall' \in [FileCalls -> FileCallRecords] /\ \A d \in FileCalls : fileCall'[d] = IF d = c THEN s ELSE fileCall[d]
  BY <1>1, <1>4, <1>7
<1>9. \A d \in FileCalls \ {c} : RemovedBy(d)' = RemovedBy(d)
  BY <1>6 DEF RemovedBy
<1>10. ASSUME old # Nothing PROVE RemovedBy(c)' = {old}
  <2> DEFINE new == [by |-> c, content |-> old]
  <2>1. \A x \in done.removed : x.by # c
    BY <1>2 DEF RemovedBy
  <2>2. {x \in removed : x.by = c} = {new}
    BY <2>1, <1>10
  <2>3. RemovedBy(c)' = {d.content : d \in {x \in removed : x.by = c}}
    BY <1>6 DEF RemovedBy
  <2>4. new.content = old
    OBVIOUS
  <2> HIDE DEF new, removed, old
  <2>5. {d.content : d \in {new}} = {old}
    BY <2>4
  <2> QED
    BY <2>2, <2>3, <2>5
<1>11. Evident(s, done.published, RemovedBy(c)')
  BY <1>1, <1>2, <1>3, <1>4, <1>7, <1>10 DEF Evident, FileCallRecords, Nothing
<1>12. \A d \in FileCalls : Evident(fileCall'[d], done.published, RemovedBy(d)')
  BY <1>1, <1>8, <1>9, <1>11
<1>13. done' \in [published : SUBSET [id : Ids, path : Paths, content : Contents],
                 removed : SUBSET [by : FileCalls, content : Contents]]
  <2>1. removed \subseteq [by : FileCalls, content : Contents]
    BY <1>1, <1>3 DEF Maybe
  <2>2. done \in [published : SUBSET [id : Ids, path : Paths, content : Contents],
                 removed : SUBSET [by : FileCalls, content : Contents]]
    BY UploadsTyped DEF UploadsInv
  <2> HIDE DEF removed
  <2> QED
    BY <1>5, <2>1, <2>2
<1>14. file' \in [Paths -> Maybe(Contents)]
  BY <1>1, <1>5 DEF Maybe
<1>15. UploadsTypeOK'
  BY <1>5, <1>6, <1>8, <1>13, <1>14, UploadsTyped DEF UploadsInv, UploadsTypeOK, FileCallRecords
<1> QED
  BY <1>5, <1>6, <1>12, <1>15 DEF UploadsInv

\* The owner begins an attempt with what a new id came with.
LEMMA ReceivesSound ==
  ASSUME UploadsInv, NEW c \in FileCalls, OwnerReceives(c)
  PROVE  UploadsInv'
<1> DEFINE q == fileCall[c]
           r == [q EXCEPT !.stage = "received"]
<1>1. /\ fileCall \in [FileCalls -> FileCallRecords] /\ attempt \in [Ids -> AttemptRecords] /\ q.stage = "sent"
      /\ Evident(q, done.published, RemovedBy(c)) /\ file' = file /\ done' = done
      /\ fileCall' = [fileCall EXCEPT ![c] = r]
  BY UploadsTyped DEF UploadsInv, OwnerReceives
<1>2. Evident(r, done.published, RemovedBy(c))
  BY <1>1 DEF Evident, FileCallRecords
<1>3. fileCall' \in [FileCalls -> FileCallRecords] /\ \A d \in FileCalls : fileCall'[d] = IF d = c THEN r ELSE fileCall[d]
  BY <1>1, <1>2 DEF Evident
<1>4. \A d \in FileCalls : Evident(fileCall'[d], done'.published, RemovedBy(d)')
  <2>1. \A d \in FileCalls : RemovedBy(d)' = RemovedBy(d)
    BY <1>1 DEF RemovedBy
  <2> QED
    BY <1>1, <1>2, <1>3, <2>1 DEF UploadsInv
<1> DEFINE a == [path |-> q.path, content |-> q.content, expected |-> q.expected, state |-> "receiving"]
<1>5. q.operation = "upload" => q.id \in Ids /\ AttemptSound(q.id, a, done.published)
  BY <1>1 DEF Evident, FileCallRecords, AttemptSound, AttemptRecords, AttemptStates, Terminal, Maybe
<1>6. attempt' = attempt \/ (q.operation = "upload" /\ attempt' = [attempt EXCEPT ![q.id] = a])
  BY DEF OwnerReceives
<1> HIDE DEF a, q
<1>7. attempt' \in [Ids -> AttemptRecords] /\ \A id \in Ids : AttemptSound(id, attempt'[id], done.published)
  <2>1. \A id \in Ids : AttemptSound(id, attempt[id], done.published)
    BY DEF UploadsInv
  <2> QED
    BY <1>1, <1>5, <1>6, <2>1 DEF AttemptSound
<1>8. UploadsTypeOK'
  BY <1>1, <1>3, <1>7, UploadsTyped DEF UploadsInv, UploadsTypeOK, FileCallRecords, AttemptRecords
<1> QED
  BY <1>1, <1>4, <1>7, <1>8 DEF UploadsInv

\* An attempt goes on to a state that is not "committed", or publishes what it has.
LEMMA WorksSound ==
  ASSUME UploadsInv, NEW id \in Ids, OwnerWorks(id)
  PROVE  UploadsInv'
<1>1. /\ attempt \in [Ids -> AttemptRecords] /\ file \in [Paths -> Maybe(Contents)]
      /\ done \in [published : SUBSET [id : Ids, path : Paths, content : Contents],
                   removed : SUBSET [by : FileCalls, content : Contents]]
      /\ fileCall' = fileCall /\ \A i \in Ids : AttemptSound(i, attempt[i], done.published)
  BY UploadsTyped DEF UploadsInv, OwnerWorks
<1> DEFINE a == attempt[id]
           p == Publication(id, a.path, a.content)
<1>2. a \in AttemptRecords /\ a.state \in {"receiving", "prepared"} /\ a.path \in Paths /\ a.content \in Contents
  BY <1>1 DEF OwnerWorks, AttemptSound, Nothing
<1>3. done.published \subseteq done'.published /\ done'.removed = done.removed
      /\ done' \in [published : SUBSET [id : Ids, path : Paths, content : Contents],
                    removed : SUBSET [by : FileCalls, content : Contents]]
  <2>1. CASE done' = done
    BY <1>1, <2>1
  <2>2. CASE done' = [done EXCEPT !.published = @ \union {p}]
    <3>1. p \in [id : Ids, path : Paths, content : Contents]
      BY <1>2 DEF Publication
    <3> HIDE DEF p
    <3> QED
      BY <1>1, <2>2, <3>1
  <2> QED
    BY <2>1, <2>2 DEF OwnerWorks, Publication
<1>4. \E state \in {"prepared", "rejected", "interrupted", "uncertain", "committed"} :
        /\ attempt' = [attempt EXCEPT ![id].state = state]
        /\ state = "committed" => p \in done'.published
  <2>1. CASE \E state \in {"prepared", "rejected", "interrupted", "uncertain"} : attempt' = [attempt EXCEPT ![id].state = state]
    BY <2>1
  <2>2. CASE attempt' = [attempt EXCEPT ![id].state = "committed"] /\ done' = [done EXCEPT !.published = @ \union {p}]
    BY <1>1, <2>2
  <2> QED
    BY <2>1, <2>2 DEF OwnerWorks, Publication
<1>5. PICK state \in {"prepared", "rejected", "interrupted", "uncertain", "committed"} :
        /\ attempt' = [attempt EXCEPT ![id].state = state]
        /\ state = "committed" => p \in done'.published
  BY <1>4
<1> DEFINE b == [a EXCEPT !.state = state]
<1>6. AttemptSound(id, b, done'.published)
  BY <1>2, <1>5 DEF AttemptSound, AttemptRecords, AttemptStates, Terminal, Maybe
<1>7. \A i \in Ids : attempt'[i] = IF i = id THEN b ELSE attempt[i]
  BY <1>1, <1>5
<1>8. attempt' \in [Ids -> AttemptRecords]
  BY <1>1, <1>5, <1>6 DEF AttemptSound
<1> HIDE DEF b, a, p
<1>9. \A i \in Ids : AttemptSound(i, attempt'[i], done'.published)
  <2>1. \A i \in Ids : AttemptSound(i, attempt[i], done'.published)
    BY <1>1, <1>3 DEF AttemptSound
  <2> QED
    BY <1>6, <1>7, <2>1
<1>10. \A d \in FileCalls : Evident(fileCall[d], done'.published, RemovedBy(d)')
  <2>1. \A d \in FileCalls : RemovedBy(d)' = RemovedBy(d)
    BY <1>3 DEF RemovedBy
  <2>2. \A d \in FileCalls : Evident(fileCall[d], done.published, RemovedBy(d))
    BY DEF UploadsInv
  <2> QED
    BY <1>3, <2>1, <2>2 DEF Evident
<1>11. file' \in [Paths -> Maybe(Contents)]
  BY <1>1, <1>2 DEF OwnerWorks, Maybe, a
<1>12. UploadsTypeOK'
  BY <1>1, <1>3, <1>8, <1>11, UploadsTyped DEF UploadsInv, UploadsTypeOK, FileCallRecords, AttemptRecords
<1> QED
  BY <1>1, <1>9, <1>10, <1>12 DEF UploadsInv

\* The confirmation of a removal arrives, or a response that confirms nothing.
LEMMA RemoveAnsweredSound ==
  ASSUME UploadsInv, NEW c \in FileCalls, RemoveAnswered(c)
  PROVE  UploadsInv'
<1>0. /\ fileCall \in [FileCalls -> FileCallRecords] /\ Evident(fileCall[c], done.published, RemovedBy(c))
      /\ fileCall[c].stage \in {"confirmed", "unconfirmed"} /\ UNCHANGED <<attempt, file, done>>
  BY UploadsTyped DEF UploadsInv, RemoveAnswered
<1>1. CASE fileCall[c].stage = "unconfirmed"
  BY <1>0, <1>1, ThrowsSound DEF RemoveAnswered, RemovalConfirmed
<1>2. CASE fileCall[c].stage = "confirmed"
  <2> DEFINE s == [fileCall[c] EXCEPT !.stage = "returned", !.outcome = "removed", !.receipt = Nothing]
  <2>1. fileCall' = [fileCall EXCEPT ![c] = s]
    BY <1>2 DEF RemoveAnswered, RemovalConfirmed, Returns
  <2>2. Evident(s, done.published, RemovedBy(c))
    BY <1>0, <1>2 DEF Evident, FileCallRecords, Maybe
  <2> QED
    BY <1>0, <2>1, <2>2, OneFileCall
<1> QED
  BY <1>0, <1>1, <1>2

\* Every step of a call or of the owner keeps the invariant.
LEMMA UploadsStep == UploadsInv /\ [UploadsNext]_uploadVars => UploadsInv'
<1> SUFFICES ASSUME UploadsInv, [UploadsNext]_uploadVars PROVE UploadsInv'
  OBVIOUS
<1>0. ASSUME NEW c \in FileCalls, fileCall[c].stage = "idle"
      PROVE  fileCall[c] \in FileCallRecords /\ fileCall[c].outcome = Nothing
  BY <1>0 DEF UploadsInv, Evident
<1>1. ASSUME NEW c \in FileCalls, NEW id \in Ids, NEW path \in Paths, NEW content \in Contents,
             NEW expected \in Maybe(Contents), Upload(c, id, path, content, expected)
      PROVE  UploadsInv'
  <2> DEFINE r == [fileCall[c] EXCEPT !.operation = "upload", !.id = id, !.path = path, !.content = content,
                                      !.expected = expected]
  <2>1. Sends(c, r) /\ fileCall[c].stage = "idle"
    BY <1>1 DEF Upload, Sends
  <2>2. r \in FileCallRecords /\ r.stage = "idle" /\ r.outcome = Nothing /\ r.path = path /\ r.id = id /\ r.content = content
        /\ r.operation = "upload"
    BY <1>0, <2>1 DEF FileCallRecords, Maybe
  <2> HIDE DEF r
  <2> QED
    BY <2>1, <2>2, SendsSound
<1>2. ASSUME NEW c \in FileCalls, NEW id \in Ids, NEW path \in Paths, GetUploadReceipt(c, id, path) PROVE UploadsInv'
  <2> DEFINE r == [fileCall[c] EXCEPT !.operation = "lookup", !.id = id, !.path = path]
  <2>1. Sends(c, r) /\ fileCall[c].stage = "idle"
    BY <1>2 DEF GetUploadReceipt, Sends
  <2>2. r \in FileCallRecords /\ r.stage = "idle" /\ r.outcome = Nothing /\ r.path = path /\ r.id = id
        /\ r.operation = "lookup"
    BY <1>0, <2>1 DEF FileCallRecords, Maybe
  <2> HIDE DEF r
  <2> QED
    BY <2>1, <2>2, SendsSound
<1>3. ASSUME NEW c \in FileCalls, NEW path \in Paths, NEW expected \in Contents, RemoveIfRevision(c, path, expected)
      PROVE  UploadsInv'
  <2> DEFINE r == [fileCall[c] EXCEPT !.operation = "remove", !.path = path, !.expected = expected]
  <2>1. Sends(c, r) /\ fileCall[c].stage = "idle"
    BY <1>3 DEF RemoveIfRevision, Sends
  <2>2. r \in FileCallRecords /\ r.stage = "idle" /\ r.outcome = Nothing /\ r.path = path /\ r.expected = expected
        /\ r.operation = "remove"
    BY <1>0, <2>1 DEF FileCallRecords, Maybe
  <2> HIDE DEF r
  <2> QED
    BY <2>1, <2>2, SendsSound
<1>4. ASSUME NEW c \in FileCalls, Lost(c) PROVE UploadsInv'
  BY <1>4, ThrowsSound DEF Lost
<1>5. CASE UNCHANGED uploadVars
  <2>1. /\ UploadsTypeOK' /\ \A c \in FileCalls : RemovedBy(c)' = RemovedBy(c)
    BY <1>5 DEF UploadsInv, UploadsTypeOK, RemovedBy, uploadVars
  <2> QED
    BY <1>5, <2>1 DEF UploadsInv, uploadVars
<1> QED
  BY <1>1, <1>2, <1>3, <1>4, <1>5, ReceivesSound, RemovesSound, RemoveAnsweredSound, AnswerSound, WorksSound
  DEF UploadsNext

\* At the start nothing is published or removed.
LEMMA UploadsStart == UploadsInit => UploadsInv
<1> SUFFICES ASSUME UploadsInit PROVE UploadsInv
  OBVIOUS
<1>1. UploadsTypeOK
  BY DEF UploadsInit, NoCalls, UploadsTypeOK, Maybe
<1>2. \A c \in FileCalls : RemovedBy(c) = {}
  BY DEF RemovedBy, UploadsInit, NoCalls
<1>3. \A c \in FileCalls : Evident(fileCall[c], done.published, RemovedBy(c))
  BY <1>2 DEF UploadsInit, NoCalls, Evident, FileCallRecords, Maybe, Nothing
<1>4. \A id \in Ids : AttemptSound(id, attempt[id], done.published)
  BY DEF UploadsInit, NoCalls, AttemptSound, AttemptRecords, Maybe, Nothing
<1> QED
  BY <1>1, <1>3, <1>4 DEF UploadsInv

\* What upload(), getUploadReceipt() and removeIfRevision() return is evidence: a committed receipt
\* is of a publication of this id at this path, with the content that was given, and a removal
\* that returns removed the expected revision and nothing else.
THEOREM Evidence == UploadsSpec => []ReceiptsAreEvidence
<1>1. UploadsInv => ReceiptsAreEvidence
  BY DEF UploadsInv, Evident, ReceiptsAreEvidence, RemovedBy, Publication
<1> QED
  BY <1>1, UploadsStart, UploadsStep, PTL DEF UploadsSpec

-----------------------------------------------------------------------------
(* Which credential goes where *)

\* The first of some values that is defined.
LEMMA FirstAt ==
  ASSUME NEW values, DOMAIN values \subseteq Nat, NEW i \in DOMAIN values, values[i] # None,
         \A j \in DOMAIN values : j < i => values[j] = None
  PROVE  FirstDefined(values) = values[i]
<1> DEFINE P(k) == values[k] # None /\ \A j \in DOMAIN values : j < k => values[j] = None
<1>1. \A k \in DOMAIN values : P(k) => k = i
  OBVIOUS
<1>2. i \in DOMAIN values /\ P(i)
  OBVIOUS
<1>3. (CHOOSE k \in DOMAIN values : P(k)) = i
  <2> HIDE DEF P
  <2> QED
    BY <1>1, <1>2
<1> QED
  BY <1>3 DEF FirstDefined

LEMMA FirstOfTwo ==
  ASSUME NEW a, NEW b
  PROVE  FirstDefined(<<a, b>>) = IF a # None THEN a ELSE b
<1>0. DOMAIN <<a, b>> = {1, 2}
  OBVIOUS
<1>1. CASE a # None
  <2>1. \A j \in DOMAIN <<a, b>> : j < 1 => <<a, b>>[j] = None
    BY <1>0
  <2>2. FirstDefined(<<a, b>>) = <<a, b>>[1]
    BY <1>0, <1>1, <2>1, FirstAt
  <2> QED
    BY <1>1, <2>2
<1>2. CASE a = None /\ b # None
  <2>1. \A j \in DOMAIN <<a, b>> : j < 2 => <<a, b>>[j] = None
    BY <1>0, <1>2
  <2>2. FirstDefined(<<a, b>>) = <<a, b>>[2]
    BY <1>0, <1>2, <2>1, FirstAt
  <2> QED
    BY <1>2, <2>2
<1>3. CASE a = None /\ b = None
  BY <1>3 DEF FirstDefined
<1> QED
  BY <1>1, <1>2, <1>3

LEMMA FirstOfThree ==
  ASSUME NEW a, NEW b, NEW c
  PROVE  FirstDefined(<<a, b, c>>) = IF a # None THEN a ELSE IF b # None THEN b ELSE c
<1>0. DOMAIN <<a, b, c>> = {1, 2, 3}
  OBVIOUS
<1>1. CASE a # None
  <2>1. \A j \in DOMAIN <<a, b, c>> : j < 1 => <<a, b, c>>[j] = None
    BY <1>0
  <2>2. FirstDefined(<<a, b, c>>) = <<a, b, c>>[1]
    BY <1>0, <1>1, <2>1, FirstAt
  <2> QED
    BY <1>1, <2>2
<1>2. CASE a = None /\ b # None
  <2>1. \A j \in DOMAIN <<a, b, c>> : j < 2 => <<a, b, c>>[j] = None
    BY <1>0, <1>2
  <2>2. FirstDefined(<<a, b, c>>) = <<a, b, c>>[2]
    BY <1>0, <1>2, <2>1, FirstAt
  <2> QED
    BY <1>2, <2>2
<1>3. CASE a = None /\ b = None /\ c # None
  <2>1. \A j \in DOMAIN <<a, b, c>> : j < 3 => <<a, b, c>>[j] = None
    BY <1>0, <1>3
  <2>2. FirstDefined(<<a, b, c>>) = <<a, b, c>>[3]
    BY <1>0, <1>3, <2>1, FirstAt
  <2> QED
    BY <1>3, <2>2
<1>4. CASE a = None /\ b = None /\ c = None
  BY <1>4 DEF FirstDefined
<1> QED
  BY <1>1, <1>2, <1>3, <1>4

\* What is stored is that of the context, or that of the environment of its API.
LEMMA StoredValue ==
  ASSUME NEW a, NEW c, NEW kind
  PROVE  /\ Stored(a, c, kind) \in {None, "context", "environment"}
         /\ Stored(a, c, kind) = "environment" => Linked(a, c)
BY FirstOfTwo DEF Stored, When, None

\* A token is explicit, or stored where nothing explicit stands before it.
LEMMA TokenValue ==
  ASSUME NEW a, a.options \in ClientOptions, NEW c
  PROVE  /\ a.options.noToken = "yes" => Token(a, c) = None
         /\ Token(a, c) \in {None, "options", "credentials", "env", "context", "environment"}
         /\ Token(a, c) \in {"context", "environment"} =>
              /\ a.options.readConfigFile /\ ExplicitToken(a) = None /\ StoredToken(a, c) # None
              /\ Token(a, c) = Stored(a, c, "token")
         /\ a.options.auth \intersect {"token", "credentials"} # {} /\ a.options.noToken # "yes" =>
              Token(a, c) \in {"options", "credentials"}
<1>1. a.options.readConfigFile \in BOOLEAN
  BY DEF ClientOptions
<1>2. /\ ExplicitToken(a) = IF "token" \in a.options.auth THEN "options"
                            ELSE IF "credentials" \in a.options.auth THEN "credentials"
                            ELSE IF "token" \in a.env.auth THEN "env" ELSE None
  BY FirstOfThree DEF ExplicitToken, When, None
<1>3. Token(a, c) = IF a.options.noToken = "yes" THEN None
                    ELSE IF ExplicitToken(a) # None THEN ExplicitToken(a)
                    ELSE IF a.options.readConfigFile THEN StoredToken(a, c) ELSE None
  BY <1>1, FirstOfTwo DEF Token, When
<1>4. StoredToken(a, c) \in {None, Stored(a, c, "token")}
  BY DEF StoredToken, When
<1> QED
  BY <1>1, <1>2, <1>3, <1>4, StoredValue DEF None

\* So is a certificate.
LEMMA CertificateValue ==
  ASSUME NEW a, NEW c
  PROVE  /\ PresentedCertificate(a, c) \in {None, "options", "env", "context", "environment"}
         /\ PresentedCertificate(a, c) \in {"context", "environment"} =>
              /\ a.options.readConfigFile /\ "certificate" \notin a.options.auth
              /\ LoadedCertificate(a, c) \notin {None, "env"}
              /\ PresentedCertificate(a, c) = Stored(a, c, "certificate")
         /\ "certificate" \in a.options.auth => PresentedCertificate(a, c) = "options"
<1>1. LoadedCertificate(a, c) = IF ~a.options.readConfigFile THEN None
                                ELSE IF "certificate" \in a.env.auth THEN "env" ELSE Stored(a, c, "certificate")
  BY FirstOfTwo DEF LoadedCertificate, When, None
<1>2. PresentedCertificate(a, c) = IF "certificate" \in a.options.auth THEN "options" ELSE LoadedCertificate(a, c)
  BY FirstOfTwo DEF PresentedCertificate, When, None
<1> QED
  BY <1>1, <1>2, StoredValue DEF None

\* What is sent is the token that was found, unless a client's id and secret come before it.
LEMMA SentValue ==
  ASSUME NEW a, NEW c
  PROVE  SentToken(a, c) = IF Anonymous(a, c) THEN None
                           ELSE IF "client" \in a.options.auth THEN "client" ELSE Token(a, c)
BY FirstOfTwo DEF SentToken, When, None

\* A context that is chosen has the API URL asked for, or none.
LEMMA ChosenContext ==
  ASSUME NEW a, ~Resolved(a).refused
  PROVE  \E c : /\ Resolved(a) = ResolvedWith(a, c)
                /\ c.apiUrl # None => APIURL(a, c) = c.apiUrl
<1>0. \A c : APIURL(a, c) = IF ExplicitAPI(a) # None THEN ExplicitAPI(a) ELSE c.apiUrl
  BY FirstOfTwo DEF APIURL
<1>1. CASE ~a.options.readConfigFile \/ a.contexts = {NoContext}
  <2>1. Resolved(a) = ResolvedWith(a, NoContext) /\ NoContext.apiUrl = None
    BY <1>1 DEF Resolved, NoContext
  <2> QED
    BY <2>1
<1>2. CASE ~(~a.options.readConfigFile \/ a.contexts = {NoContext})
  <2>1. Resolved(a) = IF Candidates(a) = {} THEN Refused ELSE ResolvedWith(a, CHOOSE c \in Candidates(a) : TRUE)
    BY <1>2 DEF Resolved
  <2>2. Candidates(a) # {}
    BY <2>1 DEF Refused
  <2>3. PICK c \in Candidates(a) : Resolved(a) = ResolvedWith(a, c)
    BY <2>1, <2>2
  <2>4. ExplicitAPI(a) # None => c.apiUrl \in {ExplicitAPI(a), None}
    BY <2>3 DEF Candidates
  <2> QED
    BY <1>0, <2>3, <2>4
<1> QED
  BY <1>1, <1>2

\* All that is said of the credentials that are used, for one context.
AtHome(a, r, used) ==
  /\ used \intersect {"context", "environment"} # {} =>
       /\ r.engine = r.context.engine
       /\ r.context.apiUrl # None => r.apiUrl = r.context.apiUrl
  /\ "environment" \in used => r.apiUrl = a.environment.apiUrl
  /\ \A x, y \in used : x = y
  /\ a.options.noToken = "yes" => r.token = None
  /\ a.options.auth # {} /\ a.options.noToken # "yes" =>
       /\ used \subseteq {"options", "credentials", "client"}
       /\ used = {} => a.options.auth = {"client"} /\ a.options.noToken = None

LEMMA UsedAtHome ==
  ASSUME NEW a, IsSetup(a), NEW c, ~ResolvedWith(a, c).refused, c.apiUrl # None => APIURL(a, c) = c.apiUrl,
         NEW r, r = ResolvedWith(a, c), NEW used, used = {r.token, r.certificate} \ {None}
  PROVE  AtHome(a, r, used)
<1>0. a.options \in ClientOptions /\ ~({"credentials", "client"} \subseteq a.options.auth)
  BY DEF IsSetup
<1> DEFINE sent == SentToken(a, c)
           cert == PresentedCertificate(a, c)
<1>1. /\ ~StoredElsewhere(a, c)
      /\ ~(Token(a, c) # None /\ cert # None) /\ ~(sent = "client" /\ cert # None)
      /\ r = [refused |-> FALSE, token |-> sent, certificate |-> cert, context |-> c,
              apiUrl |-> APIURL(a, c), engine |-> FirstDefined(<<ExplicitEngine(a), c.engine>>)]
  BY DEF ResolvedWith, Refused
<1>2. r.engine = IF ExplicitEngine(a) # None THEN ExplicitEngine(a) ELSE c.engine
  BY <1>1, FirstOfTwo
<1>3. r.token = sent /\ r.certificate = cert /\ r.context = c /\ r.apiUrl = APIURL(a, c)
  BY <1>1
<1>s. /\ sent = IF Anonymous(a, c) THEN None ELSE IF "client" \in a.options.auth THEN "client" ELSE Token(a, c)
      /\ sent \in {None, "client", Token(a, c)}
  BY SentValue
<1>4. \A x \in used : x # None /\ (x = sent \/ x = cert)
  BY <1>3
<1>h. ASSUME NEW x \in used, x \in {"context", "environment"}
      PROVE  x = Token(a, c) \/ x = cert
  BY <1>4, <1>s, <1>h
<1> HIDE DEF sent, cert
<1>5. ASSUME used \intersect {"context", "environment"} # {}
      PROVE  /\ r.engine = r.context.engine
             /\ r.context.apiUrl # None => r.apiUrl = r.context.apiUrl
  <2>1. Token(a, c) \in {"context", "environment"} \/ PresentedCertificate(a, c) \in {"context", "environment"}
    BY <1>h, <1>5 DEF cert
  <2>2. ~OverrideUsesStored(ExplicitEngine(a), c)
    BY <1>0, <1>1, <2>1, TokenValue, CertificateValue DEF StoredElsewhere
  <2> QED
    BY <1>2, <1>3, <2>2 DEF OverrideUsesStored
<1>6. ASSUME "environment" \in used PROVE r.apiUrl = a.environment.apiUrl
  <2>1. Token(a, c) = "environment" \/ PresentedCertificate(a, c) = "environment"
    BY <1>h, <1>6 DEF cert
  <2>2. Linked(a, c)
    BY <1>0, <2>1, TokenValue, CertificateValue, StoredValue
  <2> QED
    BY <1>3, <2>2 DEF Linked
<1>7. \A x, y \in used : x = y
  BY <1>1, <1>4, <1>s
<1>8. ASSUME a.options.auth # {}, a.options.noToken # "yes"
      PROVE  /\ used \subseteq {"options", "credentials", "client"}
             /\ used = {} => a.options.auth = {"client"} /\ a.options.noToken = None
  <2>1. a.options.auth \subseteq {"token", "credentials", "client", "certificate"}
    BY <1>0 DEF ClientOptions
  <2>2. Anonymous(a, c) <=> a.options.noToken = None /\ Token(a, c) = None /\ cert = None
    BY <1>8 DEF Anonymous, cert
  <2>3. CASE "certificate" \in a.options.auth
    <3>1. cert = "options" /\ cert # None
      BY <2>3, CertificateValue DEF cert, None
    <3>2. cert \in used
      BY <1>3, <3>1
    <3> QED
      BY <1>7, <3>1, <3>2
  <2>4. CASE a.options.auth \intersect {"token", "credentials"} # {}
    <3>1. Token(a, c) \in {"options", "credentials"} /\ Token(a, c) # None
      BY <1>0, <1>8, <2>4, TokenValue DEF None
    <3>2. sent \in {"options", "credentials", "client"} /\ sent # None
      BY <1>s, <2>2, <3>1 DEF None
    <3>3. sent \in used
      BY <1>3, <3>2
    <3> QED
      BY <1>7, <3>2, <3>3
  <2>5. CASE a.options.auth = {"client"}
    <3>1. CASE Anonymous(a, c)
      BY <1>3, <1>s, <2>2, <2>5, <3>1
    <3>2. CASE ~Anonymous(a, c)
      <4>1. sent = "client" /\ sent # None
        BY <1>s, <2>5, <3>2 DEF None
      <4>2. sent \in used
        BY <1>3, <4>1
      <4> QED
        BY <1>7, <4>1, <4>2
    <3> QED
      BY <3>1, <3>2
  <2> QED
    BY <1>8, <2>1, <2>3, <2>4, <2>5
<1>9. a.options.noToken = "yes" => r.token = None
  BY <1>3, <1>s DEF Anonymous
<1> QED
  BY <1>5, <1>6, <1>7, <1>8, <1>9 DEF AtHome

\* Whatever the options, the variables and the file say, a stored credential goes to no engine but
\* its own, at most one credential is presented, none past one that the caller gave, and what
\* the caller gave is used, but for a client's id and secret that stand alone.
THEOREM CredentialsHome == ConfigSpec => []CredentialsStayHome
<1>1. ASSUME IsSetup(asked) PROVE CredentialsStayHome
  <2> SUFFICES ASSUME ~Resolved(asked).refused PROVE CredentialsStayHome
    BY DEF CredentialsStayHome
  <2>1. PICK c : /\ Resolved(asked) = ResolvedWith(asked, c)
                 /\ c.apiUrl # None => APIURL(asked, c) = c.apiUrl
    BY ChosenContext
  <2>2. AtHome(asked, Resolved(asked), {Resolved(asked).token, Resolved(asked).certificate} \ {None})
    BY <1>1, <2>1, UsedAtHome
  <2> QED
    BY <2>2 DEF CredentialsStayHome, AtHome
<1>2. ConfigInit => IsSetup(asked)
  BY ConfigAssumption DEF ConfigInit
<1>3. IsSetup(asked) /\ [ConfigNext]_configVars => IsSetup(asked)'
  BY DEF ConfigNext, configVars, IsSetup
<1> QED
  BY <1>1, <1>2, <1>3, PTL DEF ConfigSpec

-----------------------------------------------------------------------------
(* Which transport *)

\* The first of more values that is defined.
LEMMA FirstOfSix ==
  ASSUME NEW a, NEW b, NEW c, NEW d, NEW e, NEW f
  PROVE  FirstDefined(<<a, b, c, d, e, f>>) =
           IF a # None THEN a ELSE IF b # None THEN b ELSE IF c # None THEN c ELSE IF d # None THEN d ELSE IF e # None THEN e ELSE f
<1>0. DOMAIN <<a, b, c, d, e, f>> = 1..6
  OBVIOUS
<1>1. CASE a # None
  <2>1. \A j \in DOMAIN <<a, b, c, d, e, f>> : j < 1 => <<a, b, c, d, e, f>>[j] = None
    BY <1>0, <1>1
  <2>2. FirstDefined(<<a, b, c, d, e, f>>) = <<a, b, c, d, e, f>>[1]
    BY <1>0, <1>1, <2>1, FirstAt
  <2> QED
    BY <1>1, <2>2
<1>2. CASE a = None /\ b # None
  <2>1. \A j \in DOMAIN <<a, b, c, d, e, f>> : j < 2 => <<a, b, c, d, e, f>>[j] = None
    BY <1>0, <1>2
  <2>2. FirstDefined(<<a, b, c, d, e, f>>) = <<a, b, c, d, e, f>>[2]
    BY <1>0, <1>2, <2>1, FirstAt
  <2> QED
    BY <1>2, <2>2
<1>3. CASE a = None /\ b = None /\ c # None
  <2>1. \A j \in DOMAIN <<a, b, c, d, e, f>> : j < 3 => <<a, b, c, d, e, f>>[j] = None
    BY <1>0, <1>3
  <2>2. FirstDefined(<<a, b, c, d, e, f>>) = <<a, b, c, d, e, f>>[3]
    BY <1>0, <1>3, <2>1, FirstAt
  <2> QED
    BY <1>3, <2>2
<1>4. CASE a = None /\ b = None /\ c = None /\ d # None
  <2>1. \A j \in DOMAIN <<a, b, c, d, e, f>> : j < 4 => <<a, b, c, d, e, f>>[j] = None
    BY <1>0, <1>4
  <2>2. FirstDefined(<<a, b, c, d, e, f>>) = <<a, b, c, d, e, f>>[4]
    BY <1>0, <1>4, <2>1, FirstAt
  <2> QED
    BY <1>4, <2>2
<1>5. CASE a = None /\ b = None /\ c = None /\ d = None /\ e # None
  <2>1. \A j \in DOMAIN <<a, b, c, d, e, f>> : j < 5 => <<a, b, c, d, e, f>>[j] = None
    BY <1>0, <1>5
  <2>2. FirstDefined(<<a, b, c, d, e, f>>) = <<a, b, c, d, e, f>>[5]
    BY <1>0, <1>5, <2>1, FirstAt
  <2> QED
    BY <1>5, <2>2
<1>6. CASE a = None /\ b = None /\ c = None /\ d = None /\ e = None /\ f # None
  <2>1. \A j \in DOMAIN <<a, b, c, d, e, f>> : j < 6 => <<a, b, c, d, e, f>>[j] = None
    BY <1>0, <1>6
  <2>2. FirstDefined(<<a, b, c, d, e, f>>) = <<a, b, c, d, e, f>>[6]
    BY <1>0, <1>6, <2>1, FirstAt
  <2> QED
    BY <1>6, <2>2
<1>7. CASE a = None /\ b = None /\ c = None /\ d = None /\ e = None /\ f = None
  BY <1>7 DEF FirstDefined
<1> QED
  BY <1>1, <1>2, <1>3, <1>4, <1>5, <1>6, <1>7

LEMMA FirstOfSeven ==
  ASSUME NEW a, NEW b, NEW c, NEW d, NEW e, NEW f, NEW g
  PROVE  FirstDefined(<<a, b, c, d, e, f, g>>) =
           IF a # None THEN a ELSE IF b # None THEN b ELSE IF c # None THEN c ELSE IF d # None THEN d ELSE IF e # None THEN e ELSE IF f # None THEN f ELSE g
<1>0. DOMAIN <<a, b, c, d, e, f, g>> = 1..7
  OBVIOUS
<1>1. CASE a # None
  <2>1. \A j \in DOMAIN <<a, b, c, d, e, f, g>> : j < 1 => <<a, b, c, d, e, f, g>>[j] = None
    BY <1>0, <1>1
  <2>2. FirstDefined(<<a, b, c, d, e, f, g>>) = <<a, b, c, d, e, f, g>>[1]
    BY <1>0, <1>1, <2>1, FirstAt
  <2> QED
    BY <1>1, <2>2
<1>2. CASE a = None /\ b # None
  <2>1. \A j \in DOMAIN <<a, b, c, d, e, f, g>> : j < 2 => <<a, b, c, d, e, f, g>>[j] = None
    BY <1>0, <1>2
  <2>2. FirstDefined(<<a, b, c, d, e, f, g>>) = <<a, b, c, d, e, f, g>>[2]
    BY <1>0, <1>2, <2>1, FirstAt
  <2> QED
    BY <1>2, <2>2
<1>3. CASE a = None /\ b = None /\ c # None
  <2>1. \A j \in DOMAIN <<a, b, c, d, e, f, g>> : j < 3 => <<a, b, c, d, e, f, g>>[j] = None
    BY <1>0, <1>3
  <2>2. FirstDefined(<<a, b, c, d, e, f, g>>) = <<a, b, c, d, e, f, g>>[3]
    BY <1>0, <1>3, <2>1, FirstAt
  <2> QED
    BY <1>3, <2>2
<1>4. CASE a = None /\ b = None /\ c = None /\ d # None
  <2>1. \A j \in DOMAIN <<a, b, c, d, e, f, g>> : j < 4 => <<a, b, c, d, e, f, g>>[j] = None
    BY <1>0, <1>4
  <2>2. FirstDefined(<<a, b, c, d, e, f, g>>) = <<a, b, c, d, e, f, g>>[4]
    BY <1>0, <1>4, <2>1, FirstAt
  <2> QED
    BY <1>4, <2>2
<1>5. CASE a = None /\ b = None /\ c = None /\ d = None /\ e # None
  <2>1. \A j \in DOMAIN <<a, b, c, d, e, f, g>> : j < 5 => <<a, b, c, d, e, f, g>>[j] = None
    BY <1>0, <1>5
  <2>2. FirstDefined(<<a, b, c, d, e, f, g>>) = <<a, b, c, d, e, f, g>>[5]
    BY <1>0, <1>5, <2>1, FirstAt
  <2> QED
    BY <1>5, <2>2
<1>6. CASE a = None /\ b = None /\ c = None /\ d = None /\ e = None /\ f # None
  <2>1. \A j \in DOMAIN <<a, b, c, d, e, f, g>> : j < 6 => <<a, b, c, d, e, f, g>>[j] = None
    BY <1>0, <1>6
  <2>2. FirstDefined(<<a, b, c, d, e, f, g>>) = <<a, b, c, d, e, f, g>>[6]
    BY <1>0, <1>6, <2>1, FirstAt
  <2> QED
    BY <1>6, <2>2
<1>7. CASE a = None /\ b = None /\ c = None /\ d = None /\ e = None /\ f = None /\ g # None
  <2>1. \A j \in DOMAIN <<a, b, c, d, e, f, g>> : j < 7 => <<a, b, c, d, e, f, g>>[j] = None
    BY <1>0, <1>7
  <2>2. FirstDefined(<<a, b, c, d, e, f, g>>) = <<a, b, c, d, e, f, g>>[7]
    BY <1>0, <1>7, <2>1, FirstAt
  <2> QED
    BY <1>7, <2>2
<1>8. CASE a = None /\ b = None /\ c = None /\ d = None /\ e = None /\ f = None /\ g = None
  BY <1>8 DEF FirstDefined
<1> QED
  BY <1>1, <1>2, <1>3, <1>4, <1>5, <1>6, <1>7, <1>8

\* The mode is that of the first layer that names one, or else left to the transport.
LEMMA ModeOfLayers ==
  ASSUME NEW w
  PROVE  Mode(w) = IF FirstDefined(Layers(w)) # None THEN FirstDefined(Layers(w)) ELSE "auto"
<1>1. MergedMode(w).mode =
        IF w.context.mode = None /\ w.context.useQuic # None THEN None
        ELSE IF w.context.mode # None THEN w.context.mode ELSE w.environment.mode
  BY FirstOfTwo DEF MergedMode
<1>2. MergedMode(w).useQuic =
        IF w.context.mode # None THEN None
        ELSE IF w.context.useQuic # None THEN w.context.useQuic ELSE w.environment.useQuic
  BY FirstOfTwo DEF MergedMode
<1>3. Mode(w) =
        IF w.option # None THEN w.option ELSE IF w.env # None THEN w.env ELSE IF w.legacy # None THEN w.legacy
        ELSE IF MergedMode(w).mode # None THEN MergedMode(w).mode
        ELSE IF MergedMode(w).useQuic # None THEN MergedMode(w).useQuic ELSE "auto"
  BY FirstOfSix DEF Mode
<1>4. FirstDefined(Layers(w)) =
        IF w.option # None THEN w.option ELSE IF w.env # None THEN w.env ELSE IF w.legacy # None THEN w.legacy
        ELSE IF w.context.mode # None THEN w.context.mode
        ELSE IF w.context.useQuic # None THEN w.context.useQuic
        ELSE IF w.environment.mode # None THEN w.environment.mode ELSE w.environment.useQuic
  BY FirstOfSeven DEF Layers
<1> QED
  BY <1>1, <1>2, <1>3, <1>4

\* Whatever the layers of the configuration say, the transport is the one that the most specific
\* of them names, or refused; the proxy is that of one layer, whole; and no connection goes past
\* it but where the process says so.
THEOREM TransportAsConfigured == ConfigSpec => []TransportHonoured
<1>1. ASSUME IsWiring(wiring) PROVE TransportHonoured
  <2>1. FirstDefined(Layers(wiring)) = "quic" <=> Mode(wiring) = "quic"
    BY ModeOfLayers DEF None
  <2>2. FirstDefined(Layers(wiring)) = "quic" => Route(wiring).refused
    BY <2>1 DEF Route, Refused
  <2>3. ASSUME ~Route(wiring).refused, Proxy(wiring).given
        PROVE  Honoured(wiring, Proxy(wiring), Route(wiring))
    <3>1. ~Malformed(Proxy(wiring)) /\ Route(wiring) = Routed(wiring, Proxy(wiring))
      BY <2>3 DEF Route, Refused
    <3>2. \A url, p : \A source \in {"configured", "process"} :
            ~Through(url, source, p).refused =>
              Through(url, source, p).via = source /\ Through(url, source, p).credentials = p.credentials
      BY DEF Through, Refused
    <3> QED
      BY <2>3, <3>1, <3>2 DEF Malformed, Routed, Direct, Refused, Honoured
  <2>4. ~Route(wiring).refused /\ ~Proxy(wiring).given => Route(wiring).via = "direct"
    BY DEF Route, Direct, Refused
  <2> QED
    BY <2>1, <2>2, <2>3, <2>4 DEF TransportHonoured, Proxy
<1>2. ConfigInit => IsWiring(wiring)
  BY ConfigAssumption DEF ConfigInit
<1>3. IsWiring(wiring) /\ [ConfigNext]_configVars => IsWiring(wiring)'
  BY DEF ConfigNext, configVars, IsWiring
<1> QED
  BY <1>1, <1>2, <1>3, PTL DEF ConfigSpec

-----------------------------------------------------------------------------
(* Who shares a session's key *)

\* A set of numbers that is not empty has a first one.
LEMMA FirstOfSome ==
  ASSUME NEW places, places \subseteq Nat, places # {}
  PROVE  First(places) \in places
<1> DEFINE Less == {p \in Nat \X Nat : p[1] < p[2]}
<1>1. IsWellFoundedOn(Less, Nat)
  BY NatLessThanWellFounded, Zenon DEF OpToRel
<1>2. \A i, j \in places : ~(<<j, i>> \in Less) => i <= j
  OBVIOUS
<1> HIDE DEF Less
<1>3. \E i \in places : \A j \in places : ~(<<j, i>> \in Less)
  BY <1>1, WFMin
<1> QED
  BY <1>2, <1>3 DEF First

\* The session of a client that may have one: its grant, and an envelope for each recipient.
ClientOf(c) ==
  LET g == [suite |-> ClientSuite(c), payloadSuite |-> ClientSuite(c), payloadKeyId |-> c.payloadKeyId,
            context |-> ContextOf(c)]
  IN [refused |-> FALSE, grant |-> g, payloadKey |-> c.payloadKey,
      envelopes |-> [i \in DOMAIN c.recipients |-> Wrapped(g, c.payloadKey, c.recipients[i], i)]]

LEMMA GrantedOnlyIf ==
  ASSUME NEW c, ~Granted(c).refused
  PROVE  Granted(c) = ClientOf(c) /\ SuiteAccepted(c)
BY DEF Granted, ClientOf, KeyRefused

\* Its envelopes, one by one.
LEMMA EnvelopesOfClient ==
  ASSUME NEW c, NEW i \in DOMAIN c.recipients
  PROVE  /\ ClientOf(c).envelopes[i].to = IdOf(c.recipients[i])
         /\ ClientOf(c).envelopes[i].encapsulated = i
         /\ ClientOf(c).envelopes[i].wrapped.secret = c.payloadKey
         /\ ClientOf(c).envelopes[i].wrapped.key = SharedKey(i, c.recipients[i].key)
         /\ ClientOf(c).envelopes[i].wrapped.binding = <<Info(ClientOf(c).grant), IdOf(c.recipients[i])>>
BY DEF ClientOf, Wrapped, Sealed

LEMMA SessionOfClient ==
  ASSUME NEW c
  PROVE  /\ DOMAIN ClientOf(c).envelopes = DOMAIN c.recipients
         /\ ClientOf(c).payloadKey = c.payloadKey
         /\ ClientOf(c).grant = [suite |-> ClientSuite(c), payloadSuite |-> ClientSuite(c),
                                 payloadKeyId |-> c.payloadKeyId, context |-> ContextOf(c)]
         /\ ClientOf(c).refused = FALSE
BY DEF ClientOf

LEMMA NamesOfClient ==
  ASSUME NEW c, NEW identity
  PROVE  /\ \A i \in DOMAIN c.recipients : ClientOf(c).envelopes[i].to = IdOf(c.recipients[i])
         /\ EnvelopesFor(ClientOf(c), identity) =
              {i \in DOMAIN c.recipients : IdOf(c.recipients[i]) = IdOf(identity)}
<1>1. \A i \in DOMAIN c.recipients : ClientOf(c).envelopes[i].to = IdOf(c.recipients[i])
  BY EnvelopesOfClient
<1>2. DOMAIN ClientOf(c).envelopes = DOMAIN c.recipients
  BY SessionOfClient
<1> QED
  BY <1>1, <1>2 DEF EnvelopesFor

\* What opens, and what it yields.
LEMMA OpenedWith ==
  ASSUME NEW box, NEW key, NEW binding
  PROVE  /\ OpenSealed(box, key, binding) # {} <=> box.key = key /\ box.binding = binding
         /\ OpenSealed(box, key, binding) # {} => (CHOOSE secret \in OpenSealed(box, key, binding) : TRUE) = box.secret
<1>1. (CHOOSE secret \in {box.secret} : TRUE) = box.secret
  OBVIOUS
<1> QED
  BY <1>1 DEF OpenSealed

\* The envelope that the server takes, and whether it opens.
Taken(session, identity) == session.envelopes[First(EnvelopesFor(session, identity))]
OpensSession(session, identity) ==
  /\ EnvelopesFor(session, identity) # {} /\ HolderSuite(identity) = session.grant.suite
  /\ Taken(session, identity).wrapped.key = SharedKey(Taken(session, identity).encapsulated, identity.key)
  /\ Taken(session, identity).wrapped.binding = <<Info(session.grant), Taken(session, identity).to>>

LEMMA AcceptedWith ==
  ASSUME NEW session, NEW identity
  PROVE  /\ Accepted(session, identity).refused = ~OpensSession(session, identity)
         /\ OpensSession(session, identity) =>
              /\ Accepted(session, identity).payloadKey = Taken(session, identity).wrapped.secret
              /\ Accepted(session, identity).grant = session.grant
<1> DEFINE mine == EnvelopesFor(session, identity)
           e == Taken(session, identity)
           shared == SharedKey(e.encapsulated, identity.key)
           opened == OpenSealed(e.wrapped, shared, <<Info(session.grant), e.to>>)
<1>1. /\ opened # {} <=> e.wrapped.key = shared /\ e.wrapped.binding = <<Info(session.grant), e.to>>
      /\ opened # {} => (CHOOSE secret \in opened : TRUE) = e.wrapped.secret
  <2> HIDE DEF opened, e, shared
  <2>1. \A box, key, binding :
          /\ OpenSealed(box, key, binding) # {} <=> box.key = key /\ box.binding = binding
          /\ OpenSealed(box, key, binding) # {} => (CHOOSE secret \in OpenSealed(box, key, binding) : TRUE) = box.secret
    BY OpenedWith
  <2> QED
    BY <2>1 DEF opened
<1>2. Accepted(session, identity) =
        IF mine = {} \/ HolderSuite(identity) # session.grant.suite \/ opened = {} THEN KeyRefused
        ELSE [refused |-> FALSE, grant |-> session.grant, payloadKey |-> CHOOSE secret \in opened : TRUE]
  BY DEF Accepted, Taken
<1> HIDE DEF opened
<1>3. CASE mine = {} \/ HolderSuite(identity) # session.grant.suite \/ opened = {}
  <2>1. Accepted(session, identity).refused = TRUE
    BY <1>2, <1>3 DEF KeyRefused
  <2> QED
    BY <1>1, <1>3, <2>1 DEF OpensSession
<1>4. CASE ~(mine = {} \/ HolderSuite(identity) # session.grant.suite \/ opened = {})
  <2>1. /\ Accepted(session, identity).refused = FALSE
        /\ Accepted(session, identity).payloadKey = CHOOSE secret \in opened : TRUE
        /\ Accepted(session, identity).grant = session.grant
    BY <1>2, <1>4
  <2> QED
    BY <1>1, <1>4, <2>1 DEF OpensSession
<1> QED
  BY <1>3, <1>4

KeysInv == keys \in [grant : Grants, identity : Identities]

\* What the configurations are made of.
LEMMA KeysAre ==
  ASSUME KeysInv
  PROVE  /\ keys.grant \in Grants /\ keys.identity \in Holders
         /\ keys.grant.recipients \in Seq(Holders)
BY KeysAssumption DEF KeysInv

\* The server opens the first envelope with the id of its identity; it is for its key.
LEMMA ServerOfClient ==
  ASSUME NEW c, NEW n \in Nat, DOMAIN c.recipients = 1..n, NEW identity, NEW f,
         f = First(EnvelopesFor(ClientOf(c), identity))
  PROVE  LET server == Accepted(ClientOf(c), identity)
             named == {i \in DOMAIN c.recipients : IdOf(c.recipients[i]) = IdOf(identity)}
         IN /\ EnvelopesFor(ClientOf(c), identity) = named
            /\ named # {} => f \in named
            /\ ~server.refused <=>
                 named # {} /\ HolderSuite(identity) = ClientSuite(c) /\ c.recipients[f].key = identity.key
            /\ ~server.refused => server.payloadKey = c.payloadKey /\ server.grant = ClientOf(c).grant
<1> DEFINE session == ClientOf(c)
           server == Accepted(session, identity)
           named == {i \in DOMAIN c.recipients : IdOf(c.recipients[i]) = IdOf(identity)}
           e == Taken(session, identity)
<1>1. EnvelopesFor(session, identity) = named
  BY NamesOfClient
<1>2. named # {} => f \in named
  <2>1. named \subseteq Nat
    OBVIOUS
  <2> HIDE DEF named, session
  <2> QED
    BY <1>1, <2>1, FirstOfSome DEF session
<1>3. e = session.envelopes[f]
  <2>1. f = First(EnvelopesFor(session, identity))
    OBVIOUS
  <2> HIDE DEF session
  <2> QED
    BY <2>1, Zenon DEF Taken
<1>4. session.grant.suite = ClientSuite(c)
  <2>1. session.grant = [suite |-> ClientSuite(c), payloadSuite |-> ClientSuite(c),
                         payloadKeyId |-> c.payloadKeyId, context |-> ContextOf(c)]
    BY SessionOfClient
  <2> HIDE DEF session
  <2> QED
    BY <2>1
<1>5. named # {} => /\ e.to = IdOf(c.recipients[f]) /\ e.wrapped.secret = c.payloadKey
                    /\ e.encapsulated = f /\ e.wrapped.key = SharedKey(f, c.recipients[f].key)
                    /\ e.wrapped.binding = <<Info(session.grant), IdOf(c.recipients[f])>>
  <2>1. named # {} => f \in DOMAIN c.recipients
    BY <1>2
  <2> HIDE DEF named, e
  <2> QED
    BY <1>3, <2>1, EnvelopesOfClient
<1>6. named # {} => e.wrapped.binding = <<Info(session.grant), e.to>>
  <2> HIDE DEF named, session, e
  <2> QED
    BY <1>5
<1>7. OpensSession(session, identity) <=>
        named # {} /\ HolderSuite(identity) = ClientSuite(c) /\ c.recipients[f].key = identity.key
  <2> HIDE DEF named, session
  <2> QED
    BY <1>1, <1>4, <1>5, <1>6 DEF OpensSession, SharedKey
<1>8. /\ server.refused = ~OpensSession(session, identity)
      /\ OpensSession(session, identity) => server.payloadKey = e.wrapped.secret /\ server.grant = session.grant
  <2> HIDE DEF session
  <2> QED
    BY AcceptedWith
<1>9. /\ ~server.refused <=> named # {} /\ HolderSuite(identity) = ClientSuite(c) /\ c.recipients[f].key = identity.key
      /\ ~server.refused => server.payloadKey = c.payloadKey /\ server.grant = session.grant
  <2> HIDE DEF named, session, server, e
  <2> QED
    BY <1>5, <1>7, <1>8
<1> QED
  BY <1>1, <1>2, <1>9

\* The server shares the key exactly when it is a recipient.
LEMMA GrantReaches ==
  ASSUME KeysInv
  PROVE  GrantReachesRecipient
<1> DEFINE c == keys.grant
           identity == keys.identity
           client == Granted(c)
           server == Accepted(client, identity)
           f == First(EnvelopesFor(ClientOf(c), identity))
           named == {i \in DOMAIN c.recipients : IdOf(c.recipients[i]) = IdOf(identity)}
           mine == {i \in named : c.recipients[i].key = identity.key}
<1> SUFFICES ASSUME ~client.refused
             PROVE  /\ ~server.refused =>
                         mine # {} /\ server.payloadKey = client.payloadKey /\ server.grant = client.grant
                    /\ mine # {} /\ mine = named /\ identity.suite = Unset => ~server.refused
  BY DEF GrantReachesRecipient
<1>1. client = ClientOf(c) /\ SuiteAccepted(c)
  BY GrantedOnlyIf
<1>2. PICK n \in Nat : DOMAIN c.recipients = 1..n
  BY KeysAre
<1>3. /\ named # {} => f \in named
      /\ ~server.refused <=>
           named # {} /\ HolderSuite(identity) = ClientSuite(c) /\ c.recipients[f].key = identity.key
      /\ ~server.refused => server.payloadKey = c.payloadKey /\ server.grant = ClientOf(c).grant
  <2> HIDE DEF c, identity, client, f
  <2> QED
    BY <1>1, <1>2, ServerOfClient DEF f
<1>4. client.payloadKey = c.payloadKey
  BY <1>1, SessionOfClient
<1>5. ~server.refused => mine # {} /\ server.payloadKey = client.payloadKey /\ server.grant = client.grant
  <2> HIDE DEF c, identity, client, f, server, named
  <2> QED
    BY <1>1, <1>3, <1>4
<1>6. ASSUME mine # {}, mine = named, identity.suite = Unset
      PROVE  ~server.refused
  <2>1. named # {} /\ f \in mine
    <3> HIDE DEF named, server, f, client
    <3> QED
      BY <1>3, <1>6
  <2>2. f \in DOMAIN c.recipients /\ c.recipients[f].key = identity.key
    BY <2>1
  <2>4. HolderSuite(identity) = KeySuite[identity.key]
    BY <1>6 DEF HolderSuite, Or
  <2>5. KeySuite[c.recipients[f].key] = ClientSuite(c)
    <3> HIDE DEF c, identity, client, f, server, named
    <3> QED
      BY <1>1, <2>2 DEF SuiteAccepted
  <2> HIDE DEF c, identity, client, f, server, named
  <2> QED
    BY <1>3, <2>1, <2>2, <2>4, <2>5
<1> HIDE DEF c, identity, client, f, server, named, mine
<1> QED
  BY <1>5, <1>6

\* A payload written in their session is read in mine.
Reads(mine, theirs, stream, s, length, l) ==
  Decrypted(mine, s, [Encrypted(theirs, stream, length) EXCEPT !.length = l]) # {}

\* It is read only where, and as what, it was written.
LEMMA ReadWhereWritten ==
  ASSUME NEW c, NEW d, NEW stream \in PayloadStreams, NEW s \in PayloadStreams, NEW length, NEW l
  PROVE  Reads(ClientOf(c), ClientOf(d), stream, s, length, l) <=>
           /\ ClientOf(d).payloadKey = ClientOf(c).payloadKey /\ ClientOf(d).grant = ClientOf(c).grant
           /\ s = stream /\ l = length
<1> DEFINE mine == ClientOf(c)
           theirs == ClientOf(d)
           p == [Encrypted(theirs, stream, length) EXCEPT !.length = l]
           meant == /\ p.payloadSuite = mine.grant.payloadSuite /\ p.payloadKeyId = mine.grant.payloadKeyId
                    /\ p.context = mine.grant.context /\ p.nonce = NonceSize(mine)
           binding == AAD(mine, s, p.nonce, p.length)
<1>1. /\ p.payloadSuite = theirs.grant.payloadSuite /\ p.payloadKeyId = theirs.grant.payloadKeyId
      /\ p.context = theirs.grant.context /\ p.nonce = NonceSize(theirs) /\ p.length = l
      /\ p.box.key = theirs.payloadKey
      /\ p.box.binding = AAD(theirs, stream, NonceSize(theirs), length)
  <2> HIDE DEF theirs
  <2> QED
    BY DEF Encrypted, Sealed
<1>2. Decrypted(mine, s, p) = IF meant THEN OpenSealed(p.box, mine.payloadKey, binding) ELSE {}
  <2> HIDE DEF p, mine
  <2> QED
    BY DEF Decrypted
<1>3. OpenSealed(p.box, mine.payloadKey, binding) # {} <=> p.box.key = mine.payloadKey /\ p.box.binding = binding
  <2> HIDE DEF p, mine, binding
  <2> QED
    BY OpenedWith
<1>4. /\ mine.grant = [suite |-> ClientSuite(c), payloadSuite |-> ClientSuite(c), payloadKeyId |-> c.payloadKeyId,
                       context |-> ContextOf(c)]
      /\ theirs.grant = [suite |-> ClientSuite(d), payloadSuite |-> ClientSuite(d), payloadKeyId |-> d.payloadKeyId,
                         context |-> ContextOf(d)]
  BY SessionOfClient
<1> HIDE DEF p, mine, theirs
<1>5. theirs.grant = mine.grant => NonceSize(theirs) = NonceSize(mine) /\ Info(theirs.grant) = Info(mine.grant)
  BY DEF NonceSize
<1>6. Info(theirs.grant) = Info(mine.grant) => theirs.grant = mine.grant
  BY <1>4 DEF Info
<1>7. p.box.binding = binding <=>
        Info(theirs.grant) = Info(mine.grant) /\ stream = s /\ NonceSize(theirs) = p.nonce /\ length = l
  BY <1>1 DEF AAD
<1>8. theirs.grant = mine.grant => meant
  BY <1>1, <1>5
<1>9. Decrypted(mine, s, p) # {} <=> meant /\ p.box.key = mine.payloadKey /\ p.box.binding = binding
  BY <1>2, <1>3
<1>10. Decrypted(mine, s, p) # {} <=>
         theirs.payloadKey = mine.payloadKey /\ theirs.grant = mine.grant /\ s = stream /\ l = length
  <2> HIDE DEF meant, binding
  <2> QED
    BY <1>1, <1>5, <1>6, <1>7, <1>8, <1>9
<1> QED
  BY <1>10 DEF p, mine, theirs, Reads

LEMMA PayloadsKeepTheirPlace ==
  PayloadOnItsStream
<1> DEFINE same(mine, theirs) ==
             ~theirs.refused /\ theirs.payloadKey = mine.payloadKey /\ theirs.grant = mine.grant
<1>1. ASSUME NEW c, NEW d, ~Granted(c).refused, ~Granted(d).refused
      PROVE  \A stream, s \in PayloadStreams, length, l \in Lengths :
               Reads(Granted(c), Granted(d), stream, s, length, l)
                 <=> same(Granted(c), Granted(d)) /\ s = stream /\ l = length
  <2>1. Granted(c) = ClientOf(c) /\ Granted(d) = ClientOf(d)
    BY <1>1, GrantedOnlyIf
  <2>2. ClientOf(d).refused = FALSE
    BY SessionOfClient
  <2>3. \A length, l : \A stream, s \in PayloadStreams :
          Reads(ClientOf(c), ClientOf(d), stream, s, length, l)
            <=> /\ ClientOf(d).payloadKey = ClientOf(c).payloadKey /\ ClientOf(d).grant = ClientOf(c).grant
                /\ s = stream /\ l = length
    BY ReadWhereWritten
  <2>4. same(ClientOf(c), ClientOf(d)) <=>
          ClientOf(d).payloadKey = ClientOf(c).payloadKey /\ ClientOf(d).grant = ClientOf(c).grant
    BY <2>2
  <2> HIDE DEF same
  <2> QED
    BY <2>1, <2>3, <2>4
<1> HIDE DEF same
<1>2. ASSUME ~Granted(keys.grant).refused, NEW other \in Others \union {keys.grant}, ~Granted(other).refused
      PROVE  \A stream, s \in PayloadStreams, length, l \in Lengths :
               Reads(Granted(keys.grant), Granted(other), stream, s, length, l)
                 <=> same(Granted(keys.grant), Granted(other)) /\ s = stream /\ l = length
  BY <1>1, <1>2
<1> QED
  BY <1>2 DEF PayloadOnItsStream, Reads, same

\* The place that a recorded key goes to.
MatchesOf(c, identity) ==
  IF Len(Recorded(ClientOf(c)).envelopes) = 1 THEN {1}
  ELSE IF identity.keyId = Unset THEN {} ELSE EnvelopesFor(Recorded(ClientOf(c)), identity)

\* An envelope with another wrapped key.
Envelope(to, encapsulated, wrapped) == [to |-> to, encapsulated |-> encapsulated, wrapped |-> wrapped]

LEMMA Rewrapped ==
  ASSUME NEW to, NEW enc, NEW old, NEW key
  PROVE  [Envelope(to, enc, old) EXCEPT !.wrapped = key] = Envelope(to, enc, key)
BY DEF Envelope

LEMMA EnvelopeFields ==
  ASSUME NEW e, NEW to, NEW enc, NEW key, e = Envelope(to, enc, key)
  PROVE  e.to = to /\ e.encapsulated = enc /\ e.wrapped = key
BY DEF Envelope

LEMMA WrappedEnvelopes ==
  ASSUME NEW c, NEW n \in Nat, DOMAIN c.recipients = 1..n, NEW j \in 1..n, NEW key
  PROVE  [ClientOf(c).envelopes[j] EXCEPT !.wrapped = key] = Envelope(IdOf(c.recipients[j]), j, key)
<1>1. ClientOf(c).envelopes[j] = Wrapped(ClientOf(c).grant, c.payloadKey, c.recipients[j], j)
  BY DEF ClientOf
<1> DEFINE g == ClientOf(c).grant
           old == Sealed(c.payloadKey, SharedKey(j, c.recipients[j].key), <<Info(g), IdOf(c.recipients[j])>>)
<1>2. ClientOf(c).envelopes[j] = Envelope(IdOf(c.recipients[j]), j, old)
  BY <1>1 DEF Wrapped, Envelope
<1> HIDE DEF old
<1> QED
  BY <1>2, Rewrapped

LEMMA RecordedEnvelopes ==
  ASSUME NEW c, NEW n \in Nat, DOMAIN c.recipients = 1..n, NEW identity
  PROVE  LET r == Recorded(ClientOf(c))
         IN /\ r.grant = ClientOf(c).grant /\ DOMAIN r.envelopes = 1..n /\ Len(r.envelopes) = n
            /\ \A j \in 1..n : r.envelopes[j] = Envelope(IdOf(c.recipients[j]), j, NoKey)
            /\ \A j \in 1..n : r.envelopes[j].to = IdOf(c.recipients[j]) /\ r.envelopes[j].encapsulated = j /\ r.envelopes[j].wrapped = NoKey
            /\ EnvelopesFor(r, identity) = {j \in 1..n : IdOf(c.recipients[j]) = IdOf(identity)}
<1> DEFINE client == ClientOf(c)
           r == Recorded(client)
<1>1. DOMAIN client.envelopes = 1..n /\ \A j \in 1..n : client.envelopes[j].to = IdOf(c.recipients[j])
  BY SessionOfClient, NamesOfClient
<1>2. \A j \in 1..n : [client.envelopes[j] EXCEPT !.wrapped = NoKey] = Envelope(IdOf(c.recipients[j]), j, NoKey)
  BY WrappedEnvelopes
<1>3. r.grant = client.grant /\ r.envelopes = [j \in 1..n |-> [client.envelopes[j] EXCEPT !.wrapped = NoKey]]
  <2>1. r.grant = client.grant /\ r.envelopes = [j \in DOMAIN client.envelopes |-> [client.envelopes[j] EXCEPT !.wrapped = NoKey]]
    BY DEF Recorded, ClientOf
  <2> HIDE DEF client, r
  <2> QED
    BY <1>1, <2>1
<1> HIDE DEF client, r
<1>4. Len(r.envelopes) = n
  BY <1>3
<1>5. \A j \in 1..n : /\ r.envelopes[j] = Envelope(IdOf(c.recipients[j]), j, NoKey)
                      /\ r.envelopes[j].to = IdOf(c.recipients[j]) /\ r.envelopes[j].encapsulated = j /\ r.envelopes[j].wrapped = NoKey
  <2>1. \A j \in 1..n : r.envelopes[j] = [client.envelopes[j] EXCEPT !.wrapped = NoKey]
    BY <1>3
  <2> QED
    <3> TAKE j \in 1..n
    <3>1. r.envelopes[j] = Envelope(IdOf(c.recipients[j]), j, NoKey)
      BY <1>2, <2>1, Zenon
    <3>2. /\ r.envelopes[j].to = IdOf(c.recipients[j]) /\ r.envelopes[j].encapsulated = j
          /\ r.envelopes[j].wrapped = NoKey
      BY <3>1, EnvelopeFields
    <3> QED
      BY <3>1, <3>2
<1>6. DOMAIN r.envelopes = 1..n
  BY <1>3
<1>7. EnvelopesFor(r, identity) = {j \in 1..n : IdOf(c.recipients[j]) = IdOf(identity)}
  <2>1. \A j \in 1..n : r.envelopes[j].to = IdOf(c.recipients[j])
    BY <1>5
  <2> QED
    BY <1>6, <2>1 DEF EnvelopesFor
<1> QED
  BY <1>3, <1>4, <1>5, <1>6, <1>7 DEF client, r

LEMMA AttachedEnvelopes ==
  ASSUME NEW c, NEW n \in Nat, DOMAIN c.recipients = 1..n, NEW identity, NEW key
  PROVE  LET a == AttachWrappedKey(Recorded(ClientOf(c)), key, identity)
             matches == MatchesOf(c, identity)
         IN /\ a.grant = ClientOf(c).grant /\ DOMAIN a.envelopes = 1..n
            /\ \A j \in 1..n : a.envelopes[j].to = IdOf(c.recipients[j]) /\ a.envelopes[j].encapsulated = j
            /\ \A j \in 1..n : a.envelopes[j].wrapped = IF matches # {} /\ j = First(matches) THEN key ELSE NoKey
            /\ EnvelopesFor(a, identity) = {j \in 1..n : IdOf(c.recipients[j]) = IdOf(identity)}
<1> DEFINE r == Recorded(ClientOf(c))
           matches == MatchesOf(c, identity)
           a == AttachWrappedKey(r, key, identity)
           named == {j \in 1..n : IdOf(c.recipients[j]) = IdOf(identity)}
<1>1. /\ r.grant = ClientOf(c).grant /\ DOMAIN r.envelopes = 1..n /\ Len(r.envelopes) = n
      /\ \A j \in 1..n : r.envelopes[j] = Envelope(IdOf(c.recipients[j]), j, NoKey)
      /\ \A j \in 1..n : r.envelopes[j].to = IdOf(c.recipients[j]) /\ r.envelopes[j].encapsulated = j /\ r.envelopes[j].wrapped = NoKey
      /\ EnvelopesFor(r, identity) = named
  <2>1. EnvelopesFor(r, identity) = named
    BY RecordedEnvelopes
  <2>2. r.grant = ClientOf(c).grant /\ DOMAIN r.envelopes = 1..n /\ Len(r.envelopes) = n
    BY RecordedEnvelopes
  <2>3. \A j \in 1..n : r.envelopes[j] = Envelope(IdOf(c.recipients[j]), j, NoKey)
    BY RecordedEnvelopes
  <2>4. \A j \in 1..n : r.envelopes[j].to = IdOf(c.recipients[j]) /\ r.envelopes[j].encapsulated = j /\ r.envelopes[j].wrapped = NoKey
    BY RecordedEnvelopes
  <2> QED
    BY <2>1, <2>2, <2>3, <2>4
<1>3. matches # {} => First(matches) \in 1..n
  <2>1. matches \subseteq 1..n
    <3>1. CASE n = 1
      BY <1>1, <3>1 DEF MatchesOf
    <3>2. CASE n # 1
      BY <1>1, <3>2 DEF MatchesOf
    <3> QED
      BY <3>1, <3>2
  <2>2. matches \subseteq Nat
    BY <2>1
  <2> HIDE DEF matches
  <2> QED
    BY <2>1, <2>2, FirstOfSome
<1>2. a = IF matches = {} THEN r ELSE [r EXCEPT !.envelopes[First(matches)].wrapped = key]
  <2>1. matches # {} => r.envelopes[First(matches)].wrapped = NoKey
    <3> HIDE DEF r, matches
    <3> QED
      BY <1>1, <1>3
  <2> HIDE DEF r
  <2> QED
    BY <2>1 DEF AttachWrappedKey, MatchesOf, r
<1>4. \A f : /\ [r EXCEPT !.envelopes[f].wrapped = key].grant = r.grant
             /\ [r EXCEPT !.envelopes[f].wrapped = key].envelopes = [r.envelopes EXCEPT ![f].wrapped = key]
  <2>1. {"grant", "envelopes"} \subseteq DOMAIN ClientOf(c)
    BY DEF ClientOf
  <2>2. DOMAIN r = DOMAIN ClientOf(c)
    BY DEF Recorded
  <2>3. "grant" \in DOMAIN r /\ "envelopes" \in DOMAIN r
    BY <2>1, <2>2
  <2> HIDE DEF r
  <2> QED
    BY <2>3
<1> HIDE DEF r, matches
<1>6. CASE matches = {}
  <2>1. a = r
    BY <1>2, <1>6
  <2>2. \A j \in 1..n : r.envelopes[j].to = IdOf(c.recipients[j]) /\ r.envelopes[j].encapsulated = j /\ r.envelopes[j].wrapped = NoKey
    BY <1>1
  <2>3. /\ a.grant = ClientOf(c).grant /\ DOMAIN a.envelopes = 1..n /\ EnvelopesFor(a, identity) = named
        /\ \A j \in 1..n : a.envelopes[j].to = IdOf(c.recipients[j]) /\ a.envelopes[j].encapsulated = j /\ a.envelopes[j].wrapped = NoKey
    <3> HIDE DEF a, named
    <3> QED
      BY <1>1, <2>1, <2>2
  <2> HIDE DEF a
  <2> QED
    BY <1>6, <2>3 DEF r, matches, a
<1>7. CASE matches # {}
  <2> DEFINE f == First(matches)
             envelopes == [r.envelopes EXCEPT ![f].wrapped = key]
  <2>1. f \in 1..n
    BY <1>3, <1>7
  <2>2. a = [r EXCEPT !.envelopes[f].wrapped = key]
    BY <1>2, <1>7
  <2> HIDE DEF a, f
  <2>3. a.grant = r.grant /\ a.envelopes = envelopes
    BY <1>4, <2>2
  <2>4. DOMAIN envelopes = 1..n /\ \A j \in 1..n : envelopes[j] = IF j = f THEN [r.envelopes[f] EXCEPT !.wrapped = key] ELSE r.envelopes[j]
    BY <1>1, <2>1
  <2>5. [r.envelopes[f] EXCEPT !.wrapped = key] = Envelope(IdOf(c.recipients[f]), f, key)
    <3>1. r.envelopes[f] = Envelope(IdOf(c.recipients[f]), f, NoKey)
      BY <1>1, <2>1
    <3> QED
      BY <3>1, Rewrapped
  <2>6. \A j \in 1..n : /\ envelopes[j].to = IdOf(c.recipients[j]) /\ envelopes[j].encapsulated = j
                        /\ envelopes[j].wrapped = IF j = f THEN key ELSE NoKey
    <3>1. \A j \in 1..n : r.envelopes[j].to = IdOf(c.recipients[j]) /\ r.envelopes[j].encapsulated = j /\ r.envelopes[j].wrapped = NoKey
      BY <1>1
    <3>2. /\ envelopes[f].to = IdOf(c.recipients[f]) /\ envelopes[f].encapsulated = f
          /\ envelopes[f].wrapped = key
      <4>1. envelopes[f] = Envelope(IdOf(c.recipients[f]), f, key)
        <5> HIDE DEF envelopes
        <5> QED
          BY <2>1, <2>4, <2>5
      <4> HIDE DEF envelopes
      <4> QED
        BY <4>1, EnvelopeFields
    <3> HIDE DEF envelopes
    <3>3. \A j \in 1..n : j # f => envelopes[j] = r.envelopes[j]
      BY <2>4
    <3> QED
      BY <3>1, <3>2, <3>3
  <2>7. EnvelopesFor(a, identity) = named
    <3> HIDE DEF envelopes
    <3> QED
      BY <2>3, <2>4, <2>6 DEF EnvelopesFor
  <2> HIDE DEF envelopes
  <2> QED
    BY <1>1, <1>7, <2>3, <2>4, <2>6, <2>7 DEF r, matches, a, f, named
<1> QED
  BY <1>6, <1>7

\* A recording opens with the wrapped key of the envelope that the identity has its place in, and
\* with no other.
LEMMA ReplayOpens ==
  ASSUME NEW c, NEW n \in Nat, DOMAIN c.recipients = 1..n, NEW identity \in Holders, NEW i \in 1..n,
         NEW f, f = First(EnvelopesFor(ClientOf(c), identity)),
         NEW matches, matches = MatchesOf(c, identity)
  PROVE  LET replayed == Replayed(ClientOf(c), ClientOf(c).envelopes[i].wrapped, identity)
             named == {j \in 1..n : IdOf(c.recipients[j]) = IdOf(identity)}
         IN /\ ~replayed.refused <=>
                 /\ named # {} /\ HolderSuite(identity) = ClientSuite(c) /\ c.recipients[f].key = identity.key
                 /\ matches # {} /\ First(matches) = f /\ i = f
            /\ ~replayed.refused => replayed.payloadKey = c.payloadKey
<1> DEFINE client == ClientOf(c)
           key == client.envelopes[i].wrapped
           a == AttachWrappedKey(Recorded(client), key, identity)
           named == {j \in 1..n : IdOf(c.recipients[j]) = IdOf(identity)}
           replayed == Accepted(a, identity)
           e == Taken(a, identity)
<1>1. EnvelopesFor(client, identity) = named /\ f = First(named)
  <2>1. EnvelopesFor(client, identity) = named
    BY NamesOfClient
  <2> HIDE DEF named
  <2> QED
    BY <2>1
<1>2. named # {} => f \in named
  <2>1. named \subseteq Nat
    OBVIOUS
  <2> HIDE DEF named
  <2> QED
    BY <1>1, <2>1, FirstOfSome
<1>3. /\ a.grant = client.grant /\ EnvelopesFor(a, identity) = named
      /\ \A j \in 1..n : a.envelopes[j].to = IdOf(c.recipients[j]) /\ a.envelopes[j].encapsulated = j
      /\ \A j \in 1..n : a.envelopes[j].wrapped = IF matches # {} /\ j = First(matches) THEN key ELSE NoKey
  <2> HIDE DEF client, key, named
  <2>1. \A k : LET attached == AttachWrappedKey(Recorded(ClientOf(c)), k, identity)
               IN /\ attached.grant = ClientOf(c).grant
                  /\ EnvelopesFor(attached, identity) = {j \in 1..n : IdOf(c.recipients[j]) = IdOf(identity)}
                  /\ \A j \in 1..n : attached.envelopes[j].to = IdOf(c.recipients[j])
                                     /\ attached.envelopes[j].encapsulated = j
                  /\ \A j \in 1..n : attached.envelopes[j].wrapped =
                       IF MatchesOf(c, identity) # {} /\ j = First(MatchesOf(c, identity)) THEN k ELSE NoKey
    BY AttachedEnvelopes
  <2> QED
    BY <2>1 DEF client, named
<1>4. /\ key.secret = c.payloadKey /\ key.key = SharedKey(i, c.recipients[i].key)
      /\ key.binding = <<Info(client.grant), IdOf(c.recipients[i])>>
  <2>1. i \in DOMAIN c.recipients
    OBVIOUS
  <2> QED
    BY <2>1, EnvelopesOfClient
<1>5. NoKey.key = <<>> /\ SharedKey(f, identity.key) # <<>>
  BY DEF NoKey, Sealed, SharedKey
<1>6. client.grant.suite = ClientSuite(c)
  <2>1. client.grant = [suite |-> ClientSuite(c), payloadSuite |-> ClientSuite(c),
                        payloadKeyId |-> c.payloadKeyId, context |-> ContextOf(c)]
    BY SessionOfClient
  <2> HIDE DEF client
  <2> QED
    BY <2>1
<1>7. /\ replayed.refused = ~OpensSession(a, identity)
      /\ OpensSession(a, identity) => replayed.payloadKey = e.wrapped.secret
  <2> HIDE DEF a
  <2> QED
    BY AcceptedWith
<1>8. e = a.envelopes[f]
  <2> HIDE DEF a, named
  <2> QED
    BY <1>1, <1>3 DEF Taken
<1> HIDE DEF client, key, a, named, replayed, e
<1>9. named # {} => f \in 1..n
  BY <1>2 DEF named
<1>10. named # {} => /\ e.to = IdOf(c.recipients[f]) /\ e.encapsulated = f
                     /\ e.wrapped = IF matches # {} /\ f = First(matches) THEN key ELSE NoKey
  BY <1>3, <1>8, <1>9
<1>11. OpensSession(a, identity) <=>
         /\ named # {} /\ HolderSuite(identity) = ClientSuite(c)
         /\ e.wrapped.key = SharedKey(e.encapsulated, identity.key)
         /\ e.wrapped.binding = <<Info(client.grant), e.to>>
  BY <1>3, <1>6 DEF OpensSession, e
<1>12. SharedKey(i, c.recipients[i].key) = SharedKey(f, identity.key) <=> i = f /\ c.recipients[i].key = identity.key
  BY DEF SharedKey
<1>13. ASSUME OpensSession(a, identity)
       PROVE  /\ named # {} /\ HolderSuite(identity) = ClientSuite(c) /\ c.recipients[f].key = identity.key
              /\ matches # {} /\ First(matches) = f /\ i = f /\ e.wrapped = key
  <2>1. named # {} /\ HolderSuite(identity) = ClientSuite(c) /\ e.wrapped.key = SharedKey(f, identity.key)
    BY <1>10, <1>11, <1>13
  <2>2. matches # {} /\ First(matches) = f /\ e.wrapped = key
    BY <1>5, <1>10, <2>1
  <2> QED
    BY <1>4, <1>12, <2>1, <2>2
<1>14. ASSUME named # {}, HolderSuite(identity) = ClientSuite(c), c.recipients[f].key = identity.key,
              matches # {}, First(matches) = f, i = f
       PROVE  OpensSession(a, identity)
  BY <1>4, <1>10, <1>11, <1>14
<1>15. Replayed(client, key, identity) = replayed
  BY DEF Replayed, replayed, a
<1>16. /\ ~replayed.refused <=>
            /\ named # {} /\ HolderSuite(identity) = ClientSuite(c) /\ c.recipients[f].key = identity.key
            /\ matches # {} /\ First(matches) = f /\ i = f
       /\ ~replayed.refused => replayed.payloadKey = c.payloadKey
  BY <1>4, <1>7, <1>13, <1>14
<1> QED
  BY <1>15, <1>16, Zenon DEF client, key, named

\* Where the key goes, when the identity has its place among the recipients.
LEMMA MatchesPlaced ==
  ASSUME NEW c, NEW n \in Nat, DOMAIN c.recipients = 1..n, NEW identity,
         NEW f, f = First(EnvelopesFor(ClientOf(c), identity)),
         {j \in 1..n : IdOf(c.recipients[j]) = IdOf(identity)} # {}
  PROVE  LET stated == identity.keyId # Unset \/ n = 1
         IN /\ stated => MatchesOf(c, identity) # {} /\ First(MatchesOf(c, identity)) = f
            /\ ~stated => MatchesOf(c, identity) = {}
<1> DEFINE named == {j \in 1..n : IdOf(c.recipients[j]) = IdOf(identity)}
           r == Recorded(ClientOf(c))
<1>1. EnvelopesFor(ClientOf(c), identity) = named
  BY NamesOfClient
<1>2. EnvelopesFor(r, identity) = named /\ Len(r.envelopes) = n
  BY RecordedEnvelopes
<1>3. CASE n = 1
  <2>1. named = {1} /\ MatchesOf(c, identity) = {1}
    BY <1>2, <1>3 DEF MatchesOf
  <2>2. f = First({1})
    BY <1>1, <2>1
  <2> HIDE DEF named, r
  <2> QED
    BY <1>3, <2>1, <2>2
<1>4. CASE n # 1
  <2>1. MatchesOf(c, identity) = IF identity.keyId = Unset THEN {} ELSE named
    <3> HIDE DEF named
    <3> QED
      BY <1>2, <1>4 DEF MatchesOf
  <2>2. f = First(named) /\ named # {}
    <3>1. named # {}
      OBVIOUS
    <3> HIDE DEF named
    <3> QED
      BY <1>1, <3>1
  <2> HIDE DEF named, r
  <2> QED
    BY <1>4, <2>1, <2>2
<1> QED
  BY <1>3, <1>4

LEMMA RecordingReaches ==
  ASSUME KeysInv
  PROVE  RecordingReachesRecipient
<1> DEFINE c == keys.grant
           identity == keys.identity
           client == Granted(c)
           server == Accepted(client, identity)
           replayed(i) == Replayed(client, client.envelopes[i].wrapped, identity)
           stated == identity.keyId # Unset \/ Len(client.envelopes) = 1
           f == First(EnvelopesFor(client, identity))
<1> SUFFICES ASSUME ~client.refused, NEW i \in DOMAIN client.envelopes
             PROVE  /\ ~replayed(i).refused <=> ~server.refused /\ stated /\ i = f
                    /\ ~replayed(i).refused =>
                         replayed(i).payloadKey = client.payloadKey /\ c.recipients[i].key = identity.key
  BY Zenon DEF RecordingReachesRecipient
<1>1. client = ClientOf(c)
  BY GrantedOnlyIf
<1>2. PICK n \in Nat : DOMAIN c.recipients = 1..n
  BY KeysAre
<1>3. identity \in Holders
  BY KeysAre
<1> HIDE DEF c, identity, client
<1>4. DOMAIN client.envelopes = 1..n /\ client.payloadKey = c.payloadKey
  BY <1>1, <1>2, SessionOfClient
<1>5. Len(client.envelopes) = n
  <2>1. client.envelopes = [j \in 1..n |-> Wrapped(client.grant, c.payloadKey, c.recipients[j], j)]
    BY <1>1, <1>2 DEF ClientOf
  <2> QED
    BY <2>1
<1> DEFINE named == {j \in 1..n : IdOf(c.recipients[j]) = IdOf(identity)}
           matches == MatchesOf(c, identity)
<1>6. i \in 1..n
  BY <1>4
<1>7. /\ ~replayed(i).refused <=>
           /\ named # {} /\ HolderSuite(identity) = ClientSuite(c) /\ c.recipients[f].key = identity.key
           /\ matches # {} /\ First(matches) = f /\ i = f
      /\ ~replayed(i).refused => replayed(i).payloadKey = c.payloadKey
  <2>1. f = First(EnvelopesFor(ClientOf(c), identity))
    BY <1>1
  <2> HIDE DEF f, matches
  <2> QED
    BY <1>1, <1>2, <1>3, <1>6, <2>1, ReplayOpens DEF matches
<1>8. ~server.refused <=> named # {} /\ HolderSuite(identity) = ClientSuite(c) /\ c.recipients[f].key = identity.key
  <2>1. f = First(EnvelopesFor(ClientOf(c), identity))
    BY <1>1
  <2> HIDE DEF f
  <2>2. ~Accepted(ClientOf(c), identity).refused <=>
          /\ {j \in DOMAIN c.recipients : IdOf(c.recipients[j]) = IdOf(identity)} # {}
          /\ HolderSuite(identity) = ClientSuite(c) /\ c.recipients[f].key = identity.key
    BY <1>2, <2>1, ServerOfClient
  <2> QED
    BY <1>1, <1>2, <2>2
<1>9. named # {} => /\ stated => matches # {} /\ First(matches) = f
                    /\ ~stated => matches = {}
  <2>1. f = First(EnvelopesFor(ClientOf(c), identity))
    BY <1>1
  <2> HIDE DEF f, matches
  <2>2. named # {} => /\ identity.keyId # Unset \/ n = 1 => matches # {} /\ First(matches) = f
                      /\ ~(identity.keyId # Unset \/ n = 1) => matches = {}
    BY <1>2, <2>1, MatchesPlaced DEF matches
  <2> QED
    BY <1>5, <2>2
<1> HIDE DEF named, matches, f, stated, server, replayed
<1> QED
  BY <1>4, <1>7, <1>8, <1>9

\* In every session a configuration makes, for any keys, suites, grants, identities and lengths,
\* the server has the client's payload key exactly when it is a recipient, a recording opens as
\* the live session did, with the wrapped key of the same envelope and with no other, and a payload
\* is read only on its own stream of its own session.  (createWebTTYE2EClientPayloadCrypto, createWebTTYE2EServerPayloadCrypto,
\* createWebTTYE2EReplayPayloadCryptoFromKeyGrant)
THEOREM KeysShared == KeysSpec => []SessionKeysSound
<1>1. KeysInit => KeysInv
  BY DEF KeysInit, KeysInv
<1>2. KeysInv /\ [KeysNext]_keyVars => KeysInv'
  BY DEF KeysInv, KeysNext, keyVars
<1>3. KeysInv => SessionKeysSound
  BY GrantReaches, RecordingReaches, PayloadsKeepTheirPlace DEF SessionKeysSound
<1> QED
  BY <1>1, <1>2, <1>3, PTL DEF KeysSpec

-----------------------------------------------------------------------------
(* The components side by side *)

\* Whatever there is to give to a component that rests.
SomethingToGive ==
  {} \notin {Setups, Wirings, Grants, Identities, Counters, Recordings, TURNOptions}

\* The state that a component rests in is one of its initial states.
LEMMA RestingStarts ==
  ASSUME SomethingToGive, DataInit
  PROVE  Init /\ DialInit /\ ConfigInit /\ KeysInit /\ StreamsInit /\ UploadsInit /\ TURNInit /\ ReplayInit
<1>1. /\ Resting.asked \in Setups /\ Resting.wiring \in Wirings /\ Resting.grant \in Grants
      /\ Resting.identity \in Identities /\ Resting.counter \in Counters /\ Resting.options \in TURNOptions
      /\ Resting.recording \in Recordings
  BY DEF SomethingToGive, Resting, AnyOf
<1>2. DialInit
  <2>1. CASE dial = [d \in Dials |-> NewDial(d, "direct", FALSE)]
    <3> DEFINE route == [d \in Dials |-> "direct"]
               zeroRtt == [d \in Dials |-> FALSE]
    <3>1. route \in [Dials -> {"direct", "http", "https"}] /\ zeroRtt \in [Dials -> BOOLEAN]
      OBVIOUS
    <3>2. dial = [d \in Dials |-> NewDial(d, route[d], zeroRtt[d])]
      BY <2>1
    <3> QED
      BY <3>1, <3>2 DEF DialInit
  <2> QED
    BY <2>1 DEF DataInit
<1>3. ConfigInit
  BY <1>1 DEF DataInit, ConfigInit
<1>4. KeysInit
  BY <1>1 DEF DataInit, KeysInit
<1>5. FramesInit
  <2>1. CASE framed = NewStream(<<>>)
    <3>1. 0 \in 0..MaxStream
      BY StreamsAssumption
    <3>2. <<>> \in [1..0 -> {0, 1}]
      OBVIOUS
    <3> QED
      BY <2>1, <3>1, <3>2 DEF FramesInit
  <2> QED
    BY <2>1 DEF DataInit
<1>6. DownloadInit
  <2>1. CASE download = NewDownload(0, Resting.counter, 0)
    <3>1. 0 \in 0..MaxContent /\ 0 \in 0..BlockSize + ChecksumSize + 0
      BY StreamsAssumption DEF BlockSize, ChecksumSize
    <3> QED
      BY <1>1, <2>1, <3>1 DEF DownloadInit
  <2> QED
    BY <2>1 DEF DataInit
<1>7. UploadsInit
  BY DEF DataInit, UploadsInit, Maybe
<1>8. TURNInit
  <2>1. CASE turn = [c \in TURNCalls |-> NewTURNCall(Resting.options)] /\ project = "none"
    BY <1>1, <2>1 DEF TURNInit
  <2> QED
    BY <2>1 DEF DataInit
<1>9. ReplayInit
  BY <1>1 DEF DataInit, ReplayInit
<1> QED
  BY <1>2, <1>3, <1>4, <1>5, <1>6, <1>7, <1>8, <1>9 DEF DataInit, StreamsInit

\* A step is of the component that acts, and leaves the others where they are.
LEMMA OneActs ==
  ASSUME [DataNext]_dataVars
  PROVE  /\ [Next]_vars /\ [DialNext]_dialVars /\ [ConfigNext]_configVars /\ [KeysNext]_keyVars
         /\ [StreamsNext]_streamVars /\ [UploadsNext]_uploadVars /\ [TURNNext]_turnVars /\ [ReplayNext]_recording
<1>1. CASE UNCHANGED dataVars
  BY <1>1 DEF dataVars
<1>2. CASE Next /\ Rest("watch")
  BY <1>2 DEF Rest
<1>3. CASE DialNext /\ Rest("dial")
  BY <1>3 DEF Rest
<1>4. CASE FramesNext /\ Rest("frames")
  BY <1>4 DEF Rest, StreamsNext
<1>5. CASE FileNext /\ Rest("download")
  BY <1>5 DEF Rest, StreamsNext
<1>6. CASE UploadsNext /\ Rest("uploads")
  BY <1>6 DEF Rest
<1>7. CASE TURNNext /\ Rest("turn")
  BY <1>7 DEF Rest
<1> QED
  BY <1>1, <1>2, <1>3, <1>4, <1>5, <1>6, <1>7 DEF DataNext

\* Side by side, every component behaves as it does alone: what is proved of one, for any values
\* of its constants, holds of it in their composition.
THEOREM SideBySide ==
  ASSUME SomethingToGive
  PROVE  DataSpec => /\ Spec /\ DialSpec /\ ConfigSpec /\ KeysSpec /\ StreamsSpec /\ UploadsSpec /\ TURNSpec
                     /\ ReplaySpec
<1>1. DataInit => Init /\ DialInit /\ ConfigInit /\ KeysInit /\ StreamsInit /\ UploadsInit /\ TURNInit /\ ReplayInit
  BY RestingStarts
<1>2. [DataNext]_dataVars =>
        /\ [Next]_vars /\ [DialNext]_dialVars /\ [ConfigNext]_configVars /\ [KeysNext]_keyVars
        /\ [StreamsNext]_streamVars /\ [UploadsNext]_uploadVars /\ [TURNNext]_turnVars /\ [ReplayNext]_recording
  BY OneActs
<1> QED
  BY <1>1, <1>2, PTL DEF DataSpec, Spec, DialSpec, ConfigSpec, KeysSpec, StreamsSpec, UploadsSpec, TURNSpec,
     ReplaySpec

\* The states are of their types in every state of every component: a watch, its callback, a call
\* that opens a connection, a file call with what its owner keeps, and a TURN call.
THEOREM DataTyped ==
  ASSUME SomethingToGive
  PROVE  DataSpec => []DataTypeOK
<1>1. WatchInv /\ DialInv /\ UploadsInv /\ TURNInv => DataTypeOK
  BY DEF WatchInv, DialInv, UploadsInv, TURNInv, DataTypeOK, DialTypeOK, TURNTypeOK
<1>2. UploadsSpec => []UploadsInv
  BY UploadsStart, UploadsStep, PTL DEF UploadsSpec
<1> QED
  BY <1>1, <1>2, SideBySide, WatchInvariant, DialInvariant, TURNInvariant, PTL

\* And so of everything else that is claimed of them: no leak, no loss, no credential out of
\* place, no wrong message, no receipt without evidence, no transcript that shows something else.
THEOREM DataSafe ==
  ASSUME SomethingToGive
  PROVE  DataSpec =>
           /\ []ClosedIsReleased /\ CloseIsLast /\ []NoSocketLeaked /\ []PayloadIntact
           /\ []CredentialsStayHome /\ []TransportHonoured /\ []SessionKeysSound
           /\ []ChunksDoNotMatter /\ []ReceiptsAreEvidence /\ []NoBypass /\ []TranscriptFaithful
BY SideBySide, ReleasedForGood, NothingAfterClose, SocketsReleased, PayloadReturned, CredentialsHome,
   TransportAsConfigured, KeysShared, ChunksNeverMatter, Evidence, NothingBypassed, EveryTranscriptFaithful, PTL
=============================================================================
