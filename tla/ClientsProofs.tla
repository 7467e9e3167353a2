--------------------------- MODULE ClientsProofs ----------------------------
(* The clients that owe their callers an end: a request of the tunnels client reaches *)
(* the endpoint of its own engine, for any requests, engines and numbers of           *)
(* discoveries; the body of a file over WebRTC ends with all that was sent, within     *)
(* the receive window, for any sizes of both; and a command captures its output        *)
(* faithfully, for any readers and limits.                                             *)
EXTENDS WebTTYCommand, EngineHTTP, RTCTransfer, FiniteSetTheorems, TLAPS

-----------------------------------------------------------------------------
(* Requests of the tunnels client *)

\* A request that waits for a discovery waits for one of its own engine, which this.flight may
\* not be any more; and it has the URL of no engine before.
RequestSound(q, flights) ==
  /\ q \in RequestRecords
  /\ q.base \in {NoEngine, q.of}
  /\ q.stage = "idle" => q.base = NoEngine
  /\ q.stage = "discovering" =>
       q.flight \in 1..Len(flights) /\ flights[q.flight].of = q.of

EngineInv ==
  /\ EngineTypeOK
  /\ engine.flight \in 0..Len(flight)
  /\ \A r \in Requests : RequestSound(request[r], flight)

\* The bounds are numbers.
LEMMA Bounds == MaxFlights \in Nat /\ MaxBody \in Nat /\ 0 \in 0..MaxFlights /\ 0 \in 0..MaxBody
BY EngineAssumption

\* A request that stopped is at no flight.
LEMMA StoppedSound ==
  ASSUME NEW q, NEW flights, RequestSound(q, flights), NEW stage \in {"done", "failed"}
  PROVE  RequestSound(Stopped(q, stage), flights)
<1> DEFINE s == Stopped(q, stage)
<1>1. s \in RequestRecords
  BY Bounds DEF Stopped, RequestSound, RequestRecords
<1>2. s.stage = stage /\ s.base = q.base /\ s.of = q.of
  BY DEF Stopped, RequestSound, RequestRecords
<1> QED
  BY <1>1, <1>2 DEF RequestSound

\* Dropping the cache and leaving a flight keep the engine's record.
LEMMA EngineKept ==
  ASSUME NEW e \in EngineRecords, NEW f
  PROVE  /\ Dropped(e) \in EngineRecords /\ Dropped(e).flight = e.flight
         /\ Left(e, f) \in EngineRecords /\ Left(e, f).flight \in {0, e.flight}
<1>1. NoEngine \in Engines \union {NoEngine}
  OBVIOUS
<1>2. Dropped(e) \in EngineRecords /\ Dropped(e).flight = e.flight
  BY <1>1 DEF Dropped, EngineRecords
<1>3. CASE e.flight = f
  <2>1. Left(e, f) = [e EXCEPT !.flight = 0]
    BY <1>3, Zenon DEF Left
  <2>2. [e EXCEPT !.flight = 0] \in EngineRecords /\ [e EXCEPT !.flight = 0].flight = 0
    BY Bounds DEF EngineRecords
  <2> QED
    BY <1>2, <2>1, <2>2
<1>4. CASE e.flight # f
  <2>1. Left(e, f) = e
    BY <1>4, Zenon DEF Left
  <2> QED
    BY <1>2, <2>1
<1> QED
  BY <1>3, <1>4

\* A step of one request keeps the invariant when the request stays sound.
LEMMA OneRequest ==
  ASSUME EngineInv, NEW r \in Requests, NEW q, RequestSound(q, flight), RequestBecomes(r, q), flight' = flight,
         engine' \in EngineRecords, engine'.flight \in {0, engine.flight}
  PROVE  EngineInv'
<1>1. Len(flight) \in Nat
  BY DEF EngineInv, EngineTypeOK
<1>2. engine'.flight \in 0..Len(flight)
  BY <1>1 DEF EngineInv
<1>3. request' \in [Requests -> RequestRecords]
  BY DEF EngineInv, EngineTypeOK, RequestBecomes, RequestSound
<1>4. \A s \in Requests : RequestSound(request'[s], flight)
  BY DEF EngineInv, EngineTypeOK, RequestBecomes
<1> QED
  BY <1>2, <1>3, <1>4 DEF EngineInv, EngineTypeOK

\* A request that fails.
LEMMA FailsSound ==
  ASSUME EngineInv, NEW r \in Requests, Fails(r)
  PROVE  EngineInv'
<1> DEFINE q == Stopped(request[r], "failed")
           f == request[r].flight
           left == IF f # 0 /\ Settled(f) THEN Left(engine, f) ELSE engine
<1>1. RequestSound(q, flight)
  BY StoppedSound DEF EngineInv
<1>2. engine \in EngineRecords
  BY DEF EngineInv, EngineTypeOK
<1>3. left \in EngineRecords /\ left.flight \in {0, engine.flight}
  BY <1>2, EngineKept
<1>4. engine' = Dropped(left) /\ RequestBecomes(r, q) /\ flight' = flight
  BY DEF Fails
<1>5. engine' \in EngineRecords /\ engine'.flight \in {0, engine.flight}
  BY <1>3, <1>4, EngineKept
<1> QED
  BY <1>1, <1>4, <1>5, OneRequest

\* A call and its first step.
LEMMA CallSound ==
  ASSUME EngineInv, NEW r \in Requests, NEW e \in Engines, NEW kind \in {"response", "stream"}, CallEngine(r, e, kind)
  PROVE  EngineInv'
<1> DEFINE q == [request[r] EXCEPT !.kind = kind, !.of = e, !.timer = TRUE]
<1>1. /\ request[r] \in RequestRecords /\ request[r].base = NoEngine /\ engine \in EngineRecords
      /\ engine.flight \in 0..Len(flight) /\ flight \in Seq(FlightRecords) /\ Len(flight) \in Nat
  BY DEF EngineInv, EngineTypeOK, RequestSound, CallEngine
<1>2. q \in RequestRecords /\ q.of = e /\ q.base = NoEngine
  BY <1>1 DEF RequestRecords
<1>3. CASE engine.closed
  <2>1. RequestBecomes(r, Stopped(q, "failed")) /\ engine' = Dropped(engine) /\ flight' = flight
    BY <1>3 DEF CallEngine
  <2>2. Stopped(q, "failed") \in RequestRecords
    BY <1>2, Bounds DEF Stopped, RequestRecords
  <2>3. Stopped(q, "failed").stage = "failed" /\ Stopped(q, "failed").base = NoEngine
    BY <1>2 DEF Stopped, RequestRecords
  <2>4. RequestSound(Stopped(q, "failed"), flight)
    BY <2>2, <2>3 DEF RequestSound
  <2> QED
    BY <1>1, <2>1, <2>4, EngineKept, OneRequest
<1>4. CASE ~engine.closed /\ (engine.mode = "direct" \/ (engine.cached = e /\ engine.fresh))
  <2> DEFINE p == [q EXCEPT !.stage = "resolved", !.base = e]
  <2>1. RequestBecomes(r, p) /\ engine' = engine /\ flight' = flight
    BY <1>1, <1>4 DEF CallEngine, EngineRecords
  <2>2. p \in RequestRecords /\ p.stage = "resolved" /\ p.base = e /\ p.of = e
    BY <1>2 DEF RequestRecords, Active
  <2>3. RequestSound(p, flight)
    BY <2>2 DEF RequestSound
  <2> QED
    BY <1>1, <2>1, <2>3, OneRequest
<1>5. CASE ~engine.closed /\ ~(engine.mode = "direct" \/ (engine.cached = e /\ engine.fresh))
  <2> DEFINE reused == Reusable(e)
             p == [q EXCEPT !.stage = "discovering", !.flight = engine'.flight]
             new == [of |-> e, state |-> "pending"]
  <2>1. /\ reused \/ Len(flight) < MaxFlights
        /\ flight' = IF reused THEN flight ELSE Append(flight, new)
        /\ engine' = [engine EXCEPT !.flight = IF reused THEN engine.flight ELSE Len(flight')]
        /\ RequestBecomes(r, p)
    BY <1>5 DEF CallEngine
  <2>2. /\ new \in FlightRecords /\ flight' \in Seq(FlightRecords) /\ Len(flight') \in Nat /\ Len(flight') <= MaxFlights
        /\ Len(flight) <= Len(flight') /\ \A i \in 1..Len(flight) : flight'[i] = flight[i]
    <3>1. new \in FlightRecords /\ Len(flight) <= MaxFlights
      BY DEF FlightRecords, EngineInv, EngineTypeOK
    <3>2. CASE reused
      BY <1>1, <2>1, <3>1, <3>2
    <3>3. CASE ~reused
      <4>1. flight' = Append(flight, new) /\ Len(flight) < MaxFlights
        BY <2>1, <3>3
      <4> HIDE DEF new
      <4> QED
        BY <1>1, <3>1, <4>1, Bounds
    <3> QED
      BY <3>1, <3>2, <3>3
  <2>3. engine'.flight \in 1..Len(flight') /\ flight'[engine'.flight].of = e /\ engine' \in EngineRecords
    <3>1. CASE reused
      <4>1. engine' = engine /\ flight' = flight /\ engine.flight # 0 /\ flight[engine.flight].of = e
        BY <1>1, <2>1, <3>1 DEF Reusable, EngineRecords
      <4> QED
        BY <1>1, <4>1
    <3>2. CASE ~reused
      <4>1. flight' = Append(flight, new) /\ Len(flight') = Len(flight) + 1 /\ flight'[Len(flight) + 1] = new
        BY <1>1, <2>1, <2>2, <3>2
      <4>2. engine'.flight = Len(flight')
        BY <1>1, <2>1, <3>2 DEF EngineRecords
      <4>3. Len(flight') \in 0..MaxFlights
        BY <2>2, Bounds
      <4>4. engine' \in EngineRecords
        BY <1>1, <2>1, <3>2, <4>3 DEF EngineRecords
      <4> QED
        BY <1>1, <4>1, <4>2, <4>4
    <3> QED
      BY <3>1, <3>2
  <2>4. p \in RequestRecords /\ p.stage = "discovering" /\ p.of = e /\ p.base = NoEngine /\ p.flight = engine'.flight
    BY <1>2, <2>3 DEF RequestRecords, EngineRecords, Active
  <2>5. RequestSound(p, flight')
    BY <2>3, <2>4 DEF RequestSound
  <2>6. ASSUME NEW s \in Requests PROVE RequestSound(request'[s], flight') /\ request'[s] \in RequestRecords
    <3>1. CASE s = r
      <4>1. request'[s] = p
        BY <2>1, <3>1 DEF EngineInv, EngineTypeOK, RequestBecomes
      <4> QED
        BY <2>4, <2>5, <4>1
    <3>2. CASE s # r
      <4>1. request'[s] = request[s] /\ RequestSound(request[s], flight)
        BY <2>1, <3>2 DEF EngineInv, EngineTypeOK, RequestBecomes
      <4>2. request[s].stage = "discovering" =>
              request[s].flight \in 1..Len(flight') /\ flight'[request[s].flight].of = request[s].of
        BY <1>1, <2>2, <4>1 DEF RequestSound
      <4> QED
        BY <4>1, <4>2 DEF RequestSound
    <3> QED
      BY <3>1, <3>2
  <2>7. request' \in [Requests -> RequestRecords]
    BY <2>1, <2>6 DEF EngineInv, EngineTypeOK, RequestBecomes
  <2> QED
    BY <2>2, <2>3, <2>6, <2>7 DEF EngineInv, EngineTypeOK
<1> QED
  BY <1>3, <1>4, <1>5

\* A flight that ends is still for the same engine.
LEMMA FlightSound ==
  ASSUME EngineInv, NEW f \in 1..Len(flight), FlightSettles(f)
  PROVE  EngineInv'
<1>1. PICK state \in {"resolved", "refused", "rejected"} : flight' = [flight EXCEPT ![f].state = state]
  BY DEF FlightSettles
<1>2. flight \in Seq(FlightRecords) /\ Len(flight) \in Nat /\ engine \in EngineRecords /\ flight[f] \in FlightRecords
  BY DEF EngineInv, EngineTypeOK
<1>3. [flight[f] EXCEPT !.state = state] \in FlightRecords /\ [flight[f] EXCEPT !.state = state].of = flight[f].of
  BY <1>2 DEF FlightRecords
<1>4. flight' = [flight EXCEPT ![f] = [flight[f] EXCEPT !.state = state]]
  BY <1>1
<1>5. flight' \in Seq(FlightRecords) /\ Len(flight') = Len(flight)
  BY <1>2, <1>3, <1>4
<1>6. \A i \in 1..Len(flight) : flight'[i].of = flight[i].of
  BY <1>2, <1>3, <1>4
<1>7. engine' \in EngineRecords /\ engine'.flight \in {0, engine.flight} /\ request' = request
  BY <1>2, EngineKept DEF FlightSettles
<1>8. engine'.flight \in 0..Len(flight')
  BY <1>2, <1>5, <1>7 DEF EngineInv
<1>9. \A r \in Requests : RequestSound(request'[r], flight')
  BY <1>5, <1>6, <1>7 DEF EngineInv, RequestSound
<1> QED
  BY <1>5, <1>7, <1>8, <1>9 DEF EngineInv, EngineTypeOK

\* The document arrived: the URL is that of the flight's engine, hence of the request's.
LEMMA DiscoveredSound ==
  ASSUME EngineInv, NEW r \in Requests, Discovered(r)
  PROVE  EngineInv'
<1> DEFINE q == request[r]
           f == q.flight
           p == [q EXCEPT !.stage = "resolved", !.base = flight[f].of, !.flight = 0]
<1>1. PICK fresh \in BOOLEAN : engine' = [Left(engine, f) EXCEPT !.cached = flight[f].of, !.fresh = fresh]
  BY DEF Discovered
<1>2. RequestSound(q, flight) /\ q.stage = "discovering" /\ RequestBecomes(r, p) /\ flight' = flight
  BY DEF Discovered, EngineInv
<1>3. f \in 1..Len(flight) /\ flight[f].of = q.of /\ flight[f] \in FlightRecords
  BY <1>2 DEF RequestSound, EngineInv, EngineTypeOK
<1>4. flight[f].of \in Engines
  BY <1>3 DEF FlightRecords
<1>5. Left(engine, f) \in EngineRecords /\ Left(engine, f).flight \in {0, engine.flight}
  BY EngineKept DEF EngineInv, EngineTypeOK
<1>6. engine' \in EngineRecords /\ engine'.flight = Left(engine, f).flight
  BY <1>1, <1>4, <1>5 DEF EngineRecords
<1>7. p \in RequestRecords /\ p.stage = "resolved" /\ p.base = flight[f].of /\ p.of = q.of
  BY <1>2, <1>4, Bounds DEF RequestSound, RequestRecords, Active
<1>8. RequestSound(p, flight)
  BY <1>3, <1>7 DEF RequestSound
<1> QED
  BY <1>2, <1>5, <1>6, <1>8, OneRequest

\* A request that goes on without its URL changing.
LEMMA GoesOn ==
  ASSUME EngineInv, NEW r \in Requests, NEW q \in RequestRecords, RequestBecomes(r, q), UNCHANGED <<engine, flight>>,
         q.stage \notin {"idle", "discovering"}, q.base = request[r].base, q.of = request[r].of
  PROVE  EngineInv'
<1>1. RequestSound(q, flight)
  BY DEF EngineInv, RequestSound
<1>2. engine' \in EngineRecords /\ engine'.flight \in {0, engine.flight} /\ flight' = flight
  BY DEF EngineInv, EngineTypeOK
<1> QED
  BY <1>1, <1>2, OneRequest

\* A request that stops without a failure of the engine's.
LEMMA StopsSound ==
  ASSUME EngineInv, NEW r \in Requests, NEW stage \in {"done", "failed"},
         RequestBecomes(r, Stopped(request[r], stage)), UNCHANGED <<engine, flight>>
  PROVE  EngineInv'
<1>1. RequestSound(Stopped(request[r], stage), flight)
  BY StoppedSound DEF EngineInv
<1>2. engine' \in EngineRecords /\ engine'.flight \in {0, engine.flight} /\ flight' = flight
  BY DEF EngineInv, EngineTypeOK
<1> QED
  BY <1>1, <1>2, OneRequest

\* A request that is aborted, whether by its timer, its caller or close().
LEMMA AbortedSound ==
  ASSUME EngineInv, NEW r \in Requests, Aborted(r)
  PROVE  EngineInv'
BY FailsSound, StopsSound DEF Aborted

\* Any step of one request.
LEMMA RequestStepSound ==
  ASSUME EngineInv, NEW r \in Requests, RequestSteps(r)
  PROVE  EngineInv'
<1> DEFINE q == request[r]
<1>0. q \in RequestRecords
  BY DEF EngineInv, EngineTypeOK
<1>1. CASE Discovered(r)
  BY <1>1, DiscoveredSound
<1>2. CASE NotDiscovered(r)
  <2>1. CASE Fails(r)
    BY <2>1, FailsSound
  <2>2. CASE RequestBecomes(r, Stopped(q, "failed")) /\ engine' = Left(engine, q.flight) /\ UNCHANGED flight
    <3>1. RequestSound(Stopped(q, "failed"), flight)
      BY StoppedSound DEF EngineInv
    <3>2. engine' \in EngineRecords /\ engine'.flight \in {0, engine.flight}
      BY <2>2, EngineKept DEF EngineInv, EngineTypeOK
    <3> QED
      BY <2>2, <3>1, <3>2, OneRequest
  <2> QED
    BY <1>2, <2>1, <2>2 DEF NotDiscovered
<1>3. CASE Fetch(r)
  <2> DEFINE p == [q EXCEPT !.stage = "fetching"]
  <2>1. p \in RequestRecords /\ p.stage = "fetching" /\ p.base = q.base /\ p.of = q.of
    BY <1>0 DEF RequestRecords, Active
  <2> QED
    BY <1>3, <2>1, FailsSound, GoesOn DEF Fetch
<1>4. CASE ReadChunk(r)
  <2> DEFINE p == [q EXCEPT !.body = @ + 1]
  <2>1. q.body + 1 \in 0..MaxBody /\ q.stage = "reading"
    BY <1>0, <1>4, Bounds DEF ReadChunk, RequestRecords
  <2>2. p \in RequestRecords /\ p.stage = "reading" /\ p.base = q.base /\ p.of = q.of
    BY <1>0, <2>1 DEF RequestRecords
  <2> QED
    BY <1>4, <2>2, FailsSound, GoesOn DEF ReadChunk
<1>5. CASE ReadEnds(r)
  BY <1>5, StopsSound DEF ReadEnds
<1>6. CASE NetworkFails(r)
  BY <1>6, FailsSound DEF NetworkFails
<1>7. ASSUME NEW ok \in BOOLEAN, Responds(r, ok) PROVE EngineInv'
  <2> DEFINE streams == q.kind = "stream" /\ ok
             p == [q EXCEPT !.stage = IF streams THEN "streaming" ELSE "reading", !.timer = ~streams, !.ok = ok]
  <2>1. p \in RequestRecords /\ p.stage \in {"streaming", "reading"} /\ p.base = q.base /\ p.of = q.of
    BY <1>0 DEF RequestRecords, Active
  <2> QED
    BY <1>7, <2>1, GoesOn DEF Responds
<1> QED
  BY <1>1, <1>2, <1>3, <1>4, <1>5, <1>6, <1>7 DEF RequestSteps

\* Every request is sound at every step.
LEMMA EngineInvariant == EngineSpec => []EngineInv
<1>1. EngineInit => EngineInv
  <2> SUFFICES ASSUME EngineInit PROVE EngineInv
    OBVIOUS
  <2> DEFINE q == [kind |-> "response", of |-> NoEngine, base |-> NoEngine, stage |-> "idle", flight |-> 0,
                   timer |-> FALSE, ok |-> TRUE, body |-> 0]
  <2>1. engine \in EngineRecords /\ engine.flight = 0
    BY Bounds DEF EngineInit, EngineRecords
  <2>2. flight = <<>> /\ flight \in Seq(FlightRecords) /\ Len(flight) = 0 /\ Len(flight) <= MaxFlights
    BY Bounds DEF EngineInit
  <2>3. q \in RequestRecords
    BY Bounds DEF RequestRecords
  <2>4. RequestSound(q, flight)
    BY <2>3 DEF RequestSound
  <2>5. request = [r \in Requests |-> q]
    BY DEF EngineInit
  <2>6. request \in [Requests -> RequestRecords] /\ \A r \in Requests : RequestSound(request[r], flight)
    <3> HIDE DEF q
    <3> QED
      BY <2>3, <2>4, <2>5
  <2> QED
    BY <2>1, <2>2, <2>6 DEF EngineInv, EngineTypeOK
<1>2. EngineInv /\ [EngineNext]_engineVars => EngineInv'
  <2> SUFFICES ASSUME EngineInv, [EngineNext]_engineVars PROVE EngineInv'
    OBVIOUS
  <2>1. CASE UNCHANGED engineVars
    BY <2>1 DEF engineVars, EngineInv, EngineTypeOK
  <2>2. CASE FlightSteps
    BY <2>2, FlightSound DEF FlightSteps
  <2>3. CASE DiscoveryExpires
    <3>1. engine' \in EngineRecords /\ engine'.flight = engine.flight
      BY <2>3 DEF DiscoveryExpires, EngineInv, EngineTypeOK, EngineRecords
    <3> QED
      BY <2>3, <3>1 DEF DiscoveryExpires, EngineInv, EngineTypeOK
  <2>4. CASE CloseEngine
    <3>1. Dropped(engine) \in EngineRecords /\ Dropped(engine).flight = engine.flight
      BY EngineKept DEF EngineInv, EngineTypeOK
    <3>2. engine' \in EngineRecords /\ engine'.flight = engine.flight
      BY <2>4, <3>1 DEF CloseEngine, EngineRecords
    <3> QED
      BY <2>4, <3>2 DEF CloseEngine, EngineInv, EngineTypeOK
  <2>5. ASSUME NEW r \in Requests, RequestSteps(r) PROVE EngineInv'
    BY <2>5, RequestStepSound
  <2>6. ASSUME NEW r \in Requests, Deadlines(r) \/ AbortedByCaller(r) PROVE EngineInv'
    BY <2>6, AbortedSound DEF Deadlines, Timeout, AbortedByClose, AbortedByCaller
  <2>7. ASSUME NEW r \in Requests, CloseStream(r) PROVE EngineInv'
    BY <2>7, StopsSound DEF CloseStream
  <2>8. ASSUME NEW r \in Requests, NEW e \in Engines, NEW kind \in {"response", "stream"}, CallEngine(r, e, kind)
        PROVE  EngineInv'
    BY <2>8, CallSound
  <2> QED
    BY <2>1, <2>2, <2>3, <2>4, <2>5, <2>6, <2>7, <2>8 DEF EngineNext
<1> QED
  BY <1>1, <1>2, PTL DEF EngineSpec

\* A request goes to the endpoint of its own engine, although calls for other engines share the
\* cache and replace the flight (EngineHTTP.apiURL).
THEOREM RequestsReachTheirEngine == EngineSpec => []OwnEngine
<1>1. EngineInv => OwnEngine
  BY DEF EngineInv, RequestSound, OwnEngine
<1> QED
  BY <1>1, EngineInvariant, PTL
-----------------------------------------------------------------------------
(* Frames on their way *)

\* They are counted by their places, which are finitely many.
LEMMA CountType ==
  ASSUME NEW S, NEW frames \in Seq(S), NEW frame
  PROVE  IsFiniteSet(Places(frames, frame)) /\ Count(frames, frame) \in Nat
<1>1. IsFiniteSet(1..Len(frames))
  BY FS_Interval
<1>2. Places(frames, frame) \in SUBSET (1..Len(frames))
  BY DEF Places
<1>3. IsFiniteSet(Places(frames, frame))
  BY <1>1, <1>2, FS_Subset
<1> QED
  BY <1>3, FS_CardinalityType DEF Count

\* Nothing is on its way in an empty channel.
LEMMA CountNone == \A frame : Count(<<>>, frame) = 0
BY FS_EmptySet DEF Count, Places

\* A frame that is sent counts for itself.
LEMMA CountAppend ==
  ASSUME NEW S, NEW frames \in Seq(S), NEW told \in S, NEW frame
  PROVE  Count(Append(frames, told), frame) = Count(frames, frame) + IF told = frame THEN 1 ELSE 0
<1> DEFINE n == Len(frames)
           longer == Append(frames, told)
<1>1. n \in Nat /\ Len(longer) = n + 1 /\ longer[n + 1] = told /\ \A i \in 1..n : longer[i] = frames[i]
  OBVIOUS
<1>2. IsFiniteSet(Places(frames, frame)) /\ n + 1 \notin Places(frames, frame) /\ Count(frames, frame) \in Nat
  BY <1>1, CountType DEF Places
<1>3. Places(longer, frame) = IF told = frame THEN Places(frames, frame) \union {n + 1} ELSE Places(frames, frame)
  BY <1>1 DEF Places
<1> HIDE DEF longer, n
<1>4. Cardinality(Places(longer, frame)) = Cardinality(Places(frames, frame)) + IF told = frame THEN 1 ELSE 0
  <2>1. CASE told = frame
    BY <1>2, <1>3, <2>1, FS_AddElement
  <2>2. CASE told # frame
    BY <1>2, <1>3, <2>2 DEF Count
  <2> QED
    BY <2>1, <2>2
<1> QED
  BY <1>4 DEF Count, longer

\* A frame that is taken counts no more.
LEMMA CountTail ==
  ASSUME NEW S, NEW frames \in Seq(S), frames # <<>>, NEW frame
  PROVE  Count(frames, frame) = Count(Tail(frames), frame) + IF Head(frames) = frame THEN 1 ELSE 0
<1> DEFINE n == Len(frames)
           rest == Tail(frames)
           moved == Places(rest, frame)
           later == Places(frames, frame) \ {1}
<1>1. n \in Nat \ {0} /\ rest \in Seq(S) /\ Len(rest) = n - 1 /\ \A i \in 1..n - 1 : rest[i] = frames[i + 1]
  OBVIOUS
<1>2. Head(frames) = frames[1] /\ 1 \in 1..n
  BY <1>1
<1>3. IsFiniteSet(moved) /\ IsFiniteSet(Places(frames, frame)) /\ Count(rest, frame) \in Nat /\ Count(frames, frame) \in Nat
  BY <1>1, CountType
<1>4. ExistsBijection(moved, later)
  <2> DEFINE next == [i \in moved |-> i + 1]
  <2>1. \A i \in moved : i + 1 \in later
    BY <1>1 DEF Places
  <2>2. \A j \in later : j - 1 \in moved /\ (j - 1) + 1 = j
    BY <1>1 DEF Places
  <2>3. \A i, j \in moved : i + 1 = j + 1 => i = j
    BY <1>1 DEF Places
  <2> HIDE DEF moved, later
  <2>4. next \in Bijection(moved, later)
    BY <2>1, <2>2, <2>3 DEF Bijection, Injection, Surjection, IsInjective
  <2> QED
    BY <2>4 DEF ExistsBijection
<1>5. IsFiniteSet(later) /\ Cardinality(later) = Cardinality(moved)
  BY <1>3, <1>4, FS_Bijection
<1>6. CASE Head(frames) = frame
  <2>1. Places(frames, frame) = later \union {1} /\ 1 \notin later
    BY <1>2, <1>6 DEF Places
  <2>2. Cardinality(Places(frames, frame)) = Cardinality(later) + 1
    BY <1>5, <2>1, FS_AddElement
  <2> QED
    BY <1>5, <1>6, <2>2 DEF Count
<1>7. CASE Head(frames) # frame
  <2>1. Places(frames, frame) = later
    BY <1>2, <1>7 DEF Places
  <2>2. Cardinality(Places(frames, frame)) = Cardinality(moved)
    BY <1>5, <2>1
  <2> QED
    BY <1>3, <1>7, <2>2 DEF Count
<1> QED
  BY <1>6, <1>7
-----------------------------------------------------------------------------
(* What makes the transfer inductive *)

\* The channel is open only while the transfer is.
OpenSound == dataChannel.open => ~transfer.closed

\* The frame that ends a response is the last one, and what comes before it has its order.
FramesSound ==
  \A i \in 1..Len(dataChannel.in) :
    dataChannel.in[i] \in {"done", "bad"} => i = Len(dataChannel.in) /\ owner.phase = "done"

\* Every frame of data is read, queued or on its way, and has had a credit.
FramesCounted ==
  /\ body.got + transfer.queue = transfer.received
  /\ transfer.received <= owner.sent /\ owner.sent <= owner.size
  /\ ~transfer.closed => transfer.received + InFlight = owner.sent
  /\ ~transfer.closed => InFlight + transfer.queue + Credits + owner.credits <= Window
  /\ transfer.error # "window"

\* What was announced is expected once it is known, and a transfer is complete, and its body
\* ends, with all of it.
EndSound ==
  /\ transfer.headers \/ transfer.expected = Unannounced
  /\ transfer.headers => transfer.expected = IF owner.announced THEN owner.size ELSE Unannounced
  /\ transfer.complete =>
       /\ transfer.headers /\ dataChannel.in = <<>> /\ owner.phase = "done" /\ transfer.received = owner.sent
       /\ owner.announced => transfer.received = owner.size
  /\ body.state = "closed" => transfer.complete /\ transfer.queue = 0

RTCInv == RTCTypeOK /\ OpenSound /\ FramesSound /\ FramesCounted /\ EndSound

-----------------------------------------------------------------------------
(* Types, and the steps that move no frame *)

FetchRecords == [method : Methods, backend : Backends,
                 state : {"idle", "discovering", "direct", "refused", "transfer"},
                 response : {"pending", "resolved", "rejected"}]
TransferRecords == [stage : {"none", "started"} \union Setup,
                    headers : BOOLEAN, complete : BOOLEAN, closed : BOOLEAN,
                    error : {"none", "failed", "window"},
                    expected : 0..Unannounced, received : 0..MaxData + 1, queue : 0..Window,
                    setupTimer : BOOLEAN,
                    lease : {"off", "armed", "renewing", "restarting"}]
BodyRecords == [state : {"none", "readable", "pulling", "closed", "errored", "cancelled"}, got : 0..MaxData]
Frames == {"headers", "data", "done", "bad"}
Replies == {"credit", "done"}
ChannelRecords == [in : Seq(Frames), out : Seq(Replies), open : BOOLEAN]
OwnerRecords == [phase : {"headers", "data", "done"}, size : 0..MaxData, sent : 0..MaxData,
                 credits : 0..Window, announced : BOOLEAN]

LEMMA RTCTyped ==
  RTCTypeOK <=> /\ fetch \in FetchRecords /\ transfer \in TransferRecords /\ body \in BodyRecords
                /\ dataChannel \in ChannelRecords /\ owner \in OwnerRecords
BY DEF RTCTypeOK, FetchRecords, TransferRecords, BodyRecords, ChannelRecords, OwnerRecords, Frames, Replies

LEMMA RTCBounds == Window \in Nat /\ MaxData \in Nat /\ Unannounced = MaxData + 1 /\ Unannounced \in 0..Unannounced
BY RTCAssumption DEF Unannounced

\* What two values of the object agree on when it goes on, or closes, without a frame.
SameProgress(t, s) ==
  /\ t.headers = s.headers /\ t.complete = s.complete /\ t.expected = s.expected
  /\ t.received = s.received /\ t.queue = s.queue

\* A step that moves no frame; it may close the transfer, or fail it.
QuietFetch ==
  /\ fetch' \in FetchRecords /\ transfer' \in TransferRecords /\ body' \in BodyRecords /\ dataChannel' \in ChannelRecords
  /\ owner' = owner /\ dataChannel'.in = dataChannel.in /\ dataChannel'.out = dataChannel.out
  /\ SameProgress(transfer', transfer) /\ transfer'.error \in {transfer.error, "failed"}
  /\ transfer.closed => transfer'.closed
  /\ dataChannel'.open => ~transfer'.closed
  /\ body'.got = body.got /\ (body'.state = "closed" => body.state = "closed")

LEMMA QuietKeeps == RTCInv /\ QuietFetch => RTCInv'
<1> SUFFICES ASSUME RTCInv, QuietFetch PROVE RTCInv'
  OBVIOUS
<1>1. RTCTypeOK'
  BY RTCTyped DEF RTCInv, QuietFetch, RTCTypeOK, FetchRecords, TransferRecords, BodyRecords, ChannelRecords, Frames, Replies
<1>2. OpenSound' /\ FramesSound'
  BY DEF RTCInv, QuietFetch, OpenSound, FramesSound
<1>3. FramesCounted'
  <2>1. InFlight' = InFlight /\ Credits' = Credits
    BY DEF InFlight, Credits, QuietFetch
  <2> QED
    BY <2>1 DEF RTCInv, QuietFetch, FramesCounted, SameProgress
<1>4. EndSound'
  BY DEF RTCInv, QuietFetch, EndSound, SameProgress
<1> QED
  BY <1>1, <1>2, <1>3, <1>4 DEF RTCInv

\* What closing leaves of the object.
LEMMA ClosingTyped ==
  ASSUME NEW t \in TransferRecords
  PROVE  /\ Closed(t) \in TransferRecords /\ Closed(t).closed /\ SameProgress(Closed(t), t)
         /\ Closed(t).error = t.error /\ Closed(t).stage = t.stage
BY DEF Closed, TransferRecords, SameProgress

\* A transfer fails without a frame moved, or notices nothing when it is closed.
LEMMA FailsQuiet ==
  ASSUME RTCInv, NEW t \in TransferRecords, SameProgress(t, transfer), t.error = transfer.error, t.closed = transfer.closed,
         TransferFails(t, "failed"), owner' = owner
  PROVE  QuietFetch
<1>0. /\ fetch \in FetchRecords /\ body \in BodyRecords /\ dataChannel \in ChannelRecords /\ OpenSound
  BY RTCTyped DEF RTCInv
<1>1. CASE t.closed
  BY <1>0, <1>1 DEF TransferFails, QuietFetch, OpenSound
<1>2. CASE ~t.closed
  <2> DEFINE f == [t EXCEPT !.error = "failed"]
  <2>1. f \in TransferRecords /\ SameProgress(f, t) /\ f.error = "failed"
    BY DEF TransferRecords, SameProgress
  <2>2. Closed(f) \in TransferRecords /\ Closed(f).closed /\ SameProgress(Closed(f), f) /\ Closed(f).error = "failed"
    BY <2>1, ClosingTyped
  <2>3. transfer' = Closed(f) /\ fetch' = Rejected(fetch) /\ body' = Woken(body) /\ dataChannel' = Shut
    BY <1>2 DEF TransferFails, Failed
  <2> HIDE DEF f
  <2>4. fetch' \in FetchRecords
    BY <1>0, <2>3 DEF Rejected, FetchRecords
  <2>5. body' \in BodyRecords /\ body'.got = body.got /\ (body'.state = "closed" => body.state = "closed")
    BY <1>0, <2>3 DEF Woken, BodyRecords
  <2>6. dataChannel' \in ChannelRecords /\ dataChannel'.in = dataChannel.in /\ dataChannel'.out = dataChannel.out /\ ~dataChannel'.open
    BY <1>0, <2>3 DEF Shut, ChannelRecords
  <2>7. SameProgress(transfer', transfer)
    BY <2>1, <2>2, <2>3 DEF SameProgress
  <2> QED
    BY <2>2, <2>3, <2>4, <2>5, <2>6, <2>7 DEF QuietFetch
<1> QED
  BY <1>1, <1>2 DEF TransferRecords

LEMMA TransferFailsQuiet == RTCInv /\ TransferFails(transfer, "failed") /\ owner' = owner => QuietFetch
BY RTCTyped, FailsQuiet DEF RTCInv, SameProgress

\* A step that changes the object only where QuietFetch does not look.
LEMMA GoesOnQuiet ==
  ASSUME RTCInv, transfer' \in TransferRecords, SameProgress(transfer', transfer),
         transfer'.error = transfer.error, transfer'.closed = transfer.closed,
         fetch' \in FetchRecords, UNCHANGED <<body, dataChannel, owner>>
  PROVE  QuietFetch
BY RTCTyped DEF RTCInv, QuietFetch, OpenSound

\* transportFetch and start(), the lease, the reader that waits or leaves, and the abort of a
\* request move no frame.
LEMMA SetupQuiet ==
  ASSUME RTCInv,
         \/ StartFetch \/ DirectSettles \/ PeerCreated \/ SetupStep \/ SetupFails \/ Renew \/ Renewed
         \/ \E answer \in Answers : Discovers(answer)
  PROVE  QuietFetch
<1>0. /\ fetch \in FetchRecords /\ body \in BodyRecords /\ dataChannel \in ChannelRecords /\ transfer \in TransferRecords
      /\ OpenSound /\ Rejected(fetch) \in FetchRecords
  BY RTCTyped DEF RTCInv, Rejected, FetchRecords
<1>u. UNCHANGED transfer => transfer' \in TransferRecords /\ SameProgress(transfer', transfer)
        /\ transfer'.error = transfer.error /\ transfer'.closed = transfer.closed
  BY <1>0 DEF SameProgress
<1>1. CASE StartFetch
  <2>1. fetch' \in FetchRecords
    BY <1>0, <1>1 DEF StartFetch, FetchRecords
  <2> QED
    BY <1>1, <1>u, <2>1, GoesOnQuiet DEF StartFetch
<1>2. CASE DirectSettles
  <2>1. fetch' \in FetchRecords
    BY <1>0, <1>2 DEF DirectSettles, FetchRecords
  <2> QED
    BY <1>2, <1>u, <2>1, GoesOnQuiet DEF DirectSettles
<1>3. CASE PeerCreated
  <2> DEFINE t == [transfer EXCEPT !.stage = "gathering", !.setupTimer = TRUE]
  <2>1. t \in TransferRecords /\ SameProgress(t, transfer) /\ t.error = transfer.error /\ t.closed = transfer.closed
    BY <1>0 DEF TransferRecords, SameProgress, Setup
  <2>2. (transfer' = t /\ fetch' = fetch) \/ (fetch' = Rejected(fetch) /\ UNCHANGED transfer)
    BY <1>3 DEF PeerCreated
  <2> HIDE DEF t
  <2> QED
    BY <1>0, <1>3, <1>u, <2>1, <2>2, GoesOnQuiet DEF PeerCreated
<1>4. CASE SetupStep
  <2>1. \A stage \in {"signaling", "answering"} : LET t == [transfer EXCEPT !.stage = stage] IN
          t \in TransferRecords /\ SameProgress(t, transfer) /\ t.error = transfer.error /\ t.closed = transfer.closed
    BY <1>0 DEF TransferRecords, SameProgress, Setup
  <2>2. CASE /\ \E stage \in {"signaling", "answering"} : transfer' = [transfer EXCEPT !.stage = stage]
             /\ UNCHANGED dataChannel
    BY <1>0, <1>4, <2>1, <2>2, GoesOnQuiet DEF SetupStep
  <2>3. CASE /\ transfer' = [transfer EXCEPT !.stage = "started", !.lease = "armed"]
             /\ dataChannel' = [dataChannel EXCEPT !.open = TRUE]
    <3>1. transfer' \in TransferRecords /\ SameProgress(transfer', transfer) /\ transfer'.error = transfer.error
          /\ transfer'.closed = transfer.closed
      BY <1>0, <2>3 DEF TransferRecords, SameProgress
    <3>2. dataChannel' \in ChannelRecords /\ dataChannel'.in = dataChannel.in /\ dataChannel'.out = dataChannel.out
      BY <1>0, <2>3 DEF ChannelRecords
    <3>3. ~transfer.closed /\ UNCHANGED <<fetch, body, owner>>
      BY <1>4 DEF SetupStep
    <3> QED
      BY <1>0, <3>1, <3>2, <3>3 DEF QuietFetch
  <2> QED
    BY <1>4, <2>2, <2>3 DEF SetupStep
<1>5. CASE SetupFails
  BY <1>5, TransferFailsQuiet DEF SetupFails
<1>6. CASE Renew
  <2>1. PICK lease \in {"renewing", "restarting"} : transfer' = [transfer EXCEPT !.lease = lease]
    BY <1>6 DEF Renew
  <2>2. transfer' \in TransferRecords /\ SameProgress(transfer', transfer) /\ transfer'.error = transfer.error
        /\ transfer'.closed = transfer.closed
    BY <1>0, <2>1 DEF TransferRecords, SameProgress
  <2> QED
    BY <1>0, <1>6, <2>2, GoesOnQuiet DEF Renew
<1>7. CASE Renewed
  <2>1. \A lease \in {"off", "armed"} : LET t == [transfer EXCEPT !.lease = lease] IN
          t \in TransferRecords /\ SameProgress(t, transfer) /\ t.error = transfer.error /\ t.closed = transfer.closed
    BY <1>0 DEF TransferRecords, SameProgress
  <2>2. CASE /\ \E lease \in {"off", "armed"} : transfer' = [transfer EXCEPT !.lease = lease]
             /\ UNCHANGED <<fetch, body, dataChannel>>
    BY <1>0, <1>7, <2>1, <2>2, GoesOnQuiet DEF Renewed
  <2>3. CASE TransferFails([transfer EXCEPT !.lease = "off"], "failed")
    BY <1>7, <2>1, <2>3, FailsQuiet DEF Renewed
  <2> QED
    BY <1>7, <2>2, <2>3 DEF Renewed
<1>8. ASSUME NEW answer \in Answers, Discovers(answer) PROVE QuietFetch
  <2> DEFINE t == [transfer EXCEPT !.stage = "creating"]
  <2>1. t \in TransferRecords /\ SameProgress(t, transfer) /\ t.error = transfer.error /\ t.closed = transfer.closed
    BY <1>0 DEF TransferRecords, SameProgress, Setup
  <2>2. (\E state \in {"direct", "transfer"} : fetch' = [fetch EXCEPT !.state = state])
        \/ fetch' = [fetch EXCEPT !.state = "refused", !.response = "resolved"] \/ fetch' = Rejected(fetch)
    BY <1>8 DEF Discovers
  <2>3. fetch' \in FetchRecords
    BY <1>0, <2>2 DEF FetchRecords
  <2>4. UNCHANGED transfer \/ transfer' = t
    BY <1>8 DEF Discovers
  <2>5. UNCHANGED <<body, dataChannel, owner>>
    BY <1>8 DEF Discovers
  <2> HIDE DEF t
  <2> QED
    BY <1>0, <1>u, <2>1, <2>3, <2>4, <2>5, GoesOnQuiet
<1> QED
  BY <1>1, <1>2, <1>3, <1>4, <1>5, <1>6, <1>7, <1>8

\* So do the reader that begins to wait, sees the error or leaves, and the abort of a request.
LEMMA ReaderQuiet ==
  ASSUME RTCInv, Read \/ CancelBody \/ AbortRequest \/ (Pull /\ transfer.error # "none" /\ UNCHANGED transfer)
  PROVE  QuietFetch
<1>0. /\ fetch \in FetchRecords /\ body \in BodyRecords /\ dataChannel \in ChannelRecords /\ transfer \in TransferRecords
      /\ OpenSound /\ Rejected(fetch) \in FetchRecords
  BY RTCTyped DEF RTCInv, Rejected, FetchRecords
<1>u. SameProgress(transfer, transfer)
  BY DEF SameProgress
<1>1. ASSUME NEW state \in {"pulling", "errored", "cancelled"}, body' = [body EXCEPT !.state = state]
      PROVE  body' \in BodyRecords /\ body'.got = body.got /\ body'.state # "closed"
  BY <1>0, <1>1 DEF BodyRecords
<1>2. CASE Read
  BY <1>0, <1>u, <1>1, <1>2 DEF Read, QuietFetch, OpenSound
<1>3. CASE CancelBody
  <2>1. dataChannel' \in ChannelRecords /\ dataChannel'.in = dataChannel.in /\ dataChannel'.out = dataChannel.out /\ ~dataChannel'.open
    BY <1>0, <1>3 DEF CancelBody, Shut, ChannelRecords
  <2>2. body' \in BodyRecords /\ body'.got = body.got /\ body'.state # "closed"
    BY <1>1, <1>3 DEF CancelBody
  <2> QED
    BY <1>0, <1>3, <2>1, <2>2, ClosingTyped DEF CancelBody, QuietFetch
<1>4. CASE AbortRequest
  <2>1. CASE TransferFails(transfer, "failed")
    BY <1>4, <2>1, TransferFailsQuiet DEF AbortRequest
  <2>2. CASE fetch' = Rejected(fetch) /\ UNCHANGED <<transfer, body, dataChannel>>
    BY <1>0, <1>4, <1>u, <2>2, GoesOnQuiet DEF AbortRequest
  <2> QED
    BY <1>4, <2>1, <2>2 DEF AbortRequest
<1>5. CASE Pull /\ transfer.error # "none" /\ UNCHANGED transfer
  <2>1. body' = [body EXCEPT !.state = "errored"] /\ UNCHANGED <<dataChannel, fetch, owner>>
    BY <1>5 DEF Pull
  <2> QED
    BY <1>0, <1>u, <1>1, <1>5, <2>1 DEF QuietFetch, OpenSound
<1> QED
  BY <1>2, <1>3, <1>4, <1>5

-----------------------------------------------------------------------------
(* The steps that move frames *)

\* What RTCInv says of the numbers, while the transfer is open.
LEMMA Numbers ==
  ASSUME RTCInv
  PROVE  /\ dataChannel.in \in Seq(Frames) /\ dataChannel.out \in Seq(Replies) /\ InFlight \in Nat /\ Credits \in Nat
         /\ transfer.queue \in Nat /\ transfer.received \in Nat /\ body.got \in Nat
         /\ owner.credits \in Nat /\ owner.sent \in Nat /\ owner.size \in Nat /\ owner.size <= MaxData
         /\ body.got + transfer.queue = transfer.received /\ transfer.received <= owner.sent /\ owner.sent <= owner.size
         /\ ~transfer.closed => transfer.received + InFlight = owner.sent
         /\ ~transfer.closed => InFlight + transfer.queue + Credits + owner.credits <= Window
<1>1. dataChannel.in \in Seq(Frames) /\ dataChannel.out \in Seq(Replies)
  BY RTCTyped DEF RTCInv, ChannelRecords
<1>2. InFlight \in Nat /\ Credits \in Nat
  BY <1>1, CountType DEF InFlight, Credits
<1>3. transfer.queue \in Nat /\ transfer.received \in Nat /\ body.got \in Nat
  BY RTCTyped, RTCBounds DEF RTCInv, TransferRecords, BodyRecords
<1>4. owner.credits \in Nat /\ owner.sent \in Nat /\ owner.size \in Nat /\ owner.size <= MaxData
  BY RTCTyped, RTCBounds DEF RTCInv, OwnerRecords
<1> QED
  BY <1>1, <1>2, <1>3, <1>4 DEF RTCInv, FramesCounted

\* Their types alone.
LEMMA NumberTypes ==
  ASSUME RTCInv
  PROVE  /\ InFlight \in Nat /\ Credits \in Nat /\ transfer.queue \in Nat /\ transfer.received \in Nat /\ body.got \in Nat
         /\ owner.credits \in Nat /\ owner.sent \in Nat /\ owner.size \in Nat /\ Window \in Nat /\ MaxData \in Nat
BY Numbers, RTCBounds

\* Shares of a window: one that moves from the second to the first, or one that is given up.
LEMMA Shares ==
  ASSUME NEW a \in Nat, NEW b \in Nat, NEW c \in Nat, NEW d \in Nat, NEW k \in Nat, NEW n \in Nat
  PROVE  /\ (a + k) + b + c + d <= n <=> a + (b + k) + c + d <= n
         /\ a + b + (c + k) + d <= n <=> a + b + c + (d + k) <= n
         /\ a + b + c + (d + k) <= n <=> (a + k) + b + c + d <= n
         /\ a + (b + k) + c + d <= n <=> a + b + (c + k) + d <= n
         /\ a + b + c + (d + k) <= n => d + k \in 0..n
         /\ a + (b + k) + c + d <= n => b + k \in 0..n
OBVIOUS

\* The owner sends, within its credits, what its phase allows.
LEMMA SendingKeeps ==
  ASSUME RTCInv, NEW frame \in Frames, OwnerSends(frame)
  PROVE  RTCInv'
<1> DEFINE one == IF frame = "data" THEN 1 ELSE 0
<1>0. /\ fetch \in FetchRecords /\ body \in BodyRecords /\ dataChannel \in ChannelRecords /\ transfer \in TransferRecords
      /\ owner \in OwnerRecords /\ OpenSound /\ FramesSound /\ FramesCounted /\ EndSound
  BY RTCTyped DEF RTCInv
<1>1. /\ dataChannel.open /\ ~transfer.closed /\ owner.phase # "done" /\ UNCHANGED <<fetch, transfer, body>>
      /\ dataChannel' = [dataChannel EXCEPT !.in = Append(@, frame)]
  BY <1>0 DEF OwnerSends, OpenSound
<1>2. dataChannel' \in ChannelRecords /\ dataChannel'.in = Append(dataChannel.in, frame) /\ dataChannel'.out = dataChannel.out
      /\ dataChannel'.open
  <2>1. Append(dataChannel.in, frame) \in Seq(Frames)
    BY Numbers
  <2> QED
    BY <1>0, <1>1, <2>1 DEF ChannelRecords
<1>3. /\ owner' \in OwnerRecords /\ owner'.size = owner.size /\ owner'.announced = owner.announced
      /\ owner'.sent = owner.sent + one /\ owner.credits = owner'.credits + one /\ owner'.sent <= owner'.size
      /\ frame \in {"done", "bad"} => owner'.phase = "done"
  <2>1. CASE frame = "data"
    <3>1. owner' = [owner EXCEPT !.sent = @ + 1, !.credits = @ - 1] /\ owner.sent < owner.size /\ owner.credits > 0
      BY <2>1 DEF OwnerSends
    <3>2. owner.sent + 1 \in 0..MaxData /\ owner.credits - 1 \in 0..Window
      BY <1>0, <3>1, RTCBounds DEF OwnerRecords
    <3>3. owner' \in OwnerRecords /\ owner'.size = owner.size /\ owner'.announced = owner.announced
          /\ owner'.sent = owner.sent + 1 /\ owner'.credits = owner.credits - 1
      BY <1>0, <3>1, <3>2 DEF OwnerRecords
    <3>4. owner.credits = owner'.credits + 1 /\ owner'.sent <= owner'.size
      BY <3>1, <3>3, NumberTypes
    <3> QED
      BY <2>1, <3>3, <3>4
  <2>2. CASE frame # "data"
    <3>1. \E to \in {"data", "done"} : owner' = [owner EXCEPT !.phase = to] /\ (frame \in {"done", "bad"} => to = "done")
      BY <2>2 DEF OwnerSends
    <3>2. owner.sent \in Nat /\ owner.credits \in Nat /\ owner.sent <= owner.size
      BY Numbers
    <3> QED
      BY <1>0, <2>2, <3>1, <3>2 DEF OwnerRecords
  <2> QED
    BY <2>1, <2>2
<1>4. InFlight' = InFlight + one /\ Credits' = Credits
  <2>1. Count(Append(dataChannel.in, frame), "data") = Count(dataChannel.in, "data") + one
    BY Numbers, CountAppend, SMTT(30) DEF Frames
  <2> QED
    BY <1>2, <2>1 DEF InFlight, Credits
<1>5. RTCTypeOK'
  BY <1>0, <1>1, <1>2, <1>3 DEF RTCTypeOK, FetchRecords, TransferRecords, BodyRecords, ChannelRecords, OwnerRecords, Frames, Replies
<1>6. OpenSound'
  BY <1>1 DEF OpenSound
<1>7. FramesSound'
  <2>1. Len(dataChannel'.in) = Len(dataChannel.in) + 1 /\ dataChannel'.in[Len(dataChannel.in) + 1] = frame
        /\ \A i \in 1..Len(dataChannel.in) : dataChannel'.in[i] = dataChannel.in[i]
    BY <1>2, Numbers
  <2>2. Len(dataChannel.in) \in Nat
    BY Numbers
  <2>3. \A i \in 1..Len(dataChannel.in) : dataChannel.in[i] \notin {"done", "bad"}
    BY <1>0, <1>1 DEF FramesSound
  <2> QED
    BY <1>3, <2>1, <2>2, <2>3 DEF FramesSound
<1>8. FramesCounted'
  <2> HIDE DEF one
  <2>1. transfer'.received + InFlight' = owner'.sent
    BY <1>1, <1>3, <1>4, Numbers, SMTT(30) DEF one
  <2>2. InFlight' + transfer'.queue + Credits' + owner'.credits <= Window
    <3>1. owner'.credits \in Nat /\ one \in Nat
      BY <1>3, RTCBounds DEF OwnerRecords, one
    <3>2. InFlight + transfer.queue + Credits + (owner'.credits + one) <= Window
      BY <1>1, <1>3, Numbers
    <3>3. InFlight' = InFlight + one /\ Credits' = Credits /\ transfer' = transfer
      BY <1>1, <1>4
    <3>4. (InFlight + one) + transfer.queue + Credits + owner'.credits <= Window
      BY <3>1, <3>2, NumberTypes, Shares
    <3> QED
      BY <3>3, <3>4
  <2>3. transfer'.received <= owner'.sent
    <3>1. one \in Nat /\ transfer.received <= owner.sent /\ transfer.received \in Nat /\ owner.sent \in Nat
      BY Numbers DEF one
    <3> QED
      BY <1>1, <1>3, <3>1
  <2> QED
    BY <1>0, <1>1, <1>3, <2>1, <2>2, <2>3 DEF FramesCounted
<1>9. EndSound'
  BY <1>0, <1>1, <1>3 DEF EndSound
<1> QED
  BY <1>5, <1>6, <1>7, <1>8, <1>9 DEF RTCInv

\* The owner receives a credit back, or the end of a transfer.
LEMMA CreditKeeps == RTCInv /\ OwnerReceives => RTCInv'
<1> SUFFICES ASSUME RTCInv, OwnerReceives PROVE RTCInv'
  OBVIOUS
<1> DEFINE one == IF Head(dataChannel.out) = "credit" THEN 1 ELSE 0
<1>0. /\ fetch \in FetchRecords /\ body \in BodyRecords /\ dataChannel \in ChannelRecords /\ transfer \in TransferRecords
      /\ owner \in OwnerRecords /\ OpenSound /\ FramesSound /\ FramesCounted /\ EndSound
  BY RTCTyped DEF RTCInv
<1>1. /\ dataChannel.open /\ ~transfer.closed /\ dataChannel.out # <<>> /\ UNCHANGED <<fetch, transfer, body>>
      /\ dataChannel' = [dataChannel EXCEPT !.out = Tail(@)]
      /\ owner' = IF Head(dataChannel.out) = "credit" THEN [owner EXCEPT !.credits = @ + 1] ELSE owner
  BY <1>0 DEF OwnerReceives, OpenSound
<1>2. Tail(dataChannel.out) \in Seq(Replies)
  BY <1>1, Numbers
<1>3. dataChannel' \in ChannelRecords /\ dataChannel'.in = dataChannel.in /\ dataChannel'.out = Tail(dataChannel.out)
      /\ dataChannel'.open
  BY <1>0, <1>1, <1>2 DEF ChannelRecords
<1>4. Credits = Credits' + one /\ InFlight' = InFlight /\ Credits' \in Nat
  <2>1. Count(dataChannel.out, "credit") = Count(Tail(dataChannel.out), "credit") + one
    BY <1>1, Numbers, CountTail
  <2>2. Count(Tail(dataChannel.out), "credit") \in Nat
    BY <1>2, CountType
  <2> QED
    BY <1>3, <2>1, <2>2 DEF InFlight, Credits
<1>5. owner' \in OwnerRecords /\ owner'.credits = owner.credits + one /\ owner'.sent = owner.sent
      /\ owner'.size = owner.size /\ owner'.announced = owner.announced /\ owner'.phase = owner.phase
  <2>1. CASE Head(dataChannel.out) = "credit"
    <3>1. owner.credits + 1 \in 0..Window
      <4>1. InFlight + transfer.queue + (Credits' + 1) + owner.credits <= Window
        BY <1>1, <1>4, <2>1, Numbers
      <4>2. InFlight + transfer.queue + Credits' + (owner.credits + 1) <= Window
        BY <1>4, <4>1, NumberTypes, Shares
      <4> QED
        BY <1>4, <4>2, NumberTypes, Shares
    <3> QED
      BY <1>0, <1>1, <2>1, <3>1 DEF OwnerRecords
  <2>2. CASE Head(dataChannel.out) # "credit"
    <3>1. owner' = owner /\ owner.credits \in Nat
      BY <1>1, <2>2, Numbers
    <3> QED
      BY <1>0, <2>2, <3>1
  <2> QED
    BY <2>1, <2>2
<1>6. RTCTypeOK'
  BY <1>0, <1>1, <1>3, <1>5 DEF RTCTypeOK, FetchRecords, TransferRecords, BodyRecords, ChannelRecords, OwnerRecords, Frames, Replies
<1>7. OpenSound' /\ FramesSound' /\ EndSound'
  BY <1>0, <1>1, <1>3, <1>5 DEF OpenSound, FramesSound, EndSound
<1>8. FramesCounted'
  <2> HIDE DEF one
  <2>1. one \in Nat
    BY DEF one
  <2>2. InFlight + transfer.queue + (Credits' + one) + owner.credits <= Window
    BY <1>1, <1>4, Numbers
  <2>3. InFlight' + transfer'.queue + Credits' + owner'.credits <= Window
    <3>1. InFlight' = InFlight /\ transfer'.queue = transfer.queue /\ owner'.credits = owner.credits + one /\ Credits' \in Nat
      BY <1>1, <1>4, <1>5
    <3>2. InFlight + transfer.queue + Credits' + (owner.credits + one) <= Window
      BY <2>1, <2>2, <3>1, NumberTypes, Shares
    <3> QED
      BY <3>1, <3>2
  <2> QED
    BY <1>0, <1>1, <1>4, <1>5, <2>3 DEF FramesCounted
<1> QED
  BY <1>6, <1>7, <1>8 DEF RTCInv

\* A complete transfer takes no notice of the end of its channel.
LEMMA LostKeeps == RTCInv /\ ChannelLost => RTCInv'
<1> SUFFICES ASSUME RTCInv, ChannelLost PROVE RTCInv'
  OBVIOUS
<1>0. /\ fetch \in FetchRecords /\ body \in BodyRecords /\ dataChannel \in ChannelRecords /\ transfer \in TransferRecords
      /\ owner \in OwnerRecords /\ OpenSound /\ FramesSound /\ FramesCounted /\ EndSound
  BY RTCTyped DEF RTCInv
<1>1. CASE ~transfer.complete
  BY <1>1, TransferFailsQuiet, QuietKeeps DEF ChannelLost
<1>2. CASE transfer.complete
  <2>1. dataChannel' = [in |-> <<>>, out |-> <<>>, open |-> FALSE] /\ UNCHANGED <<fetch, transfer, body, owner>>
    BY <1>2 DEF ChannelLost
  <2>2. InFlight' = 0 /\ Credits' = 0 /\ InFlight = 0
    BY <1>0, <1>2, <2>1, CountNone DEF InFlight, Credits, EndSound
  <2>3. RTCTypeOK'
    BY <1>0, <2>1 DEF RTCTypeOK, FetchRecords, TransferRecords, BodyRecords, ChannelRecords, OwnerRecords
  <2>4. OpenSound' /\ FramesSound' /\ EndSound'
    BY <1>0, <2>1 DEF OpenSound, FramesSound, EndSound
  <2>5. ~transfer.closed => 0 + transfer.queue + 0 + owner.credits <= Window
    BY <2>2, Numbers, RTCBounds
  <2>6. FramesCounted'
    BY <1>0, <2>1, <2>2, <2>5 DEF FramesCounted
  <2> QED
    BY <2>3, <2>4, <2>6 DEF RTCInv
<1> QED
  BY <1>0, <1>1, <1>2 DEF TransferRecords

-----------------------------------------------------------------------------
(* message() *)

\* The frames after the first keep their order, and count without it.
LEMMA RestOfFrames ==
  ASSUME RTCInv, dataChannel.in # <<>>, ~transfer.closed
  PROVE  /\ Head(dataChannel.in) \in Frames /\ Tail(dataChannel.in) \in Seq(Frames)
         /\ Len(Tail(dataChannel.in)) = Len(dataChannel.in) - 1 /\ Len(dataChannel.in) \in Nat
         /\ \A i \in 1..Len(Tail(dataChannel.in)) : Tail(dataChannel.in)[i] = dataChannel.in[i + 1]
         /\ Count(Tail(dataChannel.in), "data") \in Nat
         /\ InFlight = Count(Tail(dataChannel.in), "data") + IF Head(dataChannel.in) = "data" THEN 1 ELSE 0
         /\ ~transfer.complete
         /\ Head(dataChannel.in) \in {"done", "bad"} => owner.phase = "done" /\ Tail(dataChannel.in) = <<>>
<1>1. dataChannel.in \in Seq(Frames)
  BY Numbers
<1> DEFINE in == dataChannel.in
<1>2. /\ Head(in) \in Frames /\ Tail(in) \in Seq(Frames) /\ Len(Tail(in)) = Len(in) - 1 /\ Len(in) \in Nat
      /\ \A i \in 1..Len(Tail(in)) : Tail(in)[i] = in[i + 1]
  BY <1>1
<1>3. Count(Tail(in), "data") \in Nat
  BY <1>2, CountType
<1>4. InFlight = Count(Tail(in), "data") + IF Head(in) = "data" THEN 1 ELSE 0
  BY <1>1, CountTail DEF InFlight
<1>5. ~transfer.complete
  BY DEF RTCInv, EndSound
<1>6. ASSUME Head(in) \in {"done", "bad"} PROVE owner.phase = "done" /\ Tail(in) = <<>>
  <2>1. Head(in) = in[1] /\ 1 \in 1..Len(in)
    BY <1>1
  <2>2. 1 = Len(in) /\ owner.phase = "done"
    BY <1>6, <2>1 DEF RTCInv, FramesSound
  <2> DEFINE tail == Tail(in)
  <2>3. tail \in Seq(Frames) /\ Len(tail) = Len(in) - 1
    BY <1>2
  <2> HIDE DEF tail, in
  <2>4. Len(tail) = 0
    BY <2>2, <2>3
  <2>5. tail = <<>>
    BY <2>3, <2>4
  <2> QED
    BY <2>2, <2>5 DEF tail, in
<1> QED
  BY <1>2, <1>3, <1>4, <1>5, <1>6

\* What a step that takes the first frame has to show.
LEMMA TakenKeeps ==
  ASSUME RTCInv, dataChannel.in # <<>>, ~transfer.closed, owner' = owner,
         fetch' \in FetchRecords, transfer' \in TransferRecords, body' \in BodyRecords, NEW open \in BOOLEAN,
         dataChannel' = [dataChannel EXCEPT !.in = Tail(@), !.open = open], open => ~transfer'.closed,
         transfer'.error = transfer.error, body'.got = body.got, EndSound',
         transfer'.received = transfer.received + IF Head(dataChannel.in) = "data" THEN 1 ELSE 0,
         transfer'.queue = transfer.queue + IF Head(dataChannel.in) = "data" THEN 1 ELSE 0
  PROVE  RTCInv'
<1> DEFINE one == IF Head(dataChannel.in) = "data" THEN 1 ELSE 0
           rest == Count(Tail(dataChannel.in), "data")
<1>0. /\ dataChannel \in ChannelRecords /\ owner \in OwnerRecords /\ FramesSound /\ FramesCounted
  BY RTCTyped DEF RTCInv
<1>1. dataChannel' \in ChannelRecords /\ dataChannel'.in = Tail(dataChannel.in) /\ dataChannel'.out = dataChannel.out
      /\ dataChannel'.open = open
  BY <1>0, RestOfFrames DEF ChannelRecords
<1>2. RTCTypeOK'
  BY <1>0, <1>1 DEF RTCTypeOK, FetchRecords, TransferRecords, BodyRecords, ChannelRecords, OwnerRecords, Frames, Replies
<1>3. OpenSound'
  BY <1>1 DEF OpenSound
<1>4. FramesSound'
  <2> DEFINE in == dataChannel.in
             tail == Tail(in)
  <2>1. /\ Len(tail) = Len(in) - 1 /\ Len(in) \in Nat /\ \A i \in 1..Len(tail) : tail[i] = in[i + 1]
    BY RestOfFrames
  <2>2. \A i \in 1..Len(in) : in[i] \in {"done", "bad"} => i = Len(in) /\ owner.phase = "done"
    BY <1>0 DEF FramesSound
  <2> HIDE DEF in, tail
  <2>3. \A i \in 1..Len(tail) : tail[i] \in {"done", "bad"} => i = Len(tail) /\ owner.phase = "done"
    BY <2>1, <2>2
  <2> QED
    BY <1>1, <2>3 DEF FramesSound, in, tail
<1>5. InFlight' = rest /\ InFlight = rest + one /\ Credits' = Credits /\ rest \in Nat /\ one \in Nat
  BY <1>1, RestOfFrames DEF InFlight, Credits
<1> HIDE DEF one, rest
<1>6. transfer'.received = transfer.received + one /\ transfer'.queue = transfer.queue + one
  BY DEF one
<1>7. body'.got + transfer'.queue = transfer'.received
  <2>1. body.got + transfer.queue = transfer.received
    BY Numbers
  <2> QED
    BY <1>5, <1>6, <2>1, NumberTypes, SMTT(30)
<1>8. transfer'.received + rest = owner.sent
  <2>1. transfer.received + (rest + one) = owner.sent
    BY <1>5, Numbers
  <2> QED
    BY <1>5, <1>6, <2>1, NumberTypes
<1>9. transfer'.received <= owner.sent
  BY <1>5, <1>6, <1>8, NumberTypes
<1>10. rest + transfer'.queue + Credits + owner.credits <= Window
  <2>1. (rest + one) + transfer.queue + Credits + owner.credits <= Window
    BY <1>5, Numbers
  <2>2. rest + (transfer.queue + one) + Credits + owner.credits <= Window
    BY <1>5, <2>1, NumberTypes, Shares
  <2> QED
    BY <1>6, <2>2
<1>11. FramesCounted'
  BY <1>0, <1>5, <1>7, <1>8, <1>9, <1>10 DEF FramesCounted
<1> QED
  BY <1>2, <1>3, <1>4, <1>11 DEF RTCInv

\* Headers resolve the promise of the response and open its body, or close a transfer without one.
LEMMA HeadersKeep ==
  ASSUME RTCInv, dataChannel.in # <<>>, ~transfer.closed, Head(dataChannel.in) = "headers", MessageHeaders, owner' = owner
  PROVE  RTCInv'
<1>0. /\ fetch \in FetchRecords /\ body \in BodyRecords /\ transfer \in TransferRecords /\ owner \in OwnerRecords
      /\ dataChannel \in ChannelRecords /\ EndSound
  BY RTCTyped DEF RTCInv
<1>1. CASE transfer.headers
  BY <1>1, TransferFailsQuiet, QuietKeeps DEF MessageHeaders
<1>2. CASE ~transfer.headers
  <2> DEFINE expected == IF owner.announced THEN owner.size ELSE transfer.expected
             t == [transfer EXCEPT !.headers = TRUE, !.setupTimer = FALSE, !.expected = expected]
  <2>1. expected \in 0..Unannounced /\ expected = IF owner.announced THEN owner.size ELSE Unannounced
    BY <1>0, <1>2, RTCBounds DEF OwnerRecords, TransferRecords, EndSound
  <2>2. /\ t \in TransferRecords /\ t.headers /\ t.complete = transfer.complete /\ t.expected = expected
        /\ t.received = transfer.received /\ t.queue = transfer.queue /\ t.error = transfer.error /\ t.closed = transfer.closed
    <3> HIDE DEF expected
    <3> QED
      BY <1>0, <2>1 DEF TransferRecords
  <2>3. /\ fetch' = [fetch EXCEPT !.response = "resolved"]
        /\ transfer' = IF Bodyless THEN Closed(t) ELSE t
        /\ body' = [body EXCEPT !.state = IF Bodyless THEN "cancelled" ELSE "readable"]
        /\ dataChannel' = [dataChannel EXCEPT !.in = Tail(@), !.open = ~Bodyless]
    BY <1>2 DEF MessageHeaders
  <2> HIDE DEF t, expected
  <2>4. /\ transfer' \in TransferRecords /\ SameProgress(transfer', t) /\ transfer'.error = transfer.error
        /\ ~Bodyless => ~transfer'.closed
    BY <2>2, <2>3, ClosingTyped DEF SameProgress
  <2>5. fetch' \in FetchRecords
    BY <1>0, <2>3 DEF FetchRecords
  <2>6. body' \in BodyRecords /\ body'.got = body.got /\ body'.state # "closed"
    BY <1>0, <2>3 DEF BodyRecords
  <2>7. ~transfer.complete
    BY RestOfFrames
  <2>8. EndSound'
    BY <2>1, <2>2, <2>4, <2>6, <2>7 DEF EndSound, SameProgress
  <2>9. transfer'.received = transfer.received + 0 /\ transfer'.queue = transfer.queue + 0
    <3>1. transfer'.received = transfer.received /\ transfer'.queue = transfer.queue
      BY <2>2, <2>4 DEF SameProgress
    <3> QED
      BY <3>1, NumberTypes
  <2>10. (~Bodyless) \in BOOLEAN
    BY DEF Bodyless
  <2> QED
    BY <2>3, <2>4, <2>5, <2>6, <2>8, <2>9, <2>10, TakenKeeps
<1> QED
  BY <1>0, <1>1, <1>2 DEF TransferRecords

\* A frame of data finds room: the window is never what fails a transfer.
LEMMA DataKeeps ==
  ASSUME RTCInv, dataChannel.in # <<>>, ~transfer.closed, Head(dataChannel.in) = "data", MessageData, owner' = owner
  PROVE  RTCInv'
<1>0. /\ fetch \in FetchRecords /\ body \in BodyRecords /\ transfer \in TransferRecords /\ owner \in OwnerRecords
      /\ dataChannel \in ChannelRecords /\ EndSound /\ OpenSound
  BY RTCTyped DEF RTCInv
<1> DEFINE rest == Count(Tail(dataChannel.in), "data")
<1>1. InFlight = rest + 1 /\ rest \in Nat /\ ~transfer.complete
  BY RestOfFrames
<1> HIDE DEF rest
<1>2. transfer.queue < Window /\ transfer.queue + 1 \in 0..Window
  <2>1. (rest + 1) + transfer.queue + Credits + owner.credits <= Window
    BY <1>1, Numbers
  <2>2. transfer.queue + 1 \in 0..Window
    BY <1>1, <2>1, NumberTypes, Shares
  <2> QED
    BY <2>2, NumberTypes
<1>3. transfer.received + 1 \in 0..MaxData + 1
  <2>1. transfer.received <= owner.sent /\ owner.sent <= owner.size /\ owner.size <= MaxData
    BY Numbers
  <2> QED
    BY <2>1, NumberTypes
<1>4. CASE TransferFails(transfer, "failed")
  BY <1>4, TransferFailsQuiet, QuietKeeps
<1>5. CASE /\ transfer' = [transfer EXCEPT !.received = @ + 1, !.queue = @ + 1]
           /\ dataChannel' = [dataChannel EXCEPT !.in = Tail(@)]
           /\ UNCHANGED <<fetch, body>>
  <2>1. /\ transfer' \in TransferRecords /\ transfer'.received = transfer.received + 1 /\ transfer'.queue = transfer.queue + 1
        /\ transfer'.headers = transfer.headers /\ transfer'.complete = transfer.complete
        /\ transfer'.expected = transfer.expected /\ transfer'.error = transfer.error /\ transfer'.closed = transfer.closed
    BY <1>0, <1>2, <1>3, <1>5 DEF TransferRecords
  <2>2. body.state # "closed"
    BY <1>0, <1>1 DEF EndSound
  <2>3. EndSound'
    BY <1>0, <1>1, <1>5, <2>1, <2>2 DEF EndSound
  <2>4. dataChannel' = [dataChannel EXCEPT !.in = Tail(@), !.open = dataChannel.open] /\ dataChannel.open \in BOOLEAN
    BY <1>0, <1>5 DEF ChannelRecords
  <2> QED
    BY <1>0, <1>5, <2>1, <2>3, <2>4, TakenKeeps
<1>6. ~(transfer.queue >= Window)
  BY <1>2, NumberTypes
<1> QED
  BY <1>1, <1>4, <1>5, <1>6 DEF MessageData

\* The end completes a transfer that has all that was sent, and all that was announced.
LEMMA DoneKeeps ==
  ASSUME RTCInv, dataChannel.in # <<>>, ~transfer.closed, Head(dataChannel.in) = "done", MessageDone, owner' = owner
  PROVE  RTCInv'
<1>0. /\ fetch \in FetchRecords /\ body \in BodyRecords /\ transfer \in TransferRecords /\ owner \in OwnerRecords
      /\ dataChannel \in ChannelRecords /\ EndSound /\ OpenSound
  BY RTCTyped DEF RTCInv
<1>1. CASE TransferFails(transfer, "failed")
  BY <1>1, TransferFailsQuiet, QuietKeeps
<1>2. CASE /\ transfer.headers /\ ~transfer.complete
           /\ transfer.expected = Unannounced \/ transfer.received = transfer.expected
           /\ transfer' = [transfer EXCEPT !.complete = TRUE]
           /\ dataChannel' = [dataChannel EXCEPT !.in = Tail(@)]
           /\ UNCHANGED <<fetch, body>>
  <2>1. /\ transfer' \in TransferRecords /\ transfer'.received = transfer.received /\ transfer'.queue = transfer.queue
        /\ transfer'.headers = transfer.headers /\ transfer'.complete
        /\ transfer'.expected = transfer.expected /\ transfer'.error = transfer.error /\ transfer'.closed = transfer.closed
    BY <1>0, <1>2 DEF TransferRecords
  <2>2. Tail(dataChannel.in) = <<>> /\ owner.phase = "done" /\ InFlight = Count(Tail(dataChannel.in), "data") + 0
    BY RestOfFrames
  <2>3. InFlight = 0
    <3>1. Count(<<>>, "data") = 0
      BY CountNone
    <3>2. InFlight = 0 + 0
      BY <2>2, <3>1
    <3> QED
      BY <3>2
  <2>4. transfer.received = owner.sent
    <3>1. transfer.received + 0 = owner.sent
      BY <2>3, Numbers
    <3> QED
      BY <3>1, NumberTypes
  <2>5. owner.announced => transfer.received = owner.size
    <3>1. owner.announced => transfer.expected = owner.size
      BY <1>0, <1>2 DEF EndSound
    <3>2. owner.size # Unannounced
      BY <1>0, RTCBounds DEF OwnerRecords
    <3> QED
      BY <1>2, <3>1, <3>2
  <2>6. dataChannel'.in = <<>>
    BY <1>0, <1>2, <2>2 DEF ChannelRecords
  <2>7. body.state # "closed"
    BY <1>0, <1>2 DEF EndSound
  <2>8. EndSound'
    BY <1>0, <1>2, <2>1, <2>2, <2>4, <2>5, <2>6, <2>7 DEF EndSound
  <2>9. dataChannel' = [dataChannel EXCEPT !.in = Tail(@), !.open = dataChannel.open] /\ dataChannel.open \in BOOLEAN
    BY <1>0, <1>2 DEF ChannelRecords
  <2>10. dataChannel.open => ~transfer'.closed
    BY <1>0, <2>1 DEF OpenSound
  <2>11. transfer'.received = transfer.received + 0 /\ transfer'.queue = transfer.queue + 0
    BY <2>1, NumberTypes
  <2> QED
    BY <1>0, <1>2, <2>1, <2>8, <2>9, <2>10, <2>11, TakenKeeps
<1> QED
  BY <1>1, <1>2 DEF MessageDone

\* Whatever arrives is handled soundly.
LEMMA MessageKeeps == RTCInv /\ Message => RTCInv'
<1> SUFFICES ASSUME RTCInv, Message PROVE RTCInv'
  OBVIOUS
<1>1. ~transfer.closed /\ dataChannel.in # <<>> /\ owner' = owner
  BY DEF Message
<1>2. CASE Head(dataChannel.in) = "headers"
  BY <1>1, <1>2, HeadersKeep DEF Message
<1>3. CASE Head(dataChannel.in) = "data"
  BY <1>1, <1>3, DataKeeps DEF Message
<1>4. CASE Head(dataChannel.in) = "done"
  BY <1>1, <1>4, DoneKeeps DEF Message
<1>5. CASE Head(dataChannel.in) \notin {"headers", "data", "done"}
  <2>1. TransferFails(transfer, "failed")
    BY <1>5 DEF Message
  <2> QED
    BY <1>1, <2>1, TransferFailsQuiet, QuietKeeps
<1> QED
  BY <1>2, <1>3, <1>4, <1>5

-----------------------------------------------------------------------------
(* pull() *)

\* What is queued may be read without exceeding the size.
LEMMA OneMore ==
  ASSUME NEW got \in Nat, NEW queue \in Nat, NEW received \in Nat, NEW told \in Nat, NEW size \in Nat, NEW bound \in Nat,
         got + queue = received, received <= told, told <= size, size <= bound, queue > 0
  PROVE  got + 1 \in 0..bound
OBVIOUS

LEMMA OneMoved == \A got, queue \in Nat : (got + 1) + (queue - 1) = got + queue
OBVIOUS

\* A chunk goes to the reader, and its credit back.
LEMMA ChunkKeeps ==
  ASSUME RTCInv, transfer.queue > 0, UNCHANGED <<fetch, owner>>,
         body' = [state |-> "readable", got |-> body.got + 1],
         transfer' = [transfer EXCEPT !.queue = @ - 1],
         dataChannel' = IF dataChannel.open THEN [dataChannel EXCEPT !.out = Append(@, "credit")] ELSE dataChannel
  PROVE  RTCInv'
<1>0. /\ fetch \in FetchRecords /\ body \in BodyRecords /\ transfer \in TransferRecords /\ owner \in OwnerRecords
      /\ dataChannel \in ChannelRecords /\ EndSound /\ OpenSound /\ FramesSound /\ FramesCounted
  BY RTCTyped DEF RTCInv
<1>1. transfer.queue - 1 \in 0..Window /\ transfer.queue = (transfer.queue - 1) + 1
  BY <1>0, RTCBounds DEF TransferRecords
<1>2. /\ transfer' \in TransferRecords /\ transfer'.received = transfer.received /\ transfer'.queue = transfer.queue - 1
      /\ transfer'.headers = transfer.headers /\ transfer'.complete = transfer.complete
      /\ transfer'.expected = transfer.expected /\ transfer'.error = transfer.error /\ transfer'.closed = transfer.closed
  BY <1>0, <1>1 DEF TransferRecords
<1>3. body.got + 1 \in 0..MaxData
  <2>1. body.got + transfer.queue = transfer.received /\ transfer.received <= owner.sent /\ owner.sent <= owner.size
        /\ owner.size <= MaxData
    BY Numbers
  <2> QED
    BY <2>1, NumberTypes, OneMore
<1>4. body' \in BodyRecords /\ body'.got = body.got + 1 /\ body'.state = "readable"
  BY <1>3 DEF BodyRecords
<1>5. Append(dataChannel.out, "credit") \in Seq(Replies)
        /\ Count(Append(dataChannel.out, "credit"), "credit") = Count(dataChannel.out, "credit") + 1
  <2>1. "credit" \in Replies /\ dataChannel.out \in Seq(Replies)
    BY Numbers DEF Replies
  <2> QED
    BY <2>1, CountAppend
<1>6. dataChannel' \in ChannelRecords /\ dataChannel'.in = dataChannel.in /\ dataChannel'.open = dataChannel.open
      /\ dataChannel'.out \in {dataChannel.out, Append(dataChannel.out, "credit")}
  BY <1>0, <1>5 DEF ChannelRecords
<1>7. RTCTypeOK'
  BY <1>0, <1>2, <1>4, <1>6 DEF RTCTypeOK, FetchRecords, TransferRecords, BodyRecords, ChannelRecords, OwnerRecords, Frames, Replies
<1>8. OpenSound' /\ FramesSound'
  BY <1>0, <1>2, <1>6 DEF OpenSound, FramesSound
<1>9. EndSound'
  <2>1. body.got # body'.got
    BY <1>4, NumberTypes
  <2> QED
    BY <1>0, <1>2, <1>4, <1>6 DEF EndSound
<1>10. InFlight' = InFlight /\ Credits' \in {Credits, Credits + 1}
  BY <1>5, <1>6 DEF InFlight, Credits
<1>11. ~transfer.closed => InFlight + (transfer.queue - 1) + Credits' + owner.credits <= Window
  <2> DEFINE q == transfer.queue - 1
  <2>1. q \in Nat /\ transfer.queue = q + 1
    BY <1>1, RTCBounds
  <2> HIDE DEF q
  <2>2. ASSUME ~transfer.closed PROVE InFlight + q + (Credits + 1) + owner.credits <= Window
    <3>1. InFlight + (q + 1) + Credits + owner.credits <= Window
      BY <2>1, <2>2, Numbers
    <3> QED
      BY <2>1, <3>1, NumberTypes, Shares
  <2>3. ASSUME InFlight + q + (Credits + 1) + owner.credits <= Window PROVE InFlight + q + Credits + owner.credits <= Window
    BY <2>1, <2>3, NumberTypes
  <2> QED
    BY <1>10, <2>2, <2>3 DEF q
<1>12. FramesCounted'
  <2>1. (body.got + 1) + (transfer.queue - 1) = transfer.received
    <3>1. body.got + transfer.queue = transfer.received
      BY Numbers
    <3>2. (body.got + 1) + (transfer.queue - 1) = body.got + transfer.queue
      BY NumberTypes, OneMoved
    <3> QED
      BY <3>1, <3>2
  <2> QED
    BY <1>0, <1>2, <1>4, <1>10, <1>11, <2>1 DEF FramesCounted
<1> QED
  BY <1>7, <1>8, <1>9, <1>12 DEF RTCInv

\* The body ends once a complete transfer has given all it queued.
LEMMA BodyEndKeeps ==
  ASSUME RTCInv, transfer.queue = 0, transfer.complete, UNCHANGED <<fetch, owner>>,
         body' = [body EXCEPT !.state = "closed"], transfer' = Closed(transfer),
         dataChannel' = [dataChannel EXCEPT !.open = FALSE, !.out = IF dataChannel.open THEN Append(@, "done") ELSE @]
  PROVE  RTCInv'
<1>0. /\ fetch \in FetchRecords /\ body \in BodyRecords /\ transfer \in TransferRecords /\ owner \in OwnerRecords
      /\ dataChannel \in ChannelRecords /\ EndSound /\ OpenSound /\ FramesSound /\ FramesCounted
  BY RTCTyped DEF RTCInv
<1>1. /\ transfer' \in TransferRecords /\ transfer'.closed /\ transfer'.received = transfer.received
      /\ transfer'.queue = transfer.queue /\ transfer'.headers = transfer.headers /\ transfer'.complete = transfer.complete
      /\ transfer'.expected = transfer.expected /\ transfer'.error = transfer.error
  BY <1>0, ClosingTyped DEF SameProgress
<1>2. body' \in BodyRecords /\ body'.got = body.got
  BY <1>0 DEF BodyRecords
<1>3. dataChannel' \in ChannelRecords /\ dataChannel'.in = dataChannel.in /\ ~dataChannel'.open
  <2>1. Append(dataChannel.out, "done") \in Seq(Replies)
    <3>1. "done" \in Replies /\ dataChannel.out \in Seq(Replies)
      BY Numbers DEF Replies
    <3> QED
      BY <3>1
  <2> QED
    BY <1>0, <2>1 DEF ChannelRecords
<1>4. RTCTypeOK'
  BY <1>0, <1>1, <1>2, <1>3 DEF RTCTypeOK, FetchRecords, TransferRecords, BodyRecords, ChannelRecords, OwnerRecords, Frames, Replies
<1>5. OpenSound' /\ FramesSound'
  BY <1>0, <1>1, <1>3 DEF OpenSound, FramesSound
<1>6. FramesCounted'
  BY <1>0, <1>1, <1>2 DEF FramesCounted
<1>7. EndSound'
  BY <1>0, <1>1, <1>3 DEF EndSound
<1> QED
  BY <1>4, <1>5, <1>6, <1>7 DEF RTCInv

LEMMA PullKeeps == RTCInv /\ Pull => RTCInv'
<1> SUFFICES ASSUME RTCInv, Pull PROVE RTCInv'
  OBVIOUS
<1>1. CASE transfer.error # "none" /\ UNCHANGED transfer
  BY <1>1, ReaderQuiet, QuietKeeps
<1>2. CASE /\ transfer.queue > 0 /\ body' = [state |-> "readable", got |-> body.got + 1]
           /\ transfer' = [transfer EXCEPT !.queue = @ - 1]
           /\ dataChannel' = IF dataChannel.open THEN [dataChannel EXCEPT !.out = Append(@, "credit")] ELSE dataChannel
  BY <1>2, ChunkKeeps DEF Pull
<1>3. CASE /\ transfer.queue = 0 /\ transfer.complete
           /\ body' = [body EXCEPT !.state = "closed"] /\ transfer' = Closed(transfer)
           /\ dataChannel' = [dataChannel EXCEPT !.open = FALSE, !.out = IF dataChannel.open THEN Append(@, "done") ELSE @]
  BY <1>3, BodyEndKeeps DEF Pull
<1> QED
  BY <1>1, <1>2, <1>3 DEF Pull

-----------------------------------------------------------------------------
(* The transfer as a whole *)

\* Before the first request nothing is on its way.
LEMMA RTCStart == RTCInit => RTCInv
<1> SUFFICES ASSUME RTCInit PROVE RTCInv
  OBVIOUS
<1>1. RTCTypeOK
  BY RTCBounds DEF RTCInit, RTCTypeOK, Setup
<1>2. InFlight = 0 /\ Credits = 0
  BY CountNone DEF RTCInit, InFlight, Credits
<1>3. OpenSound /\ FramesSound /\ EndSound
  BY DEF RTCInit, OpenSound, FramesSound, EndSound
<1>4. FramesCounted
  BY <1>2, RTCBounds DEF RTCInit, FramesCounted
<1> QED
  BY <1>1, <1>3, <1>4 DEF RTCInv

LEMMA RTCStep == RTCInv /\ [RTCNext]_rtcVars => RTCInv'
<1> SUFFICES ASSUME RTCInv, [RTCNext]_rtcVars PROVE RTCInv'
  OBVIOUS
<1>1. CASE \/ StartFetch \/ DirectSettles \/ PeerCreated \/ SetupStep \/ SetupFails \/ Renew \/ Renewed
           \/ \E answer \in Answers : Discovers(answer)
  BY <1>1, SetupQuiet, QuietKeeps
<1>2. CASE Read \/ CancelBody \/ AbortRequest
  BY <1>2, ReaderQuiet, QuietKeeps
<1>3. ASSUME NEW frame \in Frames, OwnerSends(frame) PROVE RTCInv'
  BY <1>3, SendingKeeps
<1>4. CASE UNCHANGED rtcVars
  <2>1. RTCTypeOK' /\ InFlight' = InFlight /\ Credits' = Credits
    BY <1>4 DEF RTCInv, RTCTypeOK, rtcVars, InFlight, Credits
  <2> QED
    BY <1>4, <2>1 DEF RTCInv, rtcVars, OpenSound, FramesSound, FramesCounted, EndSound
<1> QED
  BY <1>1, <1>2, <1>3, <1>4, CreditKeeps, LostKeeps, MessageKeeps, PullKeeps DEF RTCNext, Frames

LEMMA RTCInvariant == RTCSpec => []RTCInv
BY RTCStart, RTCStep, PTL DEF RTCSpec

\* A body that ends without an error has all that the owner sent, and all that it announced.
THEOREM TruthfulTransfer == RTCSpec => []TransferTruthful
<1>1. RTCInv => TransferTruthful
  <2> SUFFICES ASSUME RTCInv, body.state = "closed" PROVE TransferTruthful
    BY DEF TransferTruthful
  <2>1. transfer.complete /\ transfer.queue = 0 /\ owner.phase = "done" /\ transfer.received = owner.sent
        /\ (owner.announced => transfer.received = owner.size)
    BY DEF RTCInv, EndSound
  <2>2. body.got + 0 = transfer.received
    BY <2>1, Numbers
  <2>3. body.got = transfer.received
    BY <2>2, NumberTypes
  <2> QED
    BY <2>1, <2>3 DEF TransferTruthful
<1> QED
  BY <1>1, RTCInvariant, PTL

\* Whatever is on its way, queued, given back or not yet used of the owner's credits fits into
\* the receive window, so that no transfer fails because of it.
THEOREM WindowNeverOverrun == RTCSpec => []WindowSuffices
<1>1. RTCInv => WindowSuffices
  BY DEF RTCInv, FramesCounted, WindowSuffices
<1> QED
  BY <1>1, RTCInvariant, PTL

-----------------------------------------------------------------------------
(* The capture of a command *)

\* Who has subscribed has a channel. Channels are open as long as something may be captured;
\* one that closed did so after the last byte of its stream.
ReadersPlaced == \A r \in Readers : reader[r].of = "none" => reader[r].state = "idle" /\ ~reader[r].waiting
EndsPlaced ==
  /\ command.settled => phase = "closed"
  /\ \A c \in Channels : channel[c].state = "open" => ~command.settled /\ ~command.limited
  /\ ~command.settled /\ ~command.limited =>
       channel["log"].state = "open" /\ \A s \in Streams \ ended : channel[s].state = "open"
  /\ \A s \in Streams : channel[s].state = "closed" => s \in ended \/ phase = "closed"

\* What was captured of a stream is what was sent of it, until the limit.
CapturePlaced ==
  /\ \A c \in Channels : \A i \in DOMAIN channel[c].values :
       channel[c].values[i].to <= sent[channel[c].values[i].stream]
  /\ \A s \in Streams : channel[s].state \in {"open", "closed"} => Covers(channel[s].values, sent[s])

CommandInv == CommandTypeOK /\ ReadersSeeAll /\ LogInterleaves /\ ReadersPlaced /\ EndsPlaced /\ CapturePlaced

\* A channel that is not open stays as it is; an open one may get a chunk, and may end.
Grows(ch, new) ==
  /\ new \in ReplayChannels
  /\ ch.state # "open" => new = ch
  /\ new.values = ch.values \/ \E x \in Chunks : new.values = Append(ch.values, x)

\* What ReadersSeeAll asks of a reader of a channel.
Sees(me, ch) ==
  /\ me.state = "reading" => ch.state # "failed" /\ me.got \o me.queue = ch.values
  /\ me.state = "closed" => ch.state = "closed" /\ me.got = ch.values
  /\ me.state = "failed" => /\ ch.state = "failed" /\ me.queue = <<>>
                            /\ me.got = SubSeq(ch.values, 1, Len(me.got)) /\ Len(me.got) <= Len(ch.values)
  /\ me.waiting => me.state = "reading" /\ ch.state = "open" /\ me.queue = <<>>

\* The beginning of a sequence.
LEMMA Beginning ==
  ASSUME NEW S, NEW a \in Seq(S), NEW b \in Seq(S)
  PROVE  a = SubSeq(a \o b, 1, Len(a)) /\ Len(a) <= Len(a \o b) /\ a \o b \in Seq(S)
<1>1. a \o b \in Seq(S) /\ Len(a \o b) = Len(a) + Len(b) /\ \A i \in 1..Len(a) : (a \o b)[i] = a[i]
  OBVIOUS
<1>2. Len(SubSeq(a \o b, 1, Len(a))) = Len(a) /\ \A i \in 1..Len(a) : SubSeq(a \o b, 1, Len(a))[i] = a[i]
  BY <1>1
<1>3. SubSeq(a \o b, 1, Len(a)) \in Seq(S)
  BY <1>1
<1> QED
  BY <1>1, <1>2, <1>3

\* Three sequences in a row.
LEMMA InARow ==
  ASSUME NEW S, NEW a \in Seq(S), NEW b \in Seq(S), NEW c \in Seq(S)
  PROVE  a \o (b \o c) = (a \o b) \o c
<1>1. /\ a \o b \in Seq(S) /\ b \o c \in Seq(S) /\ a \o (b \o c) \in Seq(S) /\ (a \o b) \o c \in Seq(S)
      /\ Len(a \o b) = Len(a) + Len(b) /\ Len(b \o c) = Len(b) + Len(c)
  OBVIOUS
<1>2. Len(a \o (b \o c)) = Len((a \o b) \o c)
  BY <1>1
<1>3. ASSUME NEW i \in 1..Len(a \o (b \o c)) PROVE (a \o (b \o c))[i] = ((a \o b) \o c)[i]
  <2>1. CASE i <= Len(a)
    BY <1>1, <2>1
  <2>2. CASE i > Len(a) /\ i <= Len(a) + Len(b)
    BY <1>1, <2>2
  <2>3. CASE i > Len(a) + Len(b)
    BY <1>1, <2>3
  <2> QED
    BY <1>1, <2>1, <2>2, <2>3
<1> QED
  BY <1>1, <1>2, <1>3

\* A chunk that arrives is read or waits in the queue.
LEMMA ReaderEnqueues ==
  ASSUME NEW r \in Subscribers, NEW added \in Seq(Chunks), NEW values \in Seq(Chunks),
         r.state = "reading", r.got \o r.queue = values, r.waiting => r.queue = <<>>
  PROVE  LET new == Enqueued(r, added)
         IN /\ new \in Subscribers /\ new.of = r.of /\ new.state = "reading" /\ new.got \o new.queue = values \o added
            /\ new.waiting => r.waiting /\ new.queue = <<>>
            /\ r.waiting /\ added = <<>> => new.waiting
<1>0. r.got \in Seq(Chunks) /\ r.queue \in Seq(Chunks) /\ <<>> \in Seq(Chunks)
  BY DEF Subscribers
<1>1. CASE r.waiting /\ added # <<>>
  <2> DEFINE new == [r EXCEPT !.got = r.got \o added, !.waiting = FALSE]
  <2>1. Enqueued(r, added) = new
    BY <1>1 DEF Enqueued
  <2>2. r.got \o added \in Seq(Chunks) /\ r.queue = <<>>
    BY <1>0, <1>1
  <2>3. /\ new \in Subscribers /\ new.of = r.of /\ new.state = "reading" /\ ~new.waiting
        /\ new.got = r.got \o added /\ new.queue = <<>>
    BY <2>2 DEF Subscribers
  <2>4. r.got = values
    BY <1>0, <2>2
  <2>5. (r.got \o added) \o <<>> = values \o added
    BY <1>0, <2>2, <2>4
  <2> HIDE DEF new
  <2> QED
    BY <1>1, <2>1, <2>3, <2>5
<1>2. CASE ~(r.waiting /\ added # <<>>)
  <2> DEFINE new == [r EXCEPT !.queue = r.queue \o added]
  <2>1. Enqueued(r, added) = new
    BY <1>2 DEF Enqueued
  <2>2. r.queue \o added \in Seq(Chunks)
    BY <1>0
  <2>3. /\ new \in Subscribers /\ new.of = r.of /\ new.state = "reading" /\ new.waiting = r.waiting
        /\ new.got = r.got /\ new.queue = r.queue \o added
    BY <2>2 DEF Subscribers
  <2>4. r.got \o (r.queue \o added) = (r.got \o r.queue) \o added
    <3> DEFINE got == r.got
               queue == r.queue
    <3>1. got \in Seq(Chunks) /\ queue \in Seq(Chunks) /\ added \in Seq(Chunks)
      BY <1>0
    <3> HIDE DEF got, queue
    <3>2. got \o (queue \o added) = (got \o queue) \o added
      BY <3>1, InARow
    <3> QED
      BY <3>2 DEF got, queue
  <2>5. r.waiting => r.queue \o added = <<>>
    BY <1>0, <1>2
  <2> HIDE DEF new
  <2> QED
    BY <1>2, <2>1, <2>3, <2>4, <2>5
<1> QED
  BY <1>1, <1>2

\* The stream of a reader that has all chunks ends, or does not.
LEMMA ReaderEnds ==
  ASSUME NEW r \in Subscribers, NEW ch \in ReplayChannels, r.state = "reading", r.got \o r.queue = ch.values,
         r.waiting => r.queue = <<>>
  PROVE  Ended(r, ch.state) \in Subscribers /\ Ended(r, ch.state).of = r.of /\ Sees(Ended(r, ch.state), ch)
<1>0. r.got \in Seq(Chunks) /\ r.queue \in Seq(Chunks) /\ <<>> \in Seq(Chunks) /\ ch.values \in Seq(Chunks)
      /\ ch.state \in {"open", "closed", "failed"}
  BY DEF Subscribers, ReplayChannels
<1>1. CASE ch.state = "open" \/ (ch.state = "closed" /\ ~r.waiting)
  <2>1. Ended(r, ch.state) = r
    BY <1>1 DEF Ended
  <2> QED
    BY <1>1, <2>1 DEF Sees
<1>2. CASE ch.state = "closed" /\ r.waiting
  <2> DEFINE new == [r EXCEPT !.waiting = FALSE, !.state = "closed"]
  <2>1. Ended(r, ch.state) = new
    BY <1>2 DEF Ended
  <2>2. new \in Subscribers /\ new.of = r.of /\ new.state = "closed" /\ ~new.waiting /\ new.got = r.got
    BY DEF Subscribers
  <2>3. r.got = ch.values
    <3>1. r.queue = <<>> /\ r.got \o r.queue = ch.values
      BY <1>2
    <3>2. r.got \o <<>> = r.got
      BY <1>0
    <3> QED
      BY <3>1, <3>2
  <2> HIDE DEF new
  <2> QED
    BY <1>2, <2>1, <2>2, <2>3 DEF Sees
<1>3. CASE ch.state = "failed"
  <2> DEFINE new == [r EXCEPT !.queue = <<>>, !.waiting = FALSE, !.state = "failed"]
  <2>1. Ended(r, ch.state) = new
    BY <1>3 DEF Ended
  <2>2. new \in Subscribers /\ new.of = r.of /\ new.state = "failed" /\ ~new.waiting /\ new.queue = <<>> /\ new.got = r.got
    BY <1>0 DEF Subscribers
  <2>3. r.got = SubSeq(ch.values, 1, Len(r.got)) /\ Len(r.got) <= Len(ch.values)
    BY <1>0, Beginning
  <2> HIDE DEF new
  <2> QED
    BY <1>3, <2>1, <2>2, <2>3 DEF Sees
<1> QED
  BY <1>0, <1>1, <1>2, <1>3

\* A reader follows its channel.
LEMMA ReaderTold ==
  ASSUME NEW r \in Subscribers, NEW ch \in ReplayChannels, NEW new, Grows(ch, new), Sees(r, ch)
  PROVE  /\ Told(r, ch, new) \in Subscribers /\ Told(r, ch, new).of = r.of
         /\ Told(r, ch, new).state # "idle" => r.state # "idle"
         /\ Sees(Told(r, ch, new), new)
<1>0. new \in ReplayChannels /\ ch.values \in Seq(Chunks) /\ new.values \in Seq(Chunks)
  BY DEF Grows, ReplayChannels
<1>1. CASE r.state # "reading"
  <2>1. r.state \in {"idle", "closed", "failed", "cancelled"} /\ Told(r, ch, new) = r
    BY <1>1 DEF Told, Subscribers
  <2>2. r.state \in {"closed", "failed"} => new = ch
    BY DEF Grows, Sees
  <2> QED
    BY <1>1, <2>1, <2>2 DEF Sees
<1>2. CASE r.state = "reading"
  <2> DEFINE added == SubSeq(new.values, Len(ch.values) + 1, Len(new.values))
             told == Enqueued(r, added)
  <2>1. added \in Seq(Chunks) /\ ch.values \o added = new.values
    <3>1. CASE new.values = ch.values
      BY <1>0, <3>1
    <3>2. ASSUME NEW x \in Chunks, new.values = Append(ch.values, x) PROVE added \in Seq(Chunks) /\ ch.values \o added = new.values
      BY <1>0, <3>2
    <3> QED
      BY <3>1, <3>2 DEF Grows
  <2>2. r.got \o r.queue = ch.values /\ (r.waiting => r.queue = <<>>)
    BY <1>2 DEF Sees
  <2>3. Told(r, ch, new) = Ended(told, new.state)
    BY <1>2 DEF Told
  <2> HIDE DEF added
  <2>4. /\ told \in Subscribers /\ told.of = r.of /\ told.state = "reading" /\ told.got \o told.queue = new.values
        /\ told.waiting => told.queue = <<>>
    BY <1>0, <1>2, <2>1, <2>2, ReaderEnqueues
  <2> HIDE DEF told
  <2> QED
    BY <1>0, <1>2, <2>3, <2>4, ReaderEnds
<1> QED
  BY <1>1, <1>2

\* So do all of them.
ReadersKept == reader' \in [Readers -> Subscribers] /\ ReadersSeeAll' /\ ReadersPlaced'

\* ReadersSeeAll, one reader at a time.
LEMMA ReadersSee == ReadersSeeAll <=> \A r \in Readers : Sees(reader[r], channel[reader[r].of])
BY DEF ReadersSeeAll, Sees

LEMMA ReadersSeeNext == ReadersSeeAll' <=> \A r \in Readers : Sees(reader'[r], channel'[reader'[r].of])
BY DEF ReadersSeeAll, Sees

LEMMA ReadersFollow ==
  ASSUME CommandTypeOK, ReadersSeeAll, ReadersPlaced,
         NEW new, \A c \in Channels : Grows(channel[c], new[c]), ChannelsBecome(new)
  PROVE  ReadersKept
<1>0. reader \in [Readers -> Subscribers] /\ channel \in [Channels -> ReplayChannels] /\ channel' = new
  BY DEF CommandTypeOK, ChannelsBecome
<1>1. ASSUME NEW r \in Readers
      PROVE  /\ reader'[r] \in Subscribers /\ Sees(reader'[r], channel'[reader'[r].of])
             /\ reader'[r].of = "none" => reader'[r].state = "idle" /\ ~reader'[r].waiting
  <2>0. reader[r] \in Subscribers /\ reader[r].of \in Channels \union {"none"} /\ Sees(reader[r], channel[reader[r].of])
        /\ (reader[r].of = "none" => reader[r].state = "idle" /\ ~reader[r].waiting)
    BY <1>0, ReadersSee DEF Subscribers, ReadersPlaced
  <2>1. CASE reader[r].of = "none"
    <3>1. reader'[r] = reader[r]
      BY <2>1 DEF ChannelsBecome
    <3> QED
      BY <2>0, <2>1, <3>1 DEF Sees
  <2>2. CASE reader[r].of # "none"
    <3> DEFINE c == reader[r].of
    <3>1. c \in Channels /\ reader'[r] = Told(reader[r], channel[c], new[c])
      BY <2>0, <2>2 DEF ChannelsBecome
    <3>2. channel[c] \in ReplayChannels /\ Grows(channel[c], new[c])
      BY <1>0, <3>1
    <3> QED
      BY <1>0, <2>0, <2>2, <3>1, <3>2, ReaderTold
  <2> QED
    BY <2>1, <2>2
<1>2. reader' \in [Readers -> Subscribers]
  <2>1. reader' = [r \in Readers |-> reader'[r]]
    BY DEF ChannelsBecome
  <2> QED
    BY <1>1, <2>1
<1> QED
  BY <1>1, <1>2, ReadersSeeNext DEF ReadersKept, ReadersPlaced

\* One reader becomes another, or none does.
LEMMA OneReader ==
  ASSUME CommandTypeOK, ReadersSeeAll, ReadersPlaced, UNCHANGED channel,
         NEW r \in Readers, NEW new \in Subscribers, reader' = [reader EXCEPT ![r] = new],
         new.of \in Channels, Sees(new, channel[new.of])
  PROVE  ReadersKept
<1>1. reader \in [Readers -> Subscribers] /\ reader' \in [Readers -> Subscribers] /\ reader'[r] = new
      /\ \A q \in Readers \ {r} : reader'[q] = reader[q]
  BY DEF CommandTypeOK
<1>2. "none" \notin Channels
  BY CommandAssumption DEF Channels
<1> QED
  BY <1>1, <1>2, ReadersSee, ReadersSeeNext DEF ReadersKept, ReadersPlaced

\* Subscribing, reading and unsubscribing.
ReaderSteps == \E r \in Readers : ReadNext(r) \/ Unsubscribe(r) \/ \E c \in Channels : Subscribe(r, c)
LEMMA ReadersCome ==
  ASSUME CommandTypeOK, ReadersSeeAll, ReadersPlaced, UNCHANGED channel, ReaderSteps \/ UNCHANGED reader
  PROVE  ReadersKept
<1>0. reader \in [Readers -> Subscribers] /\ channel \in [Channels -> ReplayChannels] /\ <<>> \in Seq(Chunks)
  BY DEF CommandTypeOK
<1>1. CASE UNCHANGED reader
  BY <1>0, <1>1 DEF ReadersKept, ReadersSeeAll, ReadersPlaced
<1>2. ASSUME NEW r \in Readers, Unsubscribe(r) PROVE ReadersKept
  <2> DEFINE new == [reader[r] EXCEPT !.state = "cancelled", !.queue = <<>>, !.waiting = FALSE]
  <2>1. reader' = [reader EXCEPT ![r] = new] /\ reader[r] \in Subscribers /\ reader[r].of \in Channels
    BY <1>0, <1>2 DEF Unsubscribe, Channels
  <2>2. new \in Subscribers /\ new.of = reader[r].of /\ new.state = "cancelled" /\ ~new.waiting
    BY <1>0, <2>1 DEF Subscribers
  <2> HIDE DEF new
  <2>3. Sees(new, channel[new.of])
    BY <2>2 DEF Sees
  <2> QED
    BY <2>1, <2>2, <2>3, OneReader
<1>3. ASSUME NEW r \in Readers, NEW c \in Channels, Subscribe(r, c) PROVE ReadersKept
  <2> DEFINE first == [of |-> c, got |-> <<>>, queue |-> channel[c].values, waiting |-> FALSE, state |-> "reading"]
             new == Ended(first, channel[c].state)
  <2>1. reader' = [reader EXCEPT ![r] = new] /\ channel[c] \in ReplayChannels
    BY <1>0, <1>3 DEF Subscribe
  <2>2. first \in Subscribers /\ first.of = c /\ first.state = "reading" /\ ~first.waiting
        /\ first.got = <<>> /\ first.queue = channel[c].values /\ channel[c].values \in Seq(Chunks)
    BY <1>0, <2>1 DEF Subscribers, ReplayChannels
  <2>3. first.got \o first.queue = channel[c].values
    BY <2>2
  <2> HIDE DEF first
  <2>4. new \in Subscribers /\ new.of = c /\ Sees(new, channel[c])
    BY <2>1, <2>2, <2>3, ReaderEnds
  <2> QED
    BY <2>1, <2>4, OneReader
<1>4. ASSUME NEW r \in Readers, ReadNext(r) PROVE ReadersKept
  <2> DEFINE me == reader[r]
             ch == channel[me.of]
  <2>1. /\ me \in Subscribers /\ me.state = "reading" /\ ~me.waiting /\ me.of \in Channels
        /\ me.got \in Seq(Chunks) /\ me.queue \in Seq(Chunks)
    BY <1>0, <1>4 DEF ReadNext, ReadersPlaced, Subscribers
  <2>2. ch \in ReplayChannels /\ ch.state # "failed" /\ me.got \o me.queue = ch.values
    BY <1>0, <2>1, ReadersSee DEF Sees
  <2>3. CASE me.queue # <<>>
    <3> DEFINE new == [me EXCEPT !.got = Append(me.got, Head(me.queue)), !.queue = Tail(me.queue)]
    <3>1. reader' = [reader EXCEPT ![r] = new]
      BY <1>4, <2>3 DEF ReadNext
    <3>2. Append(me.got, Head(me.queue)) \in Seq(Chunks) /\ Tail(me.queue) \in Seq(Chunks)
          /\ Append(me.got, Head(me.queue)) \o Tail(me.queue) = me.got \o me.queue
      <4> DEFINE got == me.got
                 queue == me.queue
      <4>1. got \in Seq(Chunks) /\ queue \in Seq(Chunks) /\ queue # <<>>
        BY <2>1, <2>3
      <4> HIDE DEF got, queue
      <4>2. Head(queue) \in Chunks /\ Tail(queue) \in Seq(Chunks) /\ Append(got, Head(queue)) \in Seq(Chunks)
            /\ Len(Tail(queue)) = Len(queue) - 1 /\ Len(queue) \in Nat /\ Len(got) \in Nat /\ Len(queue) > 0
        BY <4>1
      <4>3. Len(Append(got, Head(queue)) \o Tail(queue)) = Len(got \o queue)
        BY <4>1, <4>2
      <4>4. ASSUME NEW i \in 1..Len(got \o queue) PROVE (Append(got, Head(queue)) \o Tail(queue))[i] = (got \o queue)[i]
        BY <4>1, <4>2
      <4>5. Append(got, Head(queue)) \o Tail(queue) = got \o queue
        BY <4>1, <4>2, <4>3, <4>4
      <4> QED
        BY <4>2, <4>5 DEF got, queue
    <3>3. new \in Subscribers /\ new.of = me.of /\ new.state = "reading" /\ ~new.waiting
          /\ new.got = Append(me.got, Head(me.queue)) /\ new.queue = Tail(me.queue)
      BY <2>1, <3>2 DEF Subscribers
    <3> HIDE DEF new
    <3>4. Sees(new, channel[new.of])
      BY <2>2, <3>2, <3>3 DEF Sees
    <3> QED
      BY <2>1, <3>1, <3>3, <3>4, OneReader
  <2>4. CASE me.queue = <<>> /\ ch.state = "closed"
    <3> DEFINE new == [me EXCEPT !.state = "closed"]
    <3>1. reader' = [reader EXCEPT ![r] = new]
      BY <1>0, <1>4, <2>1, <2>4 DEF ReadNext
    <3>2. new \in Subscribers /\ new.of = me.of /\ new.state = "closed" /\ ~new.waiting /\ new.got = me.got
      BY <2>1 DEF Subscribers
    <3>3. me.got = ch.values
      BY <2>1, <2>2, <2>4
    <3> HIDE DEF new
    <3>4. Sees(new, channel[new.of])
      BY <2>4, <3>2, <3>3 DEF Sees
    <3> QED
      BY <2>1, <3>1, <3>2, <3>4, OneReader
  <2>5. CASE me.queue = <<>> /\ ch.state # "closed"
    <3> DEFINE new == [me EXCEPT !.waiting = TRUE]
    <3>1. reader' = [reader EXCEPT ![r] = new] /\ ch.state = "open"
      BY <1>0, <1>4, <2>1, <2>2, <2>5 DEF ReadNext, ReplayChannels
    <3>2. new \in Subscribers /\ new.of = me.of /\ new.state = "reading" /\ new.got = me.got /\ new.queue = me.queue
      BY <2>1 DEF Subscribers
    <3> HIDE DEF new
    <3>3. Sees(new, channel[new.of])
      BY <2>2, <2>5, <3>1, <3>2 DEF Sees
    <3> QED
      BY <2>1, <3>1, <3>2, <3>3, OneReader
  <2> QED
    BY <2>3, <2>4, <2>5
<1> QED
  BY <1>1, <1>2, <1>3, <1>4 DEF ReaderSteps

-----------------------------------------------------------------------------
(* What a step of a command comes to for its channels *)

CommandTypes ==
  /\ phase' \in {"preparing", "connecting", "connected", "closed"} /\ ended \subseteq ended' /\ ended' \subseteq Streams
  /\ phase = "closed" => phase' = "closed"
  /\ command' \in Commands
  /\ terminator' \in [Terminators -> {"idle", "connecting", "confirming", "confirmed", "unknown", "rejected"}]

\* Nothing is captured and nothing ends.
Stays ==
  /\ command'.settled = command.settled /\ command'.limited = command.limited
  /\ UNCHANGED <<channel, sent>> /\ ReadersKept

\* The command settles, and all channels end.
Settles ==
  /\ command'.settled /\ command'.limited = command.limited /\ phase' = "closed"
  /\ \E st \in {"closed", "failed"} : ChannelsBecome(All(st))
  /\ UNCHANGED sent

CommandStep == CommandTypes /\ (Stays \/ Settles)

\* Callbacks of the session.
LEMMA PhaseSteps ==
  ASSUME CommandTypeOK, Quiet \/ Starts \/ OnConnect \/ OnEnd("onError") \/ OnEnd("onComplete")
  PROVE  /\ phase' \in {"preparing", "connecting", "connected", "closed"} /\ ended' = ended
         /\ phase = "closed" => phase' = "closed"
BY DEF CommandTypeOK, Quiet, Starts, OnConnect, OnEnd

\* fail() that has not settled.
LEMMA FailSettles ==
  ASSUME CommandInv, NEW k \in Commands, k.limited = command.limited, FailOf(k),
         DisconnectSession \/ OnEnd("onError"), UNCHANGED sent
  PROVE  Settles /\ command' \in Commands
<1>1. command' \in Commands /\ command'.settled /\ command'.limited = command.limited
  BY DEF FailOf, Commands, Promise
<1>2. phase' = "closed" /\ ChannelsBecome(All("failed"))
  BY DEF FailOf, DisconnectSession, Quiet, OnEnd
<1> QED
  BY <1>1, <1>2 DEF Settles

\* fail(), or nothing.
LEMMA FailStep ==
  ASSUME CommandInv, Fail, UNCHANGED sent
  PROVE  /\ command' \in Commands /\ (Stays \/ Settles)
         /\ phase' \in {"preparing", "connecting", "connected", "closed"} /\ ended' = ended
         /\ phase = "closed" => phase' = "closed"
<1>0. CommandTypeOK /\ ReadersSeeAll /\ ReadersPlaced /\ command \in Commands
  BY DEF CommandInv, CommandTypeOK
<1>1. Quiet \/ OnEnd("onError")
  BY DEF Fail, DisconnectSession
<1>2. CASE command.settled
  <2>1. UNCHANGED <<command, channel, reader>>
    BY <1>2 DEF Fail
  <2> QED
    BY <1>0, <1>1, <2>1, PhaseSteps, ReadersCome DEF Stays
<1>3. CASE ~command.settled
  <2>1. FailOf(command) /\ DisconnectSession
    BY <1>3 DEF Fail
  <2> QED
    BY <1>0, <1>1, <2>1, PhaseSteps, FailSettles
<1> QED
  BY <1>2, <1>3

\* One call of terminate() moves.
LEMMA TerminatorTypes ==
  ASSUME CommandTypeOK, NEW t \in Terminators,
         NEW st \in {"idle", "connecting", "confirming", "confirmed", "unknown", "rejected"}, TerminatorBecomes(t, st)
  PROVE  terminator' \in [Terminators -> {"idle", "connecting", "confirming", "confirmed", "unknown", "rejected"}]
BY DEF CommandTypeOK, TerminatorBecomes

LEMMA RejectsStep ==
  ASSUME CommandInv, NEW t \in Terminators, NEW st \in {"unknown", "rejected"}, Rejects(t, st), UNCHANGED sent
  PROVE  CommandStep
<1>0. CommandTypeOK /\ ReadersSeeAll /\ ReadersPlaced /\ command \in Commands /\ ended \subseteq Streams
  BY DEF CommandInv, CommandTypeOK
<1>1. terminator' \in [Terminators -> {"idle", "connecting", "confirming", "confirmed", "unknown", "rejected"}]
  BY <1>0, TerminatorTypes DEF Rejects
<1>2. CASE Fail
  BY <1>0, <1>1, <1>2, FailStep DEF CommandStep, CommandTypes
<1>3. CASE Quiet /\ UNCHANGED <<command, channel, reader>>
  BY <1>0, <1>1, <1>3, PhaseSteps, ReadersCome DEF CommandStep, CommandTypes, Stays
<1> QED
  BY <1>2, <1>3 DEF Rejects

\* The callbacks that neither bring output nor end a stream.
LEMMA CallbackSteps ==
  ASSUME CommandInv, CommandConnects \/ ConstructorThrows \/ CommandOnConnect \/ CommandOnComplete \/ CommandOnError
  PROVE  CommandStep
<1>0. CommandTypeOK /\ ReadersSeeAll /\ ReadersPlaced /\ command \in Commands /\ ended \subseteq Streams
      /\ terminator \in [Terminators -> {"idle", "connecting", "confirming", "confirmed", "unknown", "rejected"}]
  BY DEF CommandInv, CommandTypeOK
<1>1. CASE CommandConnects \/ ConstructorThrows
  <2>1. (Starts \/ Quiet) /\ UNCHANGED <<channel, reader, terminator, sent>>
    BY <1>1 DEF CommandConnects, ConstructorThrows
  <2>2. command' \in Commands /\ command'.settled = command.settled /\ command'.limited = command.limited
    BY <1>0, <1>1 DEF CommandConnects, ConstructorThrows, Commands
  <2> QED
    BY <1>0, <2>1, <2>2, PhaseSteps, ReadersCome DEF CommandStep, CommandTypes, Stays
<1>2. CASE CommandOnConnect
  <2>1. OnConnect /\ UNCHANGED <<channel, reader, terminator, sent>>
    BY <1>2 DEF CommandOnConnect
  <2>2. command' \in Commands /\ command'.settled = command.settled /\ command'.limited = command.limited
    BY <1>0, <1>2 DEF CommandOnConnect, Commands, Promise
  <2> QED
    BY <1>0, <2>1, <2>2, PhaseSteps, ReadersCome DEF CommandStep, CommandTypes, Stays
<1>3. CASE CommandOnComplete
  <2>1. OnEnd("onComplete") /\ Complete /\ UNCHANGED <<terminator, sent>>
    BY <1>3 DEF CommandOnComplete
  <2>2. CASE command.settled
    <3>1. UNCHANGED <<command, channel, reader>>
      BY <2>1, <2>2 DEF Complete
    <3> QED
      BY <1>0, <2>1, <3>1, PhaseSteps, ReadersCome DEF CommandStep, CommandTypes, Stays
  <2>3. CASE ~command.settled
    <3>1. command' = [command EXCEPT !.settled = TRUE, !.completion = "resolved", !.deadline = FALSE]
          /\ ChannelsBecome(All("closed"))
      BY <2>1, <2>3 DEF Complete
    <3>2. command' \in Commands /\ command'.settled /\ command'.limited = command.limited
      BY <1>0, <3>1 DEF Commands, Promise
    <3>3. phase' = "closed"
      BY <2>1 DEF OnEnd
    <3>4. Settles
      BY <2>1, <3>1, <3>2, <3>3 DEF Settles
    <3> QED
      BY <1>0, <2>1, <3>2, <3>4, PhaseSteps DEF CommandStep, CommandTypes
  <2> QED
    BY <2>2, <2>3
<1>4. CASE CommandOnError
  <2>1. OnEnd("onError") /\ UNCHANGED <<terminator, sent>>
    BY <1>4 DEF CommandOnError
  <2>2. CASE UNCHANGED <<command, channel, reader>>
    BY <1>0, <2>1, <2>2, PhaseSteps, ReadersCome DEF CommandStep, CommandTypes, Stays
  <2>3. CASE FailOf(command)
    <3>1. Settles /\ command' \in Commands
      BY <1>0, <2>1, <2>3, FailSettles
    <3> QED
      BY <1>0, <2>1, <3>1, PhaseSteps DEF CommandStep, CommandTypes
  <2> QED
    BY <1>4, <2>2, <2>3 DEF CommandOnError
<1> QED
  BY <1>1, <1>2, <1>3, <1>4

\* The application and its timers, and the readers.
LEMMA ApplicationSteps ==
  ASSUME CommandInv,
         \/ InputSettles \/ Expire
         \/ ReaderSteps
         \/ UNCHANGED allCommandVars
  PROVE  CommandStep
<1>0. CommandTypeOK /\ ReadersSeeAll /\ ReadersPlaced /\ command \in Commands /\ ended \subseteq Streams
      /\ terminator \in [Terminators -> {"idle", "connecting", "confirming", "confirmed", "unknown", "rejected"}]
      /\ phase \in {"preparing", "connecting", "connected", "closed"}
  BY DEF CommandInv, CommandTypeOK
<1>1. CASE InputSettles
  <2>0. UNCHANGED <<terminator, sent>>
    BY <1>1 DEF InputSettles
  <2> DEFINE k == [command EXCEPT !.input = "none"]
  <2>1. k \in Commands /\ k.settled = command.settled /\ k.limited = command.limited
    BY <1>0 DEF Commands
  <2>2. CASE Quiet /\ command' = k /\ UNCHANGED <<channel, reader>>
    <3> HIDE DEF k
    <3> QED
      BY <1>0, <2>0, <2>1, <2>2, PhaseSteps, ReadersCome DEF CommandStep, CommandTypes, Stays
  <2>3. CASE FailOf(k) /\ DisconnectSession
    <3> HIDE DEF k
    <3>1. Settles /\ command' \in Commands
      BY <2>0, <2>1, <2>3, FailSettles
    <3>2. Quiet \/ OnEnd("onError")
      BY <2>3 DEF DisconnectSession
    <3> QED
      BY <1>0, <2>0, <3>1, <3>2, PhaseSteps DEF CommandStep, CommandTypes
  <2> QED
    BY <1>1, <2>2, <2>3 DEF InputSettles
<1>2. CASE Expire
  <2>1. Fail /\ UNCHANGED <<terminator, sent>>
    BY <1>2 DEF Expire
  <2> QED
    BY <1>0, <2>1, FailStep DEF CommandStep, CommandTypes
<1>3. CASE ReaderSteps
  <2>1. UNCHANGED <<phase, ended, command, channel, terminator, sent>>
    BY <1>3 DEF ReaderSteps, ReaderStep, ReadNext, Unsubscribe, Subscribe
  <2> QED
    BY <1>0, <1>3, <2>1, ReadersCome DEF CommandStep, CommandTypes, Stays
<1>4. CASE UNCHANGED allCommandVars
  <2>1. UNCHANGED <<phase, ended, command, channel, reader, terminator, sent>>
    BY <1>4 DEF allCommandVars, eventVars, commandVars
  <2> QED
    BY <1>0, <2>1, ReadersCome DEF CommandStep, CommandTypes, Stays
<1> QED
  BY <1>1, <1>2, <1>3, <1>4

LEMMA TerminateSteps ==
  ASSUME CommandInv, NEW t \in Terminators,
         Terminate(t) \/ TerminateRequests(t) \/ TerminateConfirmed(t) \/ TerminateExpires(t)
  PROVE  CommandStep
<1>0. CommandTypeOK /\ ReadersSeeAll /\ ReadersPlaced /\ command \in Commands /\ ended \subseteq Streams
  BY DEF CommandInv, CommandTypeOK
<1>1. UNCHANGED sent
  BY DEF Terminate, TerminateRequests, TerminateConfirmed, TerminateExpires
<1>2. CASE \E st \in {"unknown", "rejected"} : Rejects(t, st)
  BY <1>1, <1>2, RejectsStep
<1>3. CASE /\ \E st \in {"connecting", "confirming", "confirmed"} : TerminatorBecomes(t, st)
           /\ Quiet /\ UNCHANGED <<channel, reader>>
           /\ command' \in {command, [command EXCEPT !.terminate = "requested"]}
  <2>1. command' \in Commands /\ command'.settled = command.settled /\ command'.limited = command.limited
    BY <1>0, <1>3 DEF Commands
  <2>2. terminator' \in [Terminators -> {"idle", "connecting", "confirming", "confirmed", "unknown", "rejected"}]
    BY <1>0, <1>3, TerminatorTypes
  <2> QED
    BY <1>0, <1>1, <1>3, <2>1, <2>2, PhaseSteps, ReadersCome DEF CommandStep, CommandTypes, Stays
<1>4. CASE Terminate(t)
  BY <1>3, <1>4 DEF Terminate
<1>5. CASE TerminateRequests(t)
  BY <1>2, <1>3, <1>5 DEF TerminateRequests
<1>6. CASE TerminateConfirmed(t)
  BY <1>2, <1>3, <1>6 DEF TerminateConfirmed
<1>7. CASE TerminateExpires(t)
  BY <1>2, <1>7 DEF TerminateExpires
<1> QED
  BY <1>4, <1>5, <1>6, <1>7

-----------------------------------------------------------------------------
(* What is captured *)

\* A chunk from where the others end.
LEMMA NextChunk ==
  ASSUME NEW chunks \in Seq(Chunks), NEW x \in Chunks
  PROVE  /\ Append(chunks, x) \in Seq(Chunks)
         /\ InOrder(chunks) /\ (\A i \in DOMAIN chunks : chunks[i].stream = x.stream => chunks[i].to <= x.from) =>
              InOrder(Append(chunks, x))
         /\ Covers(chunks, x.from) => Covers(Append(chunks, x), x.to)
         /\ \A s \in Streams : Of(Append(chunks, x), s) = Of(chunks, s) \union (IF x.stream = s THEN {x} ELSE {})
<1> DEFINE new == Append(chunks, x)
<1>0. /\ new \in Seq(Chunks) /\ DOMAIN chunks = 1..Len(chunks) /\ DOMAIN new = 1..Len(chunks) + 1
      /\ Len(chunks) \in Nat /\ new[Len(chunks) + 1] = x /\ \A i \in 1..Len(chunks) : new[i] = chunks[i]
  OBVIOUS
<1> HIDE DEF new
<1>1. ASSUME InOrder(chunks), \A i \in DOMAIN chunks : chunks[i].stream = x.stream => chunks[i].to <= x.from
      PROVE  InOrder(new)
  <2> SUFFICES ASSUME NEW i \in DOMAIN new, NEW j \in DOMAIN new, i < j, new[i].stream = new[j].stream
               PROVE  new[i].to <= new[j].from
    BY DEF InOrder
  <2>1. i \in DOMAIN chunks /\ new[i] = chunks[i]
    BY <1>0
  <2>2. CASE j = Len(chunks) + 1
    BY <1>0, <1>1, <2>1, <2>2
  <2>3. CASE j # Len(chunks) + 1
    <3>1. j \in DOMAIN chunks /\ new[j] = chunks[j]
      BY <1>0, <2>3
    <3> QED
      BY <1>1, <2>1, <3>1 DEF InOrder
  <2> QED
    BY <2>2, <2>3
<1>2. ASSUME Covers(chunks, x.from) PROVE Covers(new, x.to)
  <2>0. x.from \in Nat /\ x.to \in Nat
    BY CommandAssumption DEF Chunks
  <2> SUFFICES ASSUME NEW byte \in 0..x.to - 1 PROVE \E i \in DOMAIN new : byte \in new[i].from..new[i].to - 1
    BY DEF Covers
  <2>1. CASE byte < x.from
    <3>1. PICK i \in DOMAIN chunks : byte \in chunks[i].from..chunks[i].to - 1
      BY <1>2, <2>0, <2>1 DEF Covers
    <3>2. i \in DOMAIN new /\ new[i] = chunks[i]
      BY <1>0
    <3> QED
      BY <3>1, <3>2
  <2>2. CASE byte >= x.from
    <3>1. byte \in x.from..x.to - 1
      BY <2>0, <2>2
    <3> QED
      BY <1>0, <3>1
  <2> QED
    BY <2>0, <2>1, <2>2
<1>3. ASSUME NEW s \in Streams
      PROVE  Of(new, s) = Of(chunks, s) \union (IF x.stream = s THEN {x} ELSE {})
  <2>1. ASSUME NEW c PROVE c \in Of(new, s) <=> c \in Of(chunks, s) \/ (x.stream = s /\ c = x)
    <3>1. c \in Of(new, s) <=> \E i \in DOMAIN new : new[i].stream = s /\ c = new[i]
      BY DEF Of
    <3>2. c \in Of(chunks, s) <=> \E i \in DOMAIN chunks : chunks[i].stream = s /\ c = chunks[i]
      BY DEF Of
    <3> QED
      BY <1>0, <3>1, <3>2
  <2> QED
    BY <2>1
<1> QED
  BY <1>0, <1>1, <1>2, <1>3 DEF new

\* A step that captures nothing, and leaves open or closed no channel whose stream goes on.
LEMMA NothingCaptured ==
  ASSUME CommandInv, \A c \in Channels : channel'[c].values = channel[c].values,
         \A s \in Streams : sent[s] <= sent'[s], sent' \in [Streams -> 0..MaxSent],
         \A s \in Streams : channel'[s].state \in {"open", "closed"} =>
           channel[s].state \in {"open", "closed"} /\ sent'[s] = sent[s]
  PROVE  LogInterleaves' /\ CapturePlaced'
<1>0. /\ LogInterleaves /\ CapturePlaced /\ sent \in [Streams -> 0..MaxSent] /\ channel \in [Channels -> ReplayChannels]
      /\ Streams \subseteq Channels /\ "log" \in Channels
  BY DEF CommandInv, CommandTypeOK, Channels
<1>1. LogInterleaves'
  BY <1>0 DEF LogInterleaves
<1>2. ASSUME NEW c \in Channels, NEW i \in DOMAIN channel[c].values
      PROVE  channel[c].values[i].to <= sent'[channel[c].values[i].stream]
  <2> DEFINE x == channel[c].values[i]
  <2>1. x \in Chunks
    BY <1>0 DEF ReplayChannels
  <2>2. x.to \in Nat /\ x.stream \in Streams /\ x.to <= sent[x.stream]
    BY <1>0, <2>1, CommandAssumption DEF Chunks, CapturePlaced
  <2> HIDE DEF x
  <2>3. sent[x.stream] \in Nat /\ sent'[x.stream] \in Nat /\ sent[x.stream] <= sent'[x.stream]
    BY <1>0, <2>2, CommandAssumption
  <2>4. x.to <= sent'[x.stream]
    BY <2>2, <2>3
  <2> QED
    BY <2>4 DEF x
<1>3. CapturePlaced'
  BY <1>0, <1>2 DEF CapturePlaced
<1> QED
  BY <1>1, <1>3

\* A step that captures a chunk of s, from where it had ended, which is all that s brought
\* unless its channel fails.
LEMMA ChunkCaptured ==
  ASSUME CommandInv, NEW s \in Streams, NEW x \in Chunks, NEW n \in 0..MaxSent,
         x.stream = s, x.from = sent[s], x.to <= n, sent' = [sent EXCEPT ![s] = n],
         \A c \in Channels :
           channel'[c].values = IF c \in {s, "log"} THEN Append(channel[c].values, x) ELSE channel[c].values,
         \A t \in Streams : channel'[t].state \in {"open", "closed"} => channel[t].state \in {"open", "closed"},
         channel'[s].state \in {"open", "closed"} => x.to = n
  PROVE  LogInterleaves' /\ CapturePlaced'
<1>0. /\ LogInterleaves /\ CapturePlaced /\ sent \in [Streams -> 0..MaxSent] /\ channel \in [Channels -> ReplayChannels]
      /\ Streams \subseteq Channels /\ "log" \in Channels /\ "log" \notin Streams /\ MaxSent \in Nat
      /\ sent[s] \in Nat /\ x.to \in Nat
  BY CommandAssumption DEF CommandInv, CommandTypeOK, Channels, Chunks
<1>1. ASSUME NEW c \in Channels
      PROVE  channel[c].values \in Seq(Chunks) /\ \A i \in DOMAIN channel[c].values :
               /\ channel[c].values[i] \in Chunks
               /\ channel[c].values[i].to <= sent[channel[c].values[i].stream]
  BY <1>0 DEF ReplayChannels, CapturePlaced
<1>2. ASSUME NEW c \in {s, "log"}
      PROVE  /\ c \in Channels /\ channel'[c].values = Append(channel[c].values, x)
             /\ \A i \in DOMAIN channel[c].values : channel[c].values[i].stream = x.stream => channel[c].values[i].to <= x.from
  <2>1. c \in Channels
    BY <1>0
  <2>2. channel'[c].values = Append(channel[c].values, x)
    BY <2>1
  <2>3. ASSUME NEW i \in DOMAIN channel[c].values, channel[c].values[i].stream = x.stream
        PROVE  channel[c].values[i].to <= x.from
    BY <1>1, <2>1, <2>3
  <2> QED
    BY <2>1, <2>2, <2>3
<1>3. ASSUME NEW c \in Channels \ {s, "log"} PROVE channel'[c].values = channel[c].values
  BY <1>3
<1>4. LogInterleaves'
  <2>1. \A c \in Channels : InOrder(channel'[c].values)
    <3>1. ASSUME NEW c \in {s, "log"} PROVE InOrder(channel'[c].values)
      <4>1. c \in Channels /\ channel[c].values \in Seq(Chunks) /\ InOrder(channel[c].values)
        BY <1>0, <1>1, <1>2 DEF LogInterleaves
      <4>2. InOrder(Append(channel[c].values, x))
        BY <1>2, <4>1, NextChunk
      <4> QED
        BY <1>2, <4>2
    <3> QED
      BY <1>0, <1>3, <3>1 DEF LogInterleaves
  <2>2. ASSUME NEW q \in Streams, NEW t \in Streams
        PROVE  Of(channel'[q].values, t) = IF q = t THEN Of(channel'["log"].values, q) ELSE {}
    <3>1. Of(channel[q].values, t) = IF q = t THEN Of(channel["log"].values, q) ELSE {}
      BY <1>0 DEF LogInterleaves
    <3>2. Of(channel'["log"].values, q) = Of(channel["log"].values, q) \union (IF s = q THEN {x} ELSE {})
      BY <1>0, <1>1, <1>2, NextChunk
    <3>3. CASE q = s
      <4>1. Of(channel'[q].values, t) = Of(channel[q].values, t) \union (IF s = t THEN {x} ELSE {})
        BY <1>0, <1>1, <1>2, <3>3, NextChunk
      <4> QED
        BY <3>1, <3>2, <3>3, <4>1
    <3>4. CASE q # s
      <4>1. channel'[q].values = channel[q].values
        BY <1>0, <1>3, <3>4
      <4> QED
        BY <3>1, <3>2, <3>4, <4>1
    <3> QED
      BY <3>3, <3>4
  <2> QED
    BY <2>1, <2>2 DEF LogInterleaves
<1>5. ASSUME NEW y \in Chunks, y = x \/ y.to <= sent[y.stream] PROVE y.to <= sent'[y.stream]
  <2>1. y.to \in Nat /\ y.stream \in Streams /\ sent[y.stream] \in Nat
    BY <1>0 DEF Chunks
  <2>2. x.from < x.to /\ x.from \in Nat
    BY <1>0 DEF Chunks
  <2>3. CASE y.stream = s
    <3>1. sent'[y.stream] = n
      BY <1>0, <2>3
    <3> QED
      BY <1>0, <1>5, <2>1, <2>2, <2>3, <3>1
  <2>4. CASE y.stream # s
    BY <1>0, <1>5, <2>1, <2>4
  <2> QED
    BY <2>3, <2>4
<1>6. ASSUME NEW c \in Channels, NEW i \in DOMAIN channel'[c].values
      PROVE  channel'[c].values[i].to <= sent'[channel'[c].values[i].stream]
  <2>1. channel'[c].values[i] = x \/ (i \in DOMAIN channel[c].values /\ channel'[c].values[i] = channel[c].values[i])
    <3>1. CASE c \in {s, "log"}
      <4> DEFINE old == channel[c].values
      <4>1. old \in Seq(Chunks) /\ channel'[c].values = Append(old, x)
        BY <1>1, <1>2, <3>1
      <4> HIDE DEF old
      <4>2. Append(old, x)[i] = x \/ (i \in DOMAIN old /\ Append(old, x)[i] = old[i])
        BY <1>6, <4>1
      <4> QED
        BY <4>1, <4>2 DEF old
    <3>2. CASE c \notin {s, "log"}
      BY <1>3, <1>6, <3>2
    <3> QED
      BY <3>1, <3>2
  <2> QED
    BY <1>1, <1>5, <2>1
<1>7. ASSUME NEW t \in Streams, channel'[t].state \in {"open", "closed"} PROVE Covers(channel'[t].values, sent'[t])
  <2>0. Covers(channel[t].values, sent[t])
    BY <1>0, <1>7 DEF CapturePlaced
  <2>1. CASE t = s
    <3>1. sent'[t] = x.to /\ sent[t] = x.from
      BY <1>0, <1>7, <2>1
    <3>2. t \in {s, "log"} /\ t \in Channels
      BY <1>0, <2>1
    <3>3. channel[t].values \in Seq(Chunks) /\ channel'[t].values = Append(channel[t].values, x)
      BY <1>1, <1>2, <3>2
    <3>4. Covers(Append(channel[t].values, x), x.to)
      BY <2>0, <3>1, <3>3, NextChunk
    <3> QED
      BY <3>1, <3>3, <3>4
  <2>2. CASE t # s
    <3>1. sent'[t] = sent[t] /\ channel'[t].values = channel[t].values
      BY <1>0, <1>3, <2>2
    <3> QED
      BY <2>0, <3>1
  <2> QED
    BY <2>1, <2>2
<1> QED
  BY <1>4, <1>6, <1>7 DEF CapturePlaced

-----------------------------------------------------------------------------
(* The steps *)

LEMMA ChannelSteps ==
  ASSUME NEW ch \in ReplayChannels, NEW st \in {"closed", "failed"}
  PROVE  /\ Grows(ch, ch) /\ Grows(ch, Finished(ch, st))
         /\ Finished(ch, st).values = ch.values /\ Finished(ch, st).state # "open"
         /\ Finished(ch, st).state = "closed" => ch.state = "closed" \/ st = "closed"
         /\ Finished(ch, st).state \in {"open", "closed"} => ch.state \in {"open", "closed"}
         /\ \A x \in Chunks : ch.state = "open" =>
              /\ Appended(ch, x) \in ReplayChannels /\ Grows(ch, Appended(ch, x)) /\ Grows(ch, Finished(Appended(ch, x), st))
              /\ Appended(ch, x).values = Append(ch.values, x) /\ Appended(ch, x).state = "open"
              /\ Finished(Appended(ch, x), st).values = Append(ch.values, x) /\ Finished(Appended(ch, x), st).state = st
<1>1. Grows(ch, ch) /\ Grows(ch, Finished(ch, st))
  BY DEF Grows, Finished, ReplayChannels
<1>2. /\ Finished(ch, st).values = ch.values /\ Finished(ch, st).state # "open"
      /\ Finished(ch, st).state = "closed" => ch.state = "closed" \/ st = "closed"
      /\ Finished(ch, st).state \in {"open", "closed"} => ch.state \in {"open", "closed"}
  BY DEF Finished, ReplayChannels
<1>3. ASSUME NEW x \in Chunks, ch.state = "open"
      PROVE  /\ Appended(ch, x) \in ReplayChannels /\ Grows(ch, Appended(ch, x)) /\ Grows(ch, Finished(Appended(ch, x), st))
             /\ Appended(ch, x).values = Append(ch.values, x) /\ Appended(ch, x).state = "open"
             /\ Finished(Appended(ch, x), st).values = Append(ch.values, x) /\ Finished(Appended(ch, x), st).state = st
  <2> DEFINE longer == Append(ch.values, x)
  <2>1. ch \in [values : Seq(Chunks), state : {"open", "closed", "failed"}] /\ longer \in Seq(Chunks)
    BY DEF ReplayChannels
  <2>2. Appended(ch, x) = [ch EXCEPT !.values = longer]
    BY <1>3 DEF Appended
  <2> HIDE DEF longer
  <2>3. Appended(ch, x) \in ReplayChannels /\ Appended(ch, x).values = longer /\ Appended(ch, x).state = "open"
    BY <1>3, <2>1, <2>2 DEF ReplayChannels
  <2>4. /\ Finished(Appended(ch, x), st) \in ReplayChannels
        /\ Finished(Appended(ch, x), st).values = longer /\ Finished(Appended(ch, x), st).state = st
    BY <2>3 DEF Finished, ReplayChannels
  <2>5. Grows(ch, Appended(ch, x)) /\ Grows(ch, Finished(Appended(ch, x), st))
    BY <1>3, <2>3, <2>4 DEF Grows, longer
  <2> QED
    BY <2>3, <2>4, <2>5 DEF longer
<1> QED
  BY <1>1, <1>2, <1>3

\* The channels' types follow.
LEMMA ChannelTypes ==
  ASSUME NEW new, new = [c \in Channels |-> new[c]], \A c \in Channels : Grows(channel[c], new[c])
  PROVE  new \in [Channels -> ReplayChannels]
BY DEF Grows

LEMMA StepKeeps ==
  ASSUME CommandInv, CommandStep
  PROVE  CommandInv'
<1>0. /\ CommandTypeOK /\ ReadersSeeAll /\ LogInterleaves /\ ReadersPlaced /\ EndsPlaced /\ CapturePlaced /\ CommandTypes
      /\ sent \in [Streams -> 0..MaxSent] /\ channel \in [Channels -> ReplayChannels] /\ Streams \subseteq Channels
      /\ MaxSent \in Nat /\ "log" \in Channels
  BY CommandAssumption DEF CommandInv, CommandTypeOK, CommandStep, Channels
<1>s. \A s \in Streams : sent[s] <= sent[s]
  BY <1>0
<1>1. CASE Stays
  <2>1. CommandTypeOK'
    BY <1>0, <1>1 DEF CommandTypeOK, CommandTypes, Stays, ReadersKept
  <2>2. EndsPlaced'
    BY <1>0, <1>1 DEF EndsPlaced, CommandTypes, Stays
  <2>3. LogInterleaves' /\ CapturePlaced'
    BY <1>0, <1>1 DEF LogInterleaves, CapturePlaced, Stays
  <2> QED
    BY <1>1, <2>1, <2>2, <2>3 DEF CommandInv, Stays, ReadersKept
<1>2. CASE Settles
  <2>1. PICK st \in {"closed", "failed"} : ChannelsBecome(All(st))
    BY <1>2 DEF Settles
  <2>2. command'.settled /\ phase' = "closed" /\ UNCHANGED sent
    BY <1>2 DEF Settles
  <2>3. channel' = All(st) /\ \A c \in Channels : All(st)[c] = Finished(channel[c], st)
    BY <2>1 DEF ChannelsBecome, All
  <2>4. \A c \in Channels : Grows(channel[c], All(st)[c])
    BY <1>0, <2>3, ChannelSteps
  <2>5. ReadersKept
    BY <1>0, <2>1, <2>4, ReadersFollow
  <2>6. All(st) \in [Channels -> ReplayChannels]
    BY <2>4, ChannelTypes DEF All
  <2>7. CommandTypeOK'
    BY <1>0, <2>2, <2>3, <2>5, <2>6 DEF CommandTypeOK, CommandTypes, ReadersKept
  <2>8. /\ \A c \in Channels : channel'[c].values = channel[c].values /\ channel'[c].state # "open"
        /\ \A c \in Channels : channel'[c].state \in {"open", "closed"} => channel[c].state \in {"open", "closed"}
    BY <1>0, <2>3, ChannelSteps
  <2>9. EndsPlaced'
    BY <2>2, <2>8 DEF EndsPlaced
  <2>10. LogInterleaves' /\ CapturePlaced'
    BY <1>0, <1>s, <2>2, <2>8, NothingCaptured
  <2> QED
    BY <2>5, <2>7, <2>9, <2>10 DEF CommandInv, ReadersKept
<1> QED
  BY <1>1, <1>2 DEF CommandStep

LEMMA EosKeeps ==
  ASSUME CommandInv, NEW s \in Streams, CommandOnEos(s)
  PROVE  CommandInv'
<1>0. /\ CommandTypeOK /\ ReadersSeeAll /\ LogInterleaves /\ ReadersPlaced /\ EndsPlaced /\ CapturePlaced
      /\ sent \in [Streams -> 0..MaxSent] /\ channel \in [Channels -> ReplayChannels] /\ Streams \subseteq Channels
      /\ MaxSent \in Nat /\ "log" \in Channels /\ "log" \notin Streams
  BY CommandAssumption DEF CommandInv, CommandTypeOK, Channels
<1>s. \A t \in Streams : sent[t] <= sent[t]
  BY <1>0
<1> DEFINE new == [channel EXCEPT ![s] = Finished(@, "closed")]
<1>1. /\ phase' = phase /\ phase = "connected" /\ ended' = ended \union {s} /\ UNCHANGED <<command, terminator, sent>>
      /\ ChannelsBecome(new)
  BY DEF CommandOnEos, OnEos
<1>2. new = [c \in Channels |-> new[c]] /\ \A c \in Channels : new[c] = IF c = s THEN Finished(channel[c], "closed") ELSE channel[c]
  BY <1>0
<1> HIDE DEF new
<1>3. channel' = new
  BY <1>1 DEF ChannelsBecome
<1>4. \A c \in Channels : Grows(channel[c], new[c])
  BY <1>0, <1>2, ChannelSteps
<1>5. ReadersKept
  BY <1>0, <1>1, <1>4, ReadersFollow
<1>6. new \in [Channels -> ReplayChannels]
  BY <1>2, <1>4, ChannelTypes
<1>7. CommandTypeOK'
  BY <1>0, <1>1, <1>3, <1>5, <1>6 DEF CommandTypeOK, ReadersKept
<1>8. /\ \A c \in Channels : channel'[c].values = channel[c].values
      /\ \A c \in Channels : channel'[c].state \in {"open", "closed"} => channel[c].state \in {"open", "closed"}
      /\ \A c \in Channels \ {s} : channel'[c] = channel[c]
      /\ channel'[s].state # "open"
  BY <1>0, <1>2, <1>3, ChannelSteps, SMTT(30)
<1>9. EndsPlaced'
  BY <1>0, <1>1, <1>8 DEF EndsPlaced
<1>10. LogInterleaves' /\ CapturePlaced'
  BY <1>0, <1>s, <1>1, <1>8, NothingCaptured
<1> QED
  BY <1>5, <1>7, <1>9, <1>10 DEF CommandInv, ReadersKept

\* What the limit leaves: every channel has failed, or ended before.
LEMMA LimitKeeps ==
  ASSUME CommandInv, UNCHANGED <<phase, ended>>, phase # "closed",
         NEW k \in Commands, k.settled = command.settled, NEW new, Limited(k, new),
         \A c \in Channels : new[c] \in ReplayChannels /\ new[c].state = channel[c].state,
         \A c \in Channels : Grows(channel[c], Finished(new[c], "failed")),
         sent' \in [Streams -> 0..MaxSent], LogInterleaves', CapturePlaced'
  PROVE  CommandInv'
<1>0. CommandTypeOK /\ ReadersSeeAll /\ ReadersPlaced /\ EndsPlaced /\ channel \in [Channels -> ReplayChannels]
      /\ Streams \subseteq Channels
  BY DEF CommandInv, CommandTypeOK, Channels
<1> DEFINE end == [c \in Channels |-> Finished(new[c], "failed")]
<1>1. command' = [k EXCEPT !.limited = TRUE] /\ ChannelsBecome(end) /\ terminator' = [terminator EXCEPT ![Limit] = "connecting"]
  BY DEF Limited
<1>2. command' \in Commands /\ command'.settled = k.settled /\ command'.limited
  BY <1>1 DEF Commands
<1>3. terminator' \in [Terminators -> {"idle", "connecting", "confirming", "confirmed", "unknown", "rejected"}]
  BY <1>0, <1>1 DEF CommandTypeOK
<1>4. end = [c \in Channels |-> end[c]] /\ \A c \in Channels : end[c] = Finished(new[c], "failed")
  OBVIOUS
<1>5. \A c \in Channels : Grows(channel[c], end[c])
  BY <1>4
<1> HIDE DEF end
<1>6. ReadersKept /\ end \in [Channels -> ReplayChannels] /\ channel' = end
  BY <1>0, <1>1, <1>4, <1>5, ReadersFollow, ChannelTypes DEF ChannelsBecome
<1>7. CommandTypeOK'
  BY <1>0, <1>2, <1>3, <1>6 DEF CommandTypeOK, ReadersKept
<1>8. \A c \in Channels : channel'[c].state # "open" /\ (channel'[c].state = "closed" => channel[c].state = "closed")
  <2> SUFFICES ASSUME NEW c \in Channels
               PROVE  channel'[c].state # "open" /\ (channel'[c].state = "closed" => channel[c].state = "closed")
    OBVIOUS
  <2>1. channel'[c] = Finished(new[c], "failed") /\ new[c] \in ReplayChannels /\ new[c].state = channel[c].state
    BY <1>4, <1>6
  <2> QED
    BY <2>1, ChannelSteps
<1>9. EndsPlaced'
  BY <1>0, <1>2, <1>8 DEF EndsPlaced
<1> QED
  BY <1>6, <1>7, <1>9 DEF CommandInv, ReadersKept

LEMMA OutputKeeps ==
  ASSUME CommandInv, NEW s \in Streams, NEW size \in 1..MaxSent, CommandOnOutput(s, size)
  PROVE  CommandInv'
<1>0. /\ CommandTypeOK /\ ReadersSeeAll /\ LogInterleaves /\ ReadersPlaced /\ EndsPlaced /\ CapturePlaced
      /\ sent \in [Streams -> 0..MaxSent] /\ channel \in [Channels -> ReplayChannels] /\ Streams \subseteq Channels
      /\ {MaxBytes, MaxChunks, MaxSent} \subseteq Nat /\ "log" \in Channels /\ "log" \notin Streams /\ command \in Commands
  BY CommandAssumption DEF CommandInv, CommandTypeOK, Channels
<1> DEFINE n == sent[s] + size
           remaining == MaxBytes - command.bytes
           kept == IF size <= remaining THEN size ELSE remaining
           chunk == [stream |-> s, from |-> sent[s], to |-> sent[s] + kept]
           new == [c \in Channels |-> IF kept > 0 /\ c \in {s, "log"} THEN Appended(channel[c], chunk) ELSE channel[c]]
           counted == [command EXCEPT !.bytes = @ + kept, !.chunks = IF kept > 0 THEN @ + 1 ELSE @]
<1>1. /\ UNCHANGED <<phase, ended>> /\ phase # "closed" /\ s \notin ended /\ n <= MaxSent /\ sent' = [sent EXCEPT ![s] = n]
      /\ IF command.settled \/ command.limited THEN UNCHANGED <<command, channel, reader, terminator>>
         ELSE IF command.chunks >= MaxChunks THEN Limited(command, channel)
         ELSE IF kept < size THEN Limited(counted, new)
         ELSE command' = counted /\ ChannelsBecome(new) /\ UNCHANGED terminator
  BY DEF CommandOnOutput, OnOutput
<1>2. /\ n \in 0..MaxSent /\ sent[s] \in 0..MaxSent /\ sent[s] <= n /\ kept \in 0..size /\ kept <= remaining /\ sent[s] + kept \in 0..n
      /\ command.bytes \in 0..MaxBytes /\ command.chunks \in 0..MaxChunks
  BY <1>0, <1>1 DEF Commands
<1>3. sent' \in [Streams -> 0..MaxSent] /\ sent'[s] = n /\ \A t \in Streams \ {s} : sent'[t] = sent[t]
  BY <1>0, <1>1, <1>2
<1>4. \A t \in Streams : sent[t] <= sent'[t]
  <2>1. \A t \in Streams \ {s} : sent[t] <= sent'[t]
    BY <1>0, <1>3
  <2> QED
    BY <1>2, <1>3, <2>1
<1>5. channel[s].state # "closed"
  BY <1>0, <1>1 DEF EndsPlaced
<1>6. kept > 0 => chunk \in Chunks /\ chunk.stream = s /\ chunk.from = sent[s] /\ chunk.to <= n /\ (kept = size => chunk.to = n)
  BY <1>0, <1>2 DEF Chunks
<1>7. command.chunks < MaxChunks => counted \in Commands /\ counted.settled = command.settled /\ counted.limited = command.limited
  <2> DEFINE b == command.bytes + kept
             m == IF kept > 0 THEN command.chunks + 1 ELSE command.chunks
  <2>1. command.chunks < MaxChunks => b \in 0..MaxBytes /\ m \in 0..MaxChunks
    BY <1>0, <1>2
  <2>2. counted = [command EXCEPT !.bytes = b, !.chunks = m]
    OBVIOUS
  <2> HIDE DEF b, m, counted, kept
  <2> QED
    BY <1>0, <2>1, <2>2 DEF Commands
<1>8. new = [c \in Channels |-> new[c]]
      /\ \A c \in Channels : new[c] = IF kept > 0 /\ c \in {s, "log"} THEN Appended(channel[c], chunk) ELSE channel[c]
  OBVIOUS
<1> HIDE DEF n, remaining, kept, chunk, new, counted
<1>9. ASSUME command.settled \/ command.limited PROVE CommandInv'
  <2>1. command.limited /\ UNCHANGED <<phase, ended, command, channel, reader, terminator>>
    BY <1>0, <1>1, <1>9 DEF EndsPlaced
  <2>2. ReadersKept
    BY <1>0, <2>1, ReadersCome
  <2>3. CommandTypeOK' /\ EndsPlaced'
    BY <1>0, <1>3, <2>1 DEF CommandTypeOK, EndsPlaced
  <2>4. channel[s].state \notin {"open", "closed"}
    BY <1>0, <1>5, <2>1 DEF EndsPlaced
  <2>5. LogInterleaves' /\ CapturePlaced'
    BY <1>3, <1>4, <2>1, <2>4, NothingCaptured
  <2> QED
    BY <2>2, <2>3, <2>5 DEF CommandInv, ReadersKept
<1>10. ASSUME ~command.settled, ~command.limited, command.chunks >= MaxChunks PROVE CommandInv'
  <2>1. Limited(command, channel)
    BY <1>1, <1>10
  <2>2. channel' = [c \in Channels |-> Finished(channel[c], "failed")]
    BY <2>1 DEF Limited, ChannelsBecome
  <2>3. \A c \in Channels : /\ channel'[c].values = channel[c].values /\ Grows(channel[c], Finished(channel[c], "failed"))
                            /\ channel'[c].state \in {"open", "closed"} => channel[c].state = "closed"
    BY <1>0, <2>2, ChannelSteps
  <2>4. LogInterleaves' /\ CapturePlaced'
    BY <1>0, <1>3, <1>4, <1>5, <2>3, NothingCaptured
  <2> QED
    BY <1>0, <1>1, <1>3, <2>1, <2>3, <2>4, LimitKeeps
<1>a. ASSUME ~command.settled, ~command.limited
      PROVE  \A c \in Channels :
               /\ new[c] \in ReplayChannels /\ Grows(channel[c], new[c]) /\ Grows(channel[c], Finished(new[c], "failed"))
               /\ new[c].state = channel[c].state /\ Finished(new[c], "failed").values = new[c].values
               /\ Finished(new[c], "failed").state \in {"open", "closed"} => channel[c].state = "closed"
               /\ new[c].values = IF kept > 0 /\ c \in {s, "log"} THEN Append(channel[c].values, chunk) ELSE channel[c].values
  <2>1. channel[s].state = "open" /\ channel["log"].state = "open"
    BY <1>1, <1>a, <1>0 DEF EndsPlaced
  <2> SUFFICES ASSUME NEW c \in Channels
               PROVE  /\ new[c] \in ReplayChannels /\ Grows(channel[c], new[c]) /\ Grows(channel[c], Finished(new[c], "failed"))
                      /\ new[c].state = channel[c].state /\ Finished(new[c], "failed").values = new[c].values
                      /\ Finished(new[c], "failed").state \in {"open", "closed"} => channel[c].state = "closed"
                      /\ new[c].values = IF kept > 0 /\ c \in {s, "log"} THEN Append(channel[c].values, chunk) ELSE channel[c].values
    OBVIOUS
  <2>2. channel[c] \in ReplayChannels
    BY <1>0
  <2>3. CASE kept > 0 /\ c \in {s, "log"}
    <3>1. channel[c].state = "open" /\ chunk \in Chunks /\ new[c] = Appended(channel[c], chunk)
      BY <1>6, <1>8, <2>1, <2>3
    <3> QED
      BY <2>2, <2>3, <3>1, ChannelSteps, SMTT(30)
  <2>4. CASE ~(kept > 0 /\ c \in {s, "log"})
    <3>1. new[c] = channel[c]
      BY <1>8, <2>4
    <3> QED
      BY <2>2, <2>4, <3>1, ChannelSteps
  <2> QED
    BY <2>3, <2>4
<1>11. ASSUME ~command.settled, ~command.limited, command.chunks < MaxChunks, kept < size PROVE CommandInv'
  <2>1. Limited(counted, new)
    BY <1>0, <1>1, <1>2, <1>11
  <2>2. channel' = [c \in Channels |-> Finished(new[c], "failed")]
    BY <2>1 DEF Limited, ChannelsBecome
  <2>3. \A c \in Channels : channel'[c].values = new[c].values /\ (channel'[c].state \in {"open", "closed"} => channel[c].state = "closed")
    BY <1>a, <1>11, <2>2
  <2>4. LogInterleaves' /\ CapturePlaced'
    <3>1. CASE kept > 0
      <4>1. \A c \in Channels :
              channel'[c].values = IF c \in {s, "log"} THEN Append(channel[c].values, chunk) ELSE channel[c].values
        BY <1>a, <1>11, <2>3, <3>1
      <4>2. /\ \A t \in Streams : channel'[t].state \in {"open", "closed"} => channel[t].state \in {"open", "closed"}
            /\ channel'[s].state \notin {"open", "closed"}
        BY <1>0, <1>5, <2>3
      <4>3. chunk \in Chunks /\ chunk.stream = s /\ chunk.from = sent[s] /\ chunk.to <= n
            /\ n \in 0..MaxSent /\ sent' = [sent EXCEPT ![s] = n]
        BY <1>1, <1>2, <1>6, <3>1
      <4> QED
        BY <4>1, <4>2, <4>3, ChunkCaptured
    <3>2. CASE ~(kept > 0)
      <4>1. \A c \in Channels : channel'[c].values = channel[c].values
        BY <1>a, <1>11, <2>3, <3>2
      <4> QED
        BY <1>0, <1>3, <1>4, <1>5, <2>3, <4>1, NothingCaptured
    <3> QED
      BY <3>1, <3>2
  <2> QED
    BY <1>1, <1>3, <1>7, <1>11, <1>a, <2>1, <2>4, LimitKeeps
<1>12. ASSUME ~command.settled, ~command.limited, command.chunks < MaxChunks, ~(kept < size) PROVE CommandInv'
  <2>1. command' = counted /\ ChannelsBecome(new) /\ UNCHANGED terminator /\ kept = size /\ kept > 0
    BY <1>0, <1>1, <1>2, <1>12
  <2>2. channel' = new /\ ReadersKept /\ new \in [Channels -> ReplayChannels]
    BY <1>0, <1>8, <1>a, <1>12, <2>1, ReadersFollow, ChannelTypes DEF ChannelsBecome
  <2>3. CommandTypeOK'
    BY <1>0, <1>1, <1>3, <1>7, <1>12, <2>1, <2>2 DEF CommandTypeOK, ReadersKept
  <2>4. \A c \in Channels : channel'[c].state = channel[c].state
    BY <1>a, <1>12, <2>2
  <2>5. EndsPlaced'
    BY <1>0, <1>1, <1>7, <1>12, <2>1, <2>4 DEF EndsPlaced
  <2>6. \A c \in Channels :
          channel'[c].values = IF c \in {s, "log"} THEN Append(channel[c].values, chunk) ELSE channel[c].values
    BY <1>a, <1>12, <2>1, <2>2
  <2>7. LogInterleaves' /\ CapturePlaced'
    <3>1. chunk \in Chunks /\ chunk.stream = s /\ chunk.from = sent[s] /\ chunk.to <= n /\ chunk.to = n
          /\ n \in 0..MaxSent /\ sent' = [sent EXCEPT ![s] = n]
      BY <1>1, <1>2, <1>6, <2>1
    <3>2. \A t \in Streams : channel'[t].state \in {"open", "closed"} => channel[t].state \in {"open", "closed"}
      BY <1>0, <2>4
    <3> QED
      BY <2>6, <3>1, <3>2, ChunkCaptured
  <2> QED
    BY <2>2, <2>3, <2>5, <2>7 DEF CommandInv, ReadersKept
<1> QED
  BY <1>0, <1>2, <1>9, <1>10, <1>11, <1>12

LEMMA CommandStart == CommandInit => CommandInv
<1> SUFFICES ASSUME CommandInit PROVE CommandInv
  OBVIOUS
<1>1. PICK input \in Inputs :
        command = [thrown |-> FALSE, settled |-> FALSE, limited |-> FALSE, bytes |-> 0, chunks |-> 0,
                   connected |-> "pending", completion |-> "pending", deadline |-> FALSE, input |-> input, terminate |-> "unsupported"]
  BY DEF CommandInit
<1>2. /\ channel = [c \in Channels |-> [values |-> <<>>, state |-> "open"]]
      /\ reader = [r \in Readers |-> [of |-> "none", got |-> <<>>, queue |-> <<>>, waiting |-> FALSE, state |-> "idle"]]
      /\ terminator = [t \in Terminators |-> "idle"] /\ sent = [s \in Streams |-> 0]
      /\ phase = "preparing" /\ ended = {} /\ Streams \subseteq Channels
  BY DEF CommandInit, EventsInit, Channels
<1>3. command \in Commands
  BY <1>1, CommandAssumption DEF Commands, Promise
<1>4. channel \in [Channels -> ReplayChannels]
  BY <1>2 DEF ReplayChannels
<1>5. reader \in [Readers -> Subscribers]
  BY <1>2 DEF Subscribers
<1>6. CommandTypeOK
  BY <1>2, <1>3, <1>4, <1>5, CommandAssumption DEF CommandTypeOK
<1>7. ReadersSeeAll /\ ReadersPlaced
  BY <1>2 DEF ReadersSeeAll, ReadersPlaced
<1>8. LogInterleaves
  <2>1. \A c \in Channels : channel[c].values = <<>> /\ "log" \in Channels
    BY <1>2 DEF Channels
  <2>2. InOrder(<<>>) /\ \A s : Of(<<>>, s) = {}
    BY DEF InOrder, Of
  <2> QED
    BY <1>2, <2>1, <2>2 DEF LogInterleaves
<1>9. EndsPlaced
  BY <1>1, <1>2 DEF EndsPlaced, Channels
<1>10. CapturePlaced
  BY <1>2 DEF CapturePlaced, Covers
<1> QED
  BY <1>6, <1>7, <1>8, <1>9, <1>10 DEF CommandInv

LEMMA CommandKeeps == CommandInv /\ [CommandNext]_allCommandVars => CommandInv'
<1> SUFFICES ASSUME CommandInv, [CommandNext]_allCommandVars PROVE CommandInv'
  OBVIOUS
<1>1. CASE CommandConnects \/ ConstructorThrows \/ CommandOnConnect \/ CommandOnComplete \/ CommandOnError
  BY <1>1, CallbackSteps, StepKeeps
<1>2. CASE InputSettles \/ Expire \/ ReaderSteps \/ UNCHANGED allCommandVars
  BY <1>2, ApplicationSteps, StepKeeps
<1>3. CASE \E t \in Terminators : Terminate(t) \/ TerminateRequests(t) \/ TerminateConfirmed(t) \/ TerminateExpires(t)
  BY <1>3, TerminateSteps, StepKeeps
<1>4. CASE \E s \in Streams : CommandOnEos(s) \/ \E size \in 1..MaxSent : CommandOnOutput(s, size)
  BY <1>4, EosKeeps, OutputKeeps
<1> QED
  BY <1>1, <1>2, <1>3, <1>4 DEF CommandNext, ReaderSteps

\* A reader whose stream has not failed has read, or will find in its queue, every chunk that is
\* captured from the first, whenever it subscribes, and at its end has read them all; a failure takes
\* only what it had not read; what is captured has each byte once, in order, in its stream and in the log; and
\* output that closes without an error is all that the process sent, whatever limit is set.
THEOREM CaptureSound == CommandSpec => []CaptureFaithful
<1>1. CommandInv => CaptureFaithful
  BY DEF CommandInv, CaptureFaithful, CapturePlaced, NoSilentTruncation
<1> QED
  BY <1>1, CommandStart, CommandKeeps, PTL DEF CommandSpec
=============================================================================
