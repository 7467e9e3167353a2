----------------------------- MODULE EngineHTTP -----------------------------
(* The HTTP client of the engine (tunnels/src/engine-http.ts, http-lifetime.ts and   *)
(* node-engine-http.ts): requests and event streams that share one discovery of the  *)
(* mutual-TLS endpoint, each bounded by a deadline, its caller's signal and close(). *)
(*                                                                                   *)
(* An action is the code of one request between two awaits, or the end of a flight.  *)
EXTENDS Naturals, Sequences

CONSTANTS Requests,    \* calls of response() and eventStream()
          Engines,     \* addresses that they are for
          MaxFlights,  \* discoveries
          MaxBody,     \* chunks of a body
          BodyLimit    \* chunks that readBoundedText accepts

ASSUME EngineAssumption == {MaxFlights, MaxBody, BodyLimit} \subseteq Nat

NoEngine == "none"
ASSUME NoEngineAssumption == NoEngine \notin Engines

VARIABLES
  engine,   \* the EngineHTTP object
  flight,   \* the discoveries
  request   \* the calls

engineVars == <<engine, flight, request>>

Active == {"discovering", "resolved", "fetching", "reading", "streaming"}

EngineRecords ==
  [mode : {"direct", "discovered"},
   closed : BOOLEAN,
   cached : Engines \union {NoEngine},  \* discovery.source
   fresh : BOOLEAN,                     \* discovery.expiresAt > Date.now()
   flight : 0..MaxFlights]              \* this.flight, 0 for none
FlightRecords == [of : Engines, state : {"pending", "resolved", "refused", "rejected"}]
RequestRecords ==
  [kind : {"response", "stream"},
   of : Engines \union {NoEngine},
   base : Engines \union {NoEngine},    \* the URL of whose API is used
   stage : {"idle", "done", "failed"} \union Active,
   flight : 0..MaxFlights,
   timer : BOOLEAN,
   ok : BOOLEAN,      \* the status of the response
   body : 0..MaxBody] \* chunks read

EngineTypeOK ==
  /\ engine \in EngineRecords
  /\ flight \in Seq(FlightRecords) /\ Len(flight) <= MaxFlights
  /\ request \in [Requests -> RequestRecords]

EngineInit ==
  /\ \E mode \in {"direct", "discovered"} :
       engine = [mode |-> mode, closed |-> FALSE, cached |-> NoEngine, fresh |-> FALSE, flight |-> 0]
  /\ flight = <<>>
  /\ request = [r \in Requests |->
       [kind |-> "response", of |-> NoEngine, base |-> NoEngine, stage |-> "idle", flight |-> 0,
        timer |-> FALSE, ok |-> TRUE, body |-> 0]]

-----------------------------------------------------------------------------
(* What happens to a request *)

\* The catch drops the cached discovery unless the engine answered with an error status.
Dropped(e) == [e EXCEPT !.cached = NoEngine, !.fresh = FALSE]
Stopped(q, stage) == [q EXCEPT !.stage = stage, !.timer = FALSE, !.flight = 0]

\* this.flight is cleared once it has settled and a waiter has left it.
Settled(f) == flight[f].state # "pending"
Left(e, f) == IF e.flight = f THEN [e EXCEPT !.flight = 0] ELSE e

RequestBecomes(r, q) == request' = [request EXCEPT ![r] = q]
Fails(r) ==
  LET f == request[r].flight
      left == IF f # 0 /\ Settled(f) THEN Left(engine, f) ELSE engine
  IN /\ RequestBecomes(r, Stopped(request[r], "failed"))
     /\ engine' = Dropped(left)
     /\ UNCHANGED flight

\* The flight that a call for e joins.
ReusableForAny(e) == engine.flight # 0
Reusable(e) == engine.flight # 0 /\ flight[engine.flight].of = e

\* response() or eventStream() and apiURL() up to the first await: the URL is that of the
\* engine itself, the cached one, that of the flight for the engine, or a new flight.
CallEngine(r, e, kind) ==
  /\ request[r].stage = "idle"
  /\ LET q == [request[r] EXCEPT !.kind = kind, !.of = e, !.timer = TRUE]
         reused == Reusable(e)
     IN \/ /\ engine.closed
           /\ RequestBecomes(r, Stopped(q, "failed"))
           /\ engine' = Dropped(engine) /\ UNCHANGED flight
        \/ /\ ~engine.closed /\ (engine.mode = "direct" \/ (engine.cached = e /\ engine.fresh))
           /\ RequestBecomes(r, [q EXCEPT !.stage = "resolved", !.base = e])
           /\ UNCHANGED <<engine, flight>>
        \/ /\ ~engine.closed /\ engine.mode = "discovered" /\ ~(engine.cached = e /\ engine.fresh)
           /\ reused \/ Len(flight) < MaxFlights
           /\ flight' = IF reused THEN flight ELSE Append(flight, [of |-> e, state |-> "pending"])
           /\ engine' = [engine EXCEPT !.flight = IF reused THEN @ ELSE Len(flight')]
           /\ RequestBecomes(r, [q EXCEPT !.stage = "discovering", !.flight = engine'.flight])

\* discover() ends: the document is there and valid, or the engine answers with an error status,
\* or anything else fails, its 5 seconds pass or the client is closed.
FlightSettles(f) ==
  /\ flight[f].state = "pending"
  /\ \E state \in {"resolved", "refused", "rejected"} :
       /\ engine.closed => state # "resolved"
       /\ flight' = [flight EXCEPT ![f].state = state]
  /\ engine' = IF \E r \in Requests : request[r].flight = f THEN engine ELSE Left(engine, f)
  /\ UNCHANGED request

\* apiURL() after the await: the discovery is stored, fresh unless it may not be cached.
Discovered(r) ==
  /\ request[r].stage = "discovering" /\ flight[request[r].flight].state = "resolved"
  /\ LET f == request[r].flight
     IN /\ \E fresh \in BOOLEAN :
             engine' = [Left(engine, f) EXCEPT !.cached = flight[f].of, !.fresh = fresh]
        /\ RequestBecomes(r, [request[r] EXCEPT !.stage = "resolved", !.base = flight[f].of, !.flight = 0])
  /\ UNCHANGED flight

\* An error status of the discovery, too, leaves what is cached.
NotDiscovered(r) ==
  /\ request[r].stage = "discovering"
  /\ LET f == request[r].flight
     IN \/ flight[f].state = "rejected" /\ Fails(r)
        \/ /\ flight[f].state = "refused"
           /\ RequestBecomes(r, Stopped(request[r], "failed"))
           /\ engine' = Left(engine, f) /\ UNCHANGED flight

\* transport() and fetch(); transport() throws when the client is closed.
Fetch(r) ==
  /\ request[r].stage = "resolved"
  /\ IF engine.closed THEN Fails(r)
     ELSE RequestBecomes(r, [request[r] EXCEPT !.stage = "fetching"]) /\ UNCHANGED <<engine, flight>>

\* The header of the response; the timer of an event stream stops.
Responds(r, ok) ==
  /\ request[r].stage = "fetching"
  /\ LET streams == request[r].kind = "stream" /\ ok
     IN RequestBecomes(r, [request[r] EXCEPT !.stage = IF streams THEN "streaming" ELSE "reading",
                                             !.timer = ~streams, !.ok = ok])
  /\ UNCHANGED <<engine, flight>>

\* readBoundedText(): a chunk, or too many, or the end.  An error status does not drop the
\* discovery.
ReadChunk(r) ==
  /\ request[r].stage = "reading" /\ request[r].body < MaxBody
  /\ IF request[r].body + 1 > BodyLimit THEN Fails(r)
     ELSE RequestBecomes(r, [request[r] EXCEPT !.body = @ + 1]) /\ UNCHANGED <<engine, flight>>
ReadEnds(r) ==
  /\ request[r].stage = "reading"
  /\ RequestBecomes(r, Stopped(request[r], IF request[r].ok THEN "done" ELSE "failed"))
  /\ UNCHANGED <<engine, flight>>

\* A network error, an invalid event stream, or an abort of the request: by its timer, by
\* its caller, or by close().  What ends an open event stream leaves the discovery.
NetworkFails(r) == request[r].stage \in {"fetching", "reading"} /\ Fails(r)
Aborted(r) ==
  /\ request[r].stage \in Active
  /\ IF request[r].stage # "streaming" THEN Fails(r)
     ELSE RequestBecomes(r, Stopped(request[r], "failed")) /\ UNCHANGED <<engine, flight>>
Timeout(r) == request[r].timer /\ Aborted(r)
AbortedByCaller(r) == Aborted(r)
AbortedByClose(r) == engine.closed /\ Aborted(r)

\* close() of an event stream.
CloseStream(r) ==
  /\ request[r].stage = "streaming"
  /\ RequestBecomes(r, Stopped(request[r], "done"))
  /\ UNCHANGED <<engine, flight>>

\* The cached discovery expires.
DiscoveryExpires ==
  /\ engine.fresh
  /\ engine' = [engine EXCEPT !.fresh = FALSE]
  /\ UNCHANGED <<flight, request>>

\* close()
CloseEngine ==
  /\ ~engine.closed
  /\ engine' = [Dropped(engine) EXCEPT !.closed = TRUE]
  /\ UNCHANGED <<flight, request>>

FlightSteps == \E f \in 1..Len(flight) : FlightSettles(f)
RequestSteps(r) ==
  \/ Discovered(r) \/ NotDiscovered(r) \/ Fetch(r) \/ ReadChunk(r) \/ ReadEnds(r) \/ NetworkFails(r)
  \/ \E ok \in BOOLEAN : Responds(r, ok)
Deadlines(r) == Timeout(r) \/ AbortedByClose(r)

EngineNext ==
  \/ FlightSteps \/ DiscoveryExpires \/ CloseEngine
  \/ \E r \in Requests :
       \/ RequestSteps(r) \/ Deadlines(r) \/ AbortedByCaller(r) \/ CloseStream(r)
       \/ \E e \in Engines, kind \in {"response", "stream"} : CallEngine(r, e, kind)

\* Only timers and signals are owed: the engine may never answer.
EngineFairness == \A r \in Requests : WF_engineVars(Deadlines(r))
EngineSpec == EngineInit /\ [][EngineNext]_engineVars /\ EngineFairness

-----------------------------------------------------------------------------
(* Properties *)

\* A request goes to the endpoint of its own engine, although calls for other engines share
\* the cache and replace the flight (apiURL).
OwnEngine == EngineTypeOK /\ \A r \in Requests : request[r].base \in {NoEngine, request[r].of}

\* Every request ends, an event stream when the client is closed, whatever the engine and a
\* shared flight do (requestLifetime, waitWithSignal).
RequestsSettle ==
  \A r \in Requests :
    (request[r].stage \in Active /\ (request[r].kind = "response" \/ engine.closed))
      ~> (request[r].stage \in {"done", "failed"})
=============================================================================
