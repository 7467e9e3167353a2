# Verification of rstream-js

TLA+ models of the JavaScript SDK of rstream, checked with TLC and proved with
TLAPS: every safety invariant, action property and refinement that a passing run
checks is also a theorem, for all values of the constants. The reference is the source of this
repository; `PROJECT.json` maps every definition to the lines it translates.

## 1. The system

rstream-js is a monorepo. Its packages run in one JavaScript process each, so
there are no threads: concurrency comes from callbacks (sockets, timers,
`AbortSignal`s, promises) that run between any two `await`s.

| Component | State it keeps | Operations | Talks to |
| --- | --- | --- | --- |
| Control channel (`runtime/src/control-channel.ts`) | pending creates and closes, open tunnels, write chain, proxy pool, timers | `createTunnel`, `closeTunnel`, `close`, read loop, proxy dispatch, heartbeats | engine over one TLS socket; tunnels by `deliver`/`onClose` |
| Tunnel and accept queue (`tunnel.ts`, `queue.ts`) | delivered sockets, waiting accepts, closed flag | `accept`, `close`, `deliver`, `onClose`, `serve` | control channel, application |
| Runtime client (`client.ts`, `protocol.ts`, `config.ts`, `transport.ts`) | cached options, HTTP client; per connection a framed reader | `connect`, `dial`, proxy connections, handshakes | engine, files, environment |
| Engine HTTP (`tunnels/src/engine-http.ts`, `http-lifetime.ts`, `tunnels.ts`) | discovery cache and its single flight, HTTP pools | `apiURL`, `response`, `eventStream`, `close` | engine API |
| Watch (`tunnels/src/watch.ts`) and the inventory hook (`react/src/hooks/use-rstream.ts`) | connection state, event source; inventory, reconnection timer | `connect`, `disconnect`; effect, cleanup, reducers | engine events, React |
| WebTTY client (`webtty/src/webtty.ts`, `execution.ts`, `transport-frames.ts`, `replay.ts`) | session state, receive and send queues, end-of-stream flags, frame buffer | `connect`, `writeStdin`, `resize`, `disconnect`, message handling | WebSocket or WebTransport |
| WebTTY keys (`e2e-crypto.ts`, `local-e2e.ts`, `auth-proof.ts`) | key material, sequence numbers | derive, seal, open | WebTTY client |
| Filesystem (`filesystem/src/rtc.ts`, `remote.ts`, `webdav.ts`, `uploads.ts`) | per response: receive queue, credit, lease timer | read, upload, list | WebRTC peer, HTTP |
| File sharing (`utils/src/file-sharing.ts`) | partial blocks, counters | decrypt streams | Web Streams |
| UI (`terminal-ui`, `react/src/components`, `apps/web`) | tabs, focus | React components | WebTTY client |
| Control-plane SDK (`rstream`), resources (`tunnels/src/*-resource.ts`, `turn.ts`) | none | one HTTP request per call | API |

What makes each of them correct, and what is hard about it, is listed hazard by
hazard in `PROJECT.json`. The hard behaviours are: state looked up before an
`await` and used after it; a channel, tunnel or session that closes while calls,
handshakes and queued items are in flight; pools and windows at their limit; and
timers racing late answers.

## 2. Plan

Done, in this order:

1. `ControlChannel` with tunnels, accept queues and proxy connections, the
   abstract specification `StreamAdmission`, proofs.
2. `ControlLiveness`: heartbeats in time, proved.
3. `Watch` (proved) and `Inventory`, the hook composed with its watches, proved.
4. `WebTTYSession` and the abstract `WebTTYEvents` that it implements;
   `WebTTYCommand`, which runs over any session that `WebTTYEvents` allows. All
   of it proved.
5. `EngineHTTP`, `RTCTransfer`, `Dial`, `Uploads`, `TURNCredentials`, proved.
6. Functions of their input: `ClientConfig`, `WebTTYKeys` and `Replay`, and the decoders
   of `ByteStreams`, proved.
7. `Data`, the composition of the components that owe nobody an end, proved.

Open: the tab reducer of the terminal workspace; the cached option resolution of
the runtime client.

Modules that share no state are checked by two composing modules, `MCClients`
(those that owe their callers an end: with fairness) and `Data` (safety only, with
its instances in `MCData`). In each an initial state chooses the `actor`, and the
others stay as they are, so a run is the union of the components' state graphs and
not their product. What a resting component of `Data` is given (`Resting`) is one of its
own initial states, so that each behaves in the composition as it does alone: the
theorem `SideBySide` (section 10).

| Proofs of | are in |
| --- | --- |
| `ControlChannel`, `StreamAdmission` | `ControlChannelProofs` |
| `ControlLiveness` | `ControlLivenessProofs` |
| `Inventory` | `InventoryProofs` |
| `WebTTYSession`, `WebTTYEvents` | `WebTTYProofs` |
| `EngineHTTP`, `RTCTransfer`, `WebTTYCommand` | `ClientsProofs` |
| `ByteStreams` | `StreamProofs` |
| `Replay` | `ReplayProofs` |
| `Watch`, `Dial`, `TURNCredentials`, `Uploads`, `ClientConfig`, `WebTTYKeys`, `Data` | `DataProofs` |

## 3. ControlChannel

One instance is one channel after its handshake. A *task* is an application
coroutine that calls `close()` and `accept()`; a *tunnel* is one call of
`createTunnel` and the tunnel the engine makes of it; a *stream* is one
`ProxyConnReq`.

An action is the code between two awaits. The state follows the fields:

| TLA+ | Code |
| --- | --- |
| `create`, `created`, `pendingTunnels` | where a `createBytestreamTunnel` call is, its promise, the map of that name |
| `tunnel` | the `BytestreamTunnelImpl` objects; `tunnels` holds the open ones |
| `closer`, `pendingCloses`, `closeDone` | calls of `tunnel.close()`, the map of that name, the promise of its `PendingClose` |
| `values`, `waiters`, `accept` | `AsyncQueue` and the calls of `accept()` |
| `closing`, `closed`, `shutdown`, `up` | the flags, calls of `close()`, whether the socket works |
| `message` | what `reader.read()` returned and the read loop has not handled |
| `writeChain`, `received` | frames whose write has not called back, the first on the socket; frames the engine has |
| `handler`, `socket`, `proxyQueue`, `activeProxyConnections` | `handleProxyConnReq` of each stream, its payload socket, the pool |

Details that are easy to get wrong and are modelled: `dispatchProxyConnReq` runs
the handler synchronously up to its first await; the `finally` that returns a
slot runs in a later step than the handler's last statement; writes fail one by
one after the socket is gone; the catch of `handleProxyConnReq` answers a second
time when the answer could not be written; `finish()` drops the queue, rejects
calls, closes tunnels and destroys queued sockets in one step; a message read
before `finish()` is still handled after it.

The engine is external. It answers only what it was asked (it may do so as soon
as a frame is on the socket, before the write calls back), may close tunnels on
its own, asks for streams of tunnels it has opened, also just after they closed,
and may break the connection at any time. No queue of received messages is
needed: what the engine may send next never depends on what it sent and the
client has not handled yet, so sending late loses no behaviour.

Left out: contents of requests and properties, logging, `serve`/iterator loops
(they only call `accept`), a queued socket whose remote end closes before it is
accepted, and undecodable frames. Frames are taken apart in `Dial`.

### StreamAdmission

What the runtime's README promises of streams: admitted only through an open
tunnel, established in order, withdrawn with their tunnel as long as nobody
accepted them, left alone once established. `ImplementsAdmission` maps a tunnel's
state to its phase, its queue to the line, and a payload socket to what became of
the stream, and checks `Admission!Spec` as a property of the channel.

### Runs

| Run | Instance | Shows |
| --- | --- | --- |
| `pool` | 1 tunnel, 1 task, 3 streams, 1 slot, 1 queue place; 174,234 states | `ProxySlots`, `SocketsOwned`, `AnswersTruthful`, `ImplementsAdmission` |
| `calls` | 1 tunnel, 2 tasks, 2 streams; 800,520 states | `CallersAnswerable`, `ClosesCoalesced`, `NoOpenAfterShutdown` |
| `live` | 1 tunnel, 1 task, 2 streams, fairness; 110,819 states | `CallsSettle`, `ShutdownDrains`, `StreamsAnswered` |
| `rejection` | 1 stream, 1 task | violates `NoUnhandledRejection` (finding) |
| `no_id` | the engine may answer without a tunnel id | violates `CallersAnswerable` (finding) |

With one slot and one queue place three streams are what it takes to fill the
pool, fill the queue and overflow it. Two tasks are what it takes for concurrent
closes, competing accepts and an accept that aborts while another waits. Tunnels
interact only through the pool and `finish()`, which treats them alike; two
tunnels with one task and one stream each were checked too (418,849 states) and
show the same. Streams and tasks are interchangeable in `pool` and `calls`, where
`Symmetry` is sound: no constant tells them apart; `live` uses none. The runs turn
deadlock checking off because a finished channel with all calls returned stops.

Fairness (`FairSpec`): the event loop runs each callback that is due, so every
step of the client's own code is weakly fair; dials and proxy handshakes end;
the engine answers what it was asked while the connection is up. The application
owes nothing: it need not call, accept or abort. A proxy peer that never answers
would keep its handler: `openProxyConnection` has no timeout of its own and stops
looking at the abort signal after the dial. That assumption is stated in the
hazards.

## 4. ControlLiveness

Time in ticks. A timer fires in the tick in which it is due, before or after what
the network delivers in that tick; time does not pass a due timer. A heartbeat
takes up to `WriteTicks` to be written. A healthy engine acknowledges each
heartbeat at most `AckTicks` after it was sent, unless it skips it, and skips
fewer than `AckEvery` in a row. From any moment on the engine may turn unhealthy:
silent, or sending any number.

| Run | Instance | Shows |
| --- | --- | --- |
| `liveness` | interval 3, timeout 11, writes 0..1, acknowledgements 0..2, every second heartbeat; 198,597 states | `TypeOK`, `SilenceNoticed`, `TimersKept`, `HealthyEngineTrusted`, `HealthyEngineKept` |

`MaxSafeInteger` is 7, which lets the counter reach its end; it also bounds time,
since no channel outlives its heartbeats. The `liveness` instance is the tightest
for which `HealthyEngineKept` holds: with timeout 10 it fails, which is the bound
of the theorem, `timeout > AckEvery * (interval + WriteTicks) + AckTicks`.
`negotiatedHeartbeatTimeout` also accepts policies below that bound (a timeout equal
to the interval), under which a healthy but slow engine loses its channel.

## 5. Watch

`watch[w]` is a `Watch` object: `state` is `connectionState`, `aborted` its signal,
`connect` the await at which `connect()` is, `source` the `EventSource`, `WebSocket`
or HTTP response, `arrived` whether `reader.read()` has returned a chunk that
`readCertificateEvents` has not handled. `call` is the callback of the last step,
so that a module may compose it. The network opens, breaks, sends and ends at will;
an `EventSource` that nobody closed connects again. `hasty` records that
`disconnect()` met the token path at an await: the case of the finding, and the
only exception that `ClosedIsReleased` and `CloseIsLast` make.

| Run | Instance | Shows |
| --- | --- | --- |
| `data`, actor `watch` | one watch of each transport; 7,558 states | `ClosedIsReleased`, `CloseIsLast`, types in `DataTypeOK` |
| `watch_leak` | the same | violates `ClosedMeansClosed` (finding) |

Watches share nothing, so one of each transport is every case.

## 6. Inventory

`Inventory` extends `Watch`: each step of the network is the watch's own action
conjoined with the hook's callback, which runs inside it. React is modelled as far
as the hook depends on it: what callbacks set (`state`, `inventoryKey`, `clients`)
is seen by the next `Render`, whose `Effects` run later and before the render
after it, cleanups first. `Effects` runs those whose dependencies changed: the one
that connects depends on the key and on `reconnectTimeout` (`Delays`), the one that
clears on the key and the state. `Clear` is the 0 ms timer of the clearing effect,
`Reconnect` the timer of `schedule()`. `mine` holds the watches of the mounted
runtime, which is what its `active` flag tells apart. `listed` is not in the code:
it is what the engine has listed on the present connection, the reference that
`InventoryCurrent` compares the shown arrays with. An engine with a filter may admit
an object by an update, so `OnEvent` lets it create, update and delete any object.
It may also leave out the id: to the reducers the objects without one are one and the
same, so an event about one of them drops or replaces the others. Of those objects
`InventoryCurrent` therefore says only that nothing is shown but what the engine told
on this connection. A list is the set of its objects, so two equal objects without an
id count once.

A place of `Watches` is used again once nothing can come of its object
(`Gone`); `PlacesLeft` bounds how many abandoned connections there are at a time.

| Run | Instance | Shows |
| --- | --- | --- |
| `inventory` | 2 watches, 2 keys, 2 delays, an object with an id and one without, each in 2 versions; 161,118 states | `InventoryCurrent`, `OneAttempt`, `Reconnects` |
| `inventory_state` | the same | violates `StateHonest` (finding) |

Two watches are an abandoned one and its successor, two keys a change and its
reversal. The safety properties were also checked with three watches (262,590
states, one object and one delay). `Unhurried` assumes that React renders, runs
effects and fires the 0 ms timer before the network delivers the next event. Without
it `InventoryCurrent` fails: a snapshot that overtakes the clearing timer is cleared
by it. That needs a connection to open, and to send, within the delay of a 0 ms
timer, which the browser may stretch for a page in the background.

The options may change at any time, also before the 0 ms timer. `InventoryCurrent`
holds during every effect of a render with one exception (`Leftover`):
authentication is removed, and given again before the timer that its removal armed.
The cleanup has silenced the watch, so `state` and `inventoryKey` are as they were, and
the render that has authentication again shows the clients of the closed watch once
more, until its effect runs (`use-rstream.ts:236-237`); `react/README.md:77-78` says that
data is hidden while authentication is switched.

Fairness (`InventoryFairSpec`): React renders what was set and runs effects, timers
fire, and tokens, engines and connections that are tried again and again succeed
again and again. The options may change for ever; `Reconnects` is about options
that stay.

## 7. WebTTYSession, WebTTYEvents and WebTTYCommand

`WebTTYSession` is a `WebTTY` object with its connection. `session` holds the fields of
the object, `link` the connection (`stage` of its opening, the `carrier`, the
WebTransport `stream`), `inbox` and `queue` the messages on the way and behind the
promise chain of `trackReceiveQueue`, `writer` the frames that
`WebTransportMessageConnection` has not written, `wire` what reached the connection.
An action is the code between two awaits: a message handler up to its `await` of
`decryptStdout`, the rest of it after; `open()` up to each of its promises; one
callback of the transport; one call of the application, which may also come from
inside `onConnect`. The server is external and sends anything at any time. `seen`
records what happened only for the properties. The hooks of `payloadCrypto` are part of
the configuration and independent of how the session opens; a hook may return at once
or a promise, throw or reject, and an encrypted payload without a hook is an error. The
first message of a session (`Begins`) may be sent (`HandleOpen`), be too long or throw where that
is caught, which closes the session (`OpenRefused`), or throw where nothing catches it
(`OpenThrows`): the session then waits until the peer or the user ends it.

`WebTTYEvents` is what a session promises the callbacks it was given: `onConnect` at
most once, output and ends of streams only while connected and nothing of a stream
after its end, one of `onComplete` and `onError`, and nothing after it.
`ImplementsEvents` maps a session's state and its ended streams to it.
`WebTTYCommand` extends `WebTTYEvents` and not the session: its callbacks run in the
step of the event, so what holds of a command holds over every session that keeps
those promises. A reader has the queue of its `ReadableStream` and one read at a time:
a chunk that was enqueued is not yet read. `controller.close()` leaves the queue to be
read, `controller.error()` throws it away, so that a reader of a failed channel keeps
what it has read, a prefix of what was captured, and one that subscribes after the
failure gets the error only.

| Run | Instance | Shows |
| --- | --- | --- |
| `webtty` | 4 kinds of session, one output stream, 3 messages, 2 calls, queues of 2; 732,992 states | `ImplementsEvents`, `ResultNotLost`, `InputInOrder`, `HoldsNothing`, `Settles` |
| `clients`, actor `command` | 2 streams, 2 terminations, 1 reader, limits of 2 | `CaptureFaithful`, `LimitSettles` in `ClientsSettle` |

Three messages are an acknowledgement, the end of a stream and an exit status,
in any order and with any other message in between; two calls are a write and the
end of input, or two writes that overlap. With two output streams a session that
completes takes four messages: its safety was checked too, for a WebSocket with
end-to-end keys, a hook for one of the streams and one call (606,792 states). Fairness (`Progress`): promises that
are pending settle and callbacks that are due run; the server and the
application owe nothing. Exceptions that the properties name, because the code
makes no promise there: `InputInOrder` exempts writes that overlap (they are sent in
the order in which their encryption settles), `HoldsNothing` the heartbeat timer of a
session that was closed inside `onConnect`, which is armed after it.

## 8. EngineHTTP, RTCTransfer, Dial, Uploads, TURNCredentials

`EngineHTTP`: `engine` is the client object with its cache and `this.flight`, `flight` the
discoveries, `request` the calls of `response()` and `eventStream()`. A flight that
has been replaced goes on, and its waiters with it. `RTCTransfer`: `fetch` is
`transportFetch` with its discovery and direct request, `transfer` the `RTCResponse`,
`body` the stream of its response, `dataChannel` the frames on their way, `owner` the
external peer, which keeps to its credits, may lie about sizes and may stop or
fail at any time. `Dial`: `dial` is a call of `dial()`, `connect()` or
`openProxyConnection()` with its sockets and the counts of its `FramedReader`: bytes are
half frames. A frame may be too large, which ends the reader, or malformed, which throws
out of its listener and ends nothing; `uncaught` notes that, and an error of a socket that
nobody listens to (a write to the proxy or of a request without an answer, a connection
lost while the certificate of the proxy is read). Node ends the process then, unless the
program prevents it, in which case the model goes on. `Uploads`: `fileCall` the calls of the client; `attempt`, `file` and `done`
the owner, external, which crashes and resumes; what answers may also be an older
owner or a cache. `TURNCredentials`: `turn` the calls, `project` the shared resolution
of the managed project.

| Run | Instance | Shows |
| --- | --- | --- |
| `clients`, actor `engine` | 2 requests, 2 engines, 2 discoveries | `OwnEngine`, `RequestsSettle` in `ClientsSettle` |
| `clients`, actor `transfer` | window 2, 3 data frames, every method and backend | `TransferTruthful`, `WindowSuffices`, `ResponseSettles` in `ClientsSettle` |
| `data`, actor `dial` | a `connect` and a `dial`, 2 half frames of payload | `NoSocketLeaked`, `PayloadIntact` |
| `data`, actor `uploads` | 2 calls, 2 ids, 2 paths, 2 contents | `ReceiptsAreEvidence` |
| `data`, actor `turn` | one call, every mode and credential, lifetimes to 2 | `NoBypass` |

`clients` has 385,242 states, `data` 692,572. Two requests to two engines are what it
takes to replace a flight that somebody awaits; a window of 2 and 3 frames to
exhaust the credits and have them given back; two uploads with two ids to
mistake one receipt for another.

Fairness is of deadlines that the code arms, and of the client's own microtasks and
signals: no peer has to answer. For a request of the engine client it is the timer
of its lifetime and the signal of `close()`; for a command the deadline of its
`terminate()`; for a transfer `AbortSignal.timeout` of the discovery and the timer of the
setup. `ClientsSettle` says no more than these give. The HTTP request that
`transportFetch` makes to the direct backend and the creation of a peer have no
deadline (`remote.ts:62`, `remote.ts:80`, `webdav.ts:754-765`): a caller waits for them as long as
they take, so `ResponseSettles` begins where the setup does.
`PayloadIntact` excepts payload that was decoded as frames before the
response was examined, which `release()` cannot give back (the `ahead` of the
model), or in a malformed frame: a hazard that is listed. `NoSocketLeaked` excepts an abort in the instant between
the connection and its TLS (`startTls` has no catch); it takes an abort in the
microtask between two awaits.

## 9. ClientConfig, WebTTYKeys, ByteStreams, Replay

`ByteStreams` reads its input step by step; the others are functions of theirs: an
initial state chooses it, and the invariant compares what the code makes of it with
a definition of what it should be.

* `ClientConfig`: which credential and engine `resolveConfig` settles on, what
  `resolveToken` then sends, and which route the transport takes; every combination of the
  listed options, environment variables, contexts and proxies. The option
  `credentials` is a token or a client's id and secret. Of the latter
  `credentialsToken` makes no token, so that nothing counts as given and
  `resolveClientOptions` connects without authentication unless something else was found;
  if it was, `resolveToken` prefers the id and secret. `CredentialsStayHome` states that
  exception.
* `WebTTYKeys`: grants with up to two recipients, also the same one twice, with symbolic
  cryptography: a box opens with the key it was sealed for and the same info, and with
  nothing else. Every envelope has an encapsulated key of its own, and what it seals opens
  with what that key and the recipient's agree on. A recorded grant keeps its envelopes,
  and with them the encapsulated keys; only the wrapped key comes from elsewhere, and is
  put into the first envelope with the key id. A recording therefore opens with the
  wrapped key of that envelope and of no other, not even the second one of the same
  recipient. A stated key id may be the digest of the key, or of another key.
* `ByteStreams`: frames and files cut into chunks in every way. `framed` is a
  `WebTTYFrameDecoder` with the read loop around it: `push()` is a generator, so each of
  its turns is a step, and the session may close between two messages of one chunk
  (`FramesClose`) as well as the peer end the stream anywhere (`FramesEnd`). `download` is
  a `FileSharingDownloadStream`. A byte of a header has one bit, a header and a cipher
  block have two bytes, a checksum four; the limit of messages, the lengths of streams
  and files and the range of half a counter (`HalfRange`, 2^64 in the code) are
  constants. In the run they are so small that every boundary falls inside, on and
  beside a cut, and the counter wraps in both halves.
* `Replay`: in the run recordings of up to three events and texts of up to nine
  pieces, in two chunks cut between or within them. A piece is a character or a whole
  control sequence, or the head of one, or a byte of its tail. `Write` is the text buffer,
  `RenderEvent` the walk over the events, `Screen` the reference: a terminal, as a set of
  characters at places, that was sent the text in one piece. The terminal is defined by
  what its sequences mean and not by the code; where the buffer does something else
  (`Departs` lists the five cases, such as a cleared line that moves the cursor)
  `TranscriptFaithful` makes no claim for that screen. Nor does it where a switch to or from
  the alternate screen is cut between two chunks (`SwitchCut`): the code does not recognise it,
  and all that follows is on the wrong screen. Any other cut costs what was cut and
  leaves bytes of it as text. `RecordedSessions` says what a recording is; time stamps
  and the wording of markers are left out.

All run in `data`: `CredentialsStayHome`, `TransportHonoured`, `SessionKeysSound`,
`ChunksDoNotMatter`, `TranscriptFaithful`. A type invariant is conjoined to a property of
its module where a run has several modules (`OwnEngine`, `WindowSuffices`,
`CaptureFaithful`, `HoldsNothing`), and those of `data` are `DataTypeOK`.

## 10. Proofs

For all values of the constants that satisfy the named assumptions:

* `ControlChannelProofs!SlotsCounted`: `ProxySlots`. It is not inductive: that
  the counter does not go below zero when a handler ends needs that the handler
  was counted; that a queued stream can be started needs that it is in state
  `queued` and only once in the queue; that a handler waiting for its answer is
  resumed once needs that exactly one frame of the write chain is its answer.
  `SlotsInv` adds `AnswersInv` (answers in the write chain belong to handlers that
  are answering, one each), `QueueInv` (the queue holds exactly the queued
  streams, without repetition) and `RequestInv` (an unhandled request is for a
  stream that is idle). Each action has its step; the ones that do not touch the
  pool share the lemma `PoolUntouched`, the ones that move a handler share
  `HandlerMoves` and `FinishSlots`. `TypeCorrect` follows from the same invariant.
* `ControlChannelProofs!SocketsAreOwned`: `SocketsOwned`. Its invariant
  `SocketsInv` adds to `SlotsInv` that a handler has an open socket during its
  handshake only and none before (`HandshakeInv`), that a queue holds queued sockets
  of its own tunnel, each once, and only while the tunnel is open and nobody waits
  (`LineInv`), that every queued socket is in the queue of its tunnel (`WaitInv`),
  and that a tunnel opens once and never on a closed channel (`OpeningInv`; without
  it a late `OpenTunnelRsp` could open a tunnel that nothing closes again). Steps
  share the lemmas `FinishSockets`, `LinesClose`, `HandshakesStay` and `LinesStay`.
* `ControlChannelProofs!AdmissionImplemented`: `Spec => ImplementsAdmission`.
  Each step that moves a socket, a queue or a tunnel is one step of
  `StreamAdmission`, every other one a stutter; `finish()` is one `Withdraw` of all
  open tunnels. The proof needs `SocketsInv`: that accepted sockets come from open
  tunnels, and that nobody waits where something is queued.
* `ControlChannelProofs!EngineToldTheTruth`: `AnswersTruthful`. `StreamTruth` says of each
  stream that its handler has ended once the engine was told, that a success in the
  chain or received is of a socket that was delivered, and a refusal of one that is
  gone or never was; for a refusal in the chain only while the socket of the channel
  is up, because a success that could not be written becomes a refusal there, which
  then cannot be written either.
* `ControlChannelProofs!OneCloseOfATunnel`: `ClosesCoalesced`. A request to close is in
  the chain at one place, or received; a tunnel with one is marked in
  `pendingCloses` or closed (`CloseMarked`), and only the failure of that very write
  takes the mark from an open tunnel.
* `ControlChannelProofs!ShutdownIsLast`: `NoOpenAfterShutdown`. `ShutdownInv` says that a
  request to close the channel implies `closing`, that in the chain it is behind every
  request to open, and that none is left once it was received.
* `ControlChannelProofs!NoCallerForgotten`: `CallersAnswerable`, assuming that
  `EngineOmitsId = FALSE`; without it the run `no_id` finds the forgotten caller. `CallsInv`
  adds that the frame of a create call is in the chain once and only while its
  writer awaits it, that the promise of a close is pending only with its mark, and
  that every waiting `accept()` is in its tunnel's line; `OthersStay` shows that an
  aborted one leaves the others there.
* `ControlLivenessProofs`: types, `TimersCleared` and `HeartbeatsContinue` (together
  `TimersAreKept`), `SilenceIsNoticed`, `HealthyIsTrusted`, and `HealthyIsKept`, which states the
  sharp bound on the timeout. Its invariant relates the due time of the timer to
  the send time of the next heartbeat that must be acknowledged.

* `DataProofs!ReleasedForGood` and `NothingAfterClose`: `ClosedIsReleased` and
  `CloseIsLast`. `WatchInv` adds that a call of `disconnect()` at an await of the
  token path is noted, without which the engine's answer could open a connection
  for a watch that counts as orderly. `Sound` states the invariant of one object,
  `OneObject` carries it to all.

* `InventoryProofs!OneWayToGoOn`: `OneAttempt` of the hook. `HookInv` adds that the only
  watch of the runtime which is not over is the current one, and not closed
  (`AttemptsSound`), that nobody has a connection and is still at an await of `connect()`
  (`ObjectsSound`; a failed attempt and an `onClose` could otherwise both arm the timer),
  and that the state says connected exactly while the connection of the runtime is
  open (`ConnectionSound`).
* `InventoryProofs!NothingStaleShown`: `InventoryCurrent`, under `Unhurried` only, during every
  effect and with the exception of section 6.
  `UnhurriedInv` adds that what was listed before is cleared before the next connection
  opens and not after it (`ClearingSound`), and that from then on the lists are what
  the engine told (`ListSound`).

* `WebTTYProofs`: `SessionSound` is the invariant, and `ResultKept`, `InputOrdered`,
  `ClosedHoldsNothing` and `EventsImplemented` prove `ResultNotLost`, `InputInOrder`,
  `HoldsNothing` and the refinement of `WebTTYEvents`. Most steps have one of a few shapes (the
  session closes, acknowledges, drops, keeps or handles a message), so each part of the
  invariant is shown for the shapes and then for the steps. `LinkSound` gives for each
  stage of the opening what the carrier, the stream and the session may be;
  `CloseSound` that the message with the result is in the stream or in the queue until
  it is handled (for which the report of a loss must be last, `LostSound`);
  `CountsSound` counts what waits, so that the queue and the proofs stay bounded;
  `LineSound` and `EncryptSound` put every frame in one line, on the wire, in flight,
  in the buffer or being encrypted, in which nothing overtakes.
* `ClientsProofs!CaptureSound`: `CaptureFaithful`. Chunks are places in what a stream sent. Its
  invariant adds that channels are open as long as something may be captured and that
  one closed after the last byte of its stream (`EndsPlaced`), and that what was
  captured of a stream is what was sent of it, until the limit (`CapturePlaced`). What a
  reader has read and what is in its queue, one after the other, is what its channel
  holds, as long as neither has failed.
* `ClientsProofs!TruthfulTransfer` and `WindowNeverOverrun`: `TransferTruthful` and
  `WindowSuffices`. The frames on their way are counted by place, and
  the invariant is a budget: every chunk sent is on its way, queued or read, and has
  had a credit (`FramesCounted`). The frame that ends a response is the last one
  (`FramesSound`), and a body ends only after it (`EndSound`).
* `ClientsProofs!RequestsReachTheirEngine`: `OwnEngine`. The invariant adds that a request
  that waits is at a flight for its own engine, whatever `this.flight` is by then:
  flights are never changed in what they are for, and are only appended.

* `DataProofs!NothingBypassed`: `NoBypass`. Its invariant says for each stage of a
  call who may have been asked by then, and that the mode that runs is the one
  requested unless that was `auto`; a fallback is justified where it is taken and
  stays so.
* `DataProofs!SocketsReleased` and `PayloadReturned`: `NoSocketLeaked` and `PayloadIntact`.
  `ReaderSound` accounts for every half frame that the reader took: response, decoded
  payload, and what is in its buffer. It is proved for each call; `OneDial` carries it
  to all.
* `DataProofs!Evidence`: `ReceiptsAreEvidence`. Whatever a call returned, or an attempt or a
  cached answer claims, is of a publication that did happen (`Evident`, `AttemptSound`);
  what was published stays so.
* `DataProofs!CredentialsHome` and `TransportAsConfigured`: `CredentialsStayHome` and
  `TransportHonoured`. A configuration does not change, so there is nothing to strengthen: the work is what
  `FirstDefined` yields of two, three or seven values, and the cases of where
  a token and a certificate come from.
* `DataProofs!KeysShared`: `SessionKeysSound`. The first of some places exists because `<` on the
  naturals is well founded; from there it is one lemma for each of the session of
  the client, what the server takes and opens, a recording with one wrapped key
  attached, and a payload, whose additional data determines the grant.

* `StreamProofs!ChunksNeverMatter`: `ChunksDoNotMatter`, for streams, messages and files of any
  size, however they are cut. `FramesInv`: the messages follow one after the other from
  the beginning (`LineSound`), and what the decoder holds of the next frame, with what it has
  not read of its chunk, is the slice of the stream behind the last message
  (`PartialSound`, `DecoderSound`). `DownloadInv` is about the number of bytes read and not about
  chunks: what came out is the decryption of that slice, the remainder is what does not fill
  a block, and the position of the cipher is the initial counter plus the blocks read,
  modulo the range of both halves. `Incremented` is addition there, carry included. A
  corrupted initial block shifts the counter, after which no byte decrypts to itself.

* `ReplayProofs!PieceAgrees`: a buffer and its dialect, a terminal with the departures, that
  agree (the same characters at the same places, as many rows, the same cursor and the
  same saved one) still do after any piece. `ConformingScreens` shows that on a text
  without a departure the dialect and the terminal are the same. The buffer keeps lines
  that end where nothing was written, and the terminal cells; `WriteAllIs`, `LineErased` and `EraseDisplayAgrees` say what padding, cutting and
  replacing lines does to the cells.
* `ReplayProofs!EveryTranscriptFaithful`: `TranscriptFaithful` for recordings of any length.
  `LogShows` relates the log to the text so far: the main buffer agrees with the screen of
  `MainText`, the alternate one is on exactly when the text says so and then agrees with
  the screen of `AlternateText`. It is carried over a segment (`SegmentShows`), a chunk
  (`ChunkShows`), an event (`EventShows`) and the events (`WalkShows`); `ChunkPlaced` shows that
  the index counted over the events finds each its own chunk.

* `DataProofs!SideBySide`: every behaviour of `Data` is one of each of its components, if
  every set of inputs has a member (`SomethingToGive`; TLC's instances do, and without it
  there is nothing to rest in). From it `DataTyped` (`DataTypeOK`, whose parts are in `WatchInv`,
  `DialInv`, `UploadsInv` and `TURNInv`) and `DataSafe` (every other property of the run `data`)
  follow, each component with its own theorem.

Induction. The library's induction theorems take an operator as a parameter, which
the provers cannot instantiate. What has to be shown along a sequence is shown by
`UpTo` of `ReplayProofs` instead, about a set: a number outside of it would have a
smallest one among them, which the library gives for a well-founded order.
`StepByStep` shows in this way that a function defined step by step exists and is what
its definition says (`ScreensAre`, `SegmentsAre`), and `FlattenedIs` the same of the
concatenation that the community modules define by recursion; the models therefore
write recursion as functions over `0..n` and none of them declares a recursive operator.

Assumptions are those of the modules: the types of constants, in `WebTTYKeys` that no
key is the empty one of a recording, in `Inventory` that `None` is not a set of
objects, in `ByteStreams` that a file has fewer blocks than half a counter counts; and
the four of theorems, `EngineOmitsId = FALSE`, `Unhurried`, `SomethingToGive` and the bound on
the timeout of `HealthyIsKept`, are named above.

Model-checked only: what must eventually happen (`CallsSettle`, `ShutdownDrains`,
`StreamsAnswered`, `Settles`, `ClientsSettle`, `Reconnects`). Liveness under fairness, and
the `ENABLED` in it, is out of the prover's reach.

## 11. Findings

Four runs disagree with the repository's own words; `PROJECT.json` quotes them.
(1) `finish()` rejects a promise nobody awaits yet, which Node turns into an
unhandled rejection. (2) An answer without tunnel id fails the channel and
forgets the caller it was for. (3) A watch disconnected while it looks for its
token or engine opens its connection afterwards and calls `onConnect` after
`onClose`. (4) The hook stays `connected` when its authentication is removed.

Met while modelling, and described where they belong: what the code does is in the
models, and the properties name the exception.

* Authentication given back to the hook before the 0 ms timer shows the clients of the
  closed watch once more (section 6; `react/README.md:77-78`).
* With a client's id and secret alone the runtime client may look its engine up, but
  connects to it without authentication (section 9; `runtime/README.md:185-197`).
* A screen switch that is cut between two chunks leaves a closed screen in the transcript
  (section 9; `webtty/README.md:273-277`), and the text buffer differs from a terminal in
  five operations.
* A recipient listed twice cannot open a recording with the second of its wrapped keys.
* A signal that is aborted beforehand makes the constructor of `WebTTYCommand` throw a
  `TypeError`, since `fail()` calls a field that is not yet assigned (`execution.ts:461`).
* An `Open` or `Attach` message that cannot be built throws where nothing catches it, and
  the session waits on (`webtty.ts:1564-1579`).
* A malformed frame throws out of the `data` listener of `FramedReader`, and `read()` never
  settles (`protocol.ts:429`); a failed write to a proxy, or of a request without an answer,
  raises an `error` of a socket without a listener (`transport.ts:625`).
* Payload that arrives with the response of a dial is taken for frames (section 8), and an
  abort between the connection and its TLS leaves the connection open.

## 12. Not modelled

Resources and schemas that make one HTTP request per call, encodings, URLs, YAML
and XML, cryptographic primitives, React views, the demonstration application,
lint configuration and release scripts: I/O and data without a protocol of their
own. Of the modelled parts: the cached promise of the runtime client's option
resolution, the effect of the hook that shows an error for a while, the derivation of a
TURN project from an endpoint alone, the proof of authentication beyond its place in
the WebTTY handshake, and time stamps of transcripts. `PROJECT.json` names what each
component leaves out.
