----------------------------- MODULE RTCTransfer ----------------------------
(* A request of the remote filesystem (filesystem/src/remote.ts, rtc.ts): discovery  *)
(* of the backend, and the transfer of a response over an ordered data channel with  *)
(* a receive window, credits, a signalling lease and ICE restarts.                   *)
(*                                                                                   *)
(* The owner of the files is outside this repository: it sends headers, data within  *)
(* the credits it has, and an end, and may stop short, fail or close at any time.    *)
EXTENDS Naturals, Sequences, FiniteSets

CONSTANTS Window,   \* receiveWindow (32 in the code)
          MaxData,  \* data frames of a response
          Methods,  \* of requests: "GET", "HEAD" or "PUT"
          Backends  \* as configured: "auto", "webdav" or "webrtc"

ASSUME RTCAssumption ==
  /\ {Window, MaxData} \subseteq Nat
  /\ Methods \subseteq {"GET", "HEAD", "PUT"} /\ Backends \subseteq {"auto", "webdav", "webrtc"}

Unannounced == MaxData + 1  \* no Content-Length

VARIABLES
  fetch,     \* the call of transportFetch
  transfer,  \* the RTCResponse object
  body,      \* the ReadableStream of the response
  dataChannel,   \* frames on their way in each direction
  owner      \* the sender of the files

rtcVars == <<fetch, transfer, body, dataChannel, owner>>

Answers == {"missing", "error", "webdav", "webrtc"}  \* of the server to the discovery
Setup == {"creating", "gathering", "signaling", "answering"}

RTCTypeOK ==
  /\ fetch \in [method : Methods, backend : Backends,
                state : {"idle", "discovering", "direct", "refused", "transfer"},
                response : {"pending", "resolved", "rejected"}]
  /\ transfer \in [stage : {"none", "started"} \union Setup,
                   headers : BOOLEAN, complete : BOOLEAN, closed : BOOLEAN,
                   error : {"none", "failed", "window"},
                   expected : 0..Unannounced, received : 0..MaxData + 1, queue : 0..Window,
                   setupTimer : BOOLEAN,
                   lease : {"off", "armed", "renewing", "restarting"}]
  /\ body \in [state : {"none", "readable", "pulling", "closed", "errored", "cancelled"}, got : 0..MaxData]
  /\ dataChannel \in [in : Seq({"headers", "data", "done", "bad"}), out : Seq({"credit", "done"}), open : BOOLEAN]
  /\ owner \in [phase : {"headers", "data", "done"}, size : 0..MaxData, sent : 0..MaxData,
                credits : 0..Window, announced : BOOLEAN]

RTCInit ==
  /\ \E method \in Methods, backend \in Backends :
       fetch = [method |-> method, backend |-> backend, state |-> "idle", response |-> "pending"]
  /\ transfer = [stage |-> "none", headers |-> FALSE, complete |-> FALSE, closed |-> FALSE,
                 error |-> "none", expected |-> Unannounced, received |-> 0, queue |-> 0,
                 setupTimer |-> FALSE, lease |-> "off"]
  /\ body = [state |-> "none", got |-> 0]
  /\ dataChannel = [in |-> <<>>, out |-> <<>>, open |-> FALSE]
  /\ \E size \in 0..MaxData, announced \in BOOLEAN :
       owner = [phase |-> "headers", size |-> size, sent |-> 0, credits |-> Window, announced |-> announced]

-----------------------------------------------------------------------------
(* Closing *)

\* close(), and fail(): a pull that waits is woken and sees the error.
Closed(t) == [t EXCEPT !.closed = TRUE, !.setupTimer = FALSE,
                       !.lease = IF @ = "armed" THEN "off" ELSE @]
Failed(t, error) == IF t.closed THEN t ELSE Closed([t EXCEPT !.error = error])
Woken(b) == IF b.state = "pulling" THEN [b EXCEPT !.state = "errored"] ELSE b
Shut == [dataChannel EXCEPT !.open = FALSE]
Rejected(f) == IF f.response = "pending" THEN [f EXCEPT !.response = "rejected"] ELSE f
TransferFails(t, error) ==
  IF t.closed THEN transfer' = t /\ UNCHANGED <<fetch, body, dataChannel>>
  ELSE /\ transfer' = Failed(t, error)
       /\ fetch' = Rejected(fetch) /\ body' = Woken(body) /\ dataChannel' = Shut

-----------------------------------------------------------------------------
(* Discovery: transportFetch *)

StartFetch ==
  /\ fetch.state = "idle"
  /\ fetch' = [fetch EXCEPT !.state = IF fetch.backend = "webdav" THEN "direct" ELSE "discovering"]
  /\ UNCHANGED <<transfer, body, dataChannel, owner>>

\* The answer of the server: no such path, an error or a timeout, or a backend.
\* Requests other than reads are refused without contact when the backend is WebRTC.
Discovers(answer) ==
  /\ fetch.state = "discovering" /\ fetch.response = "pending"
  /\ CASE answer \in {"missing", "webdav"} /\ fetch.backend = "auto" ->
            fetch' = [fetch EXCEPT !.state = "direct"] /\ UNCHANGED transfer
       [] answer = "webrtc" /\ fetch.method = "PUT" ->
            fetch' = [fetch EXCEPT !.state = "refused", !.response = "resolved"] /\ UNCHANGED transfer
       [] answer = "webrtc" /\ fetch.method # "PUT" ->
            fetch' = [fetch EXCEPT !.state = "transfer"] /\ transfer' = [transfer EXCEPT !.stage = "creating"]
       [] OTHER -> fetch' = Rejected(fetch) /\ UNCHANGED transfer
  /\ UNCHANGED <<body, dataChannel, owner>>

\* The HTTP request of the direct backend ends.
DirectSettles ==
  /\ fetch.state = "direct" /\ fetch.response = "pending"
  /\ \E response \in {"resolved", "rejected"} : fetch' = [fetch EXCEPT !.response = response]
  /\ UNCHANGED <<transfer, body, dataChannel, owner>>

-----------------------------------------------------------------------------
(* Setup: webRTCResponse, the constructor and start() *)

\* createPeer() ends: the timer of the setup starts, or the call rejects.
PeerCreated ==
  /\ transfer.stage = "creating" /\ fetch.response = "pending"
  /\ \/ transfer' = [transfer EXCEPT !.stage = "gathering", !.setupTimer = TRUE] /\ UNCHANGED fetch
     \/ fetch' = Rejected(fetch) /\ UNCHANGED transfer
  /\ UNCHANGED <<body, dataChannel, owner>>

\* start() goes on: candidates are gathered, the offer is answered, the answer is set.  The
\* owner may send as soon as it has the offer.
SetupStep ==
  /\ ~transfer.closed
  /\ \/ transfer.stage = "gathering" /\ transfer' = [transfer EXCEPT !.stage = "signaling"] /\ UNCHANGED dataChannel
     \/ transfer.stage = "signaling" /\ transfer' = [transfer EXCEPT !.stage = "answering"] /\ UNCHANGED dataChannel
     \/ /\ transfer.stage = "answering"
        /\ transfer' = [transfer EXCEPT !.stage = "started", !.lease = "armed"]
        /\ dataChannel' = [dataChannel EXCEPT !.open = TRUE]
  /\ UNCHANGED <<fetch, body, owner>>

\* A step of start() fails, or the timer of the setup fires.
SetupFails ==
  /\ transfer.stage \in Setup \ {"creating"} \/ transfer.setupTimer
  /\ ~transfer.closed
  /\ TransferFails(transfer, "failed")
  /\ UNCHANGED owner
SetupTimeout == transfer.setupTimer /\ SetupFails

\* renew() by the timer of the lease; after the restart interval it restarts ICE.
Renew ==
  /\ transfer.lease = "armed"
  /\ \E lease \in {"renewing", "restarting"} :
       /\ lease = "restarting" => transfer.headers
       /\ transfer' = [transfer EXCEPT !.lease = lease]
  /\ UNCHANGED <<fetch, body, dataChannel, owner>>

\* renew() ends; renewLater() arms the timer again unless the transfer is closed.
Renewed ==
  /\ transfer.lease \in {"renewing", "restarting"}
  /\ \/ /\ transfer' = [transfer EXCEPT !.lease = IF transfer.closed THEN "off" ELSE "armed"]
        /\ UNCHANGED <<fetch, body, dataChannel>>
     \/ TransferFails([transfer EXCEPT !.lease = "off"], "failed")
  /\ UNCHANGED owner

-----------------------------------------------------------------------------
(* The owner *)

OwnerSends(frame) ==
  /\ dataChannel.open
  /\ \/ /\ frame = "headers" /\ owner.phase = "headers"
        /\ owner' = [owner EXCEPT !.phase = "data"]
     \/ /\ frame = "data" /\ owner.phase = "data" /\ owner.sent < owner.size /\ owner.credits > 0
        /\ owner' = [owner EXCEPT !.sent = @ + 1, !.credits = @ - 1]
     \* also before everything is sent: the file has become shorter
     \/ /\ frame = "done" /\ owner.phase = "data"
        /\ owner' = [owner EXCEPT !.phase = "done"]
     \/ frame = "bad" /\ owner.phase # "done" /\ owner' = [owner EXCEPT !.phase = "done"]
  /\ dataChannel' = [dataChannel EXCEPT !.in = Append(@, frame)]
  /\ UNCHANGED <<fetch, transfer, body>>

OwnerReceives ==
  /\ dataChannel.open /\ dataChannel.out # <<>>
  /\ owner' = IF Head(dataChannel.out) = "credit" THEN [owner EXCEPT !.credits = @ + 1] ELSE owner
  /\ dataChannel' = [dataChannel EXCEPT !.out = Tail(@)]
  /\ UNCHANGED <<fetch, transfer, body>>

\* The data channel closes or the connection breaks, with what is on its way lost; a complete
\* transfer takes no notice.
ChannelLost ==
  /\ dataChannel.open
  /\ IF transfer.complete
     THEN dataChannel' = [in |-> <<>>, out |-> <<>>, open |-> FALSE] /\ UNCHANGED <<fetch, transfer, body>>
     ELSE TransferFails(transfer, "failed")
  /\ UNCHANGED owner

-----------------------------------------------------------------------------
(* message() *)

\* A response to HEAD; one of status 204, 205 or 304 ends the same way.
Bodyless == fetch.method = "HEAD"
MessageHeaders ==
  IF transfer.headers THEN TransferFails(transfer, "failed")
  ELSE LET t == [transfer EXCEPT !.headers = TRUE, !.setupTimer = FALSE,
                                 !.expected = IF owner.announced THEN owner.size ELSE @]
       IN /\ fetch' = [fetch EXCEPT !.response = "resolved"]
          /\ transfer' = IF Bodyless THEN Closed(t) ELSE t
          /\ body' = [body EXCEPT !.state = IF Bodyless THEN "cancelled" ELSE "readable"]
          /\ dataChannel' = [dataChannel EXCEPT !.in = Tail(@), !.open = ~Bodyless]

\* A frame of data.
MessageDataCredited ==
  IF ~transfer.headers \/ transfer.complete \/ transfer.queue >= Window THEN TransferFails(transfer, "failed")
  ELSE /\ transfer' = [transfer EXCEPT !.received = @ + 1, !.queue = @ + 1]
       /\ dataChannel' = [dataChannel EXCEPT !.in = Tail(@), !.out = Append(@, "credit")]
       /\ UNCHANGED <<fetch, body>>
MessageData ==
  IF ~transfer.headers \/ transfer.complete THEN TransferFails(transfer, "failed")
  ELSE IF transfer.queue >= Window THEN TransferFails(transfer, "window")
  ELSE IF transfer.expected # Unannounced /\ transfer.received + 1 > transfer.expected
  THEN TransferFails(transfer, "failed")
  ELSE /\ transfer' = [transfer EXCEPT !.received = @ + 1, !.queue = @ + 1]
       /\ dataChannel' = [dataChannel EXCEPT !.in = Tail(@)]
       /\ UNCHANGED <<fetch, body>>

MessageDoneEarly ==
  IF ~transfer.headers \/ transfer.complete THEN TransferFails(transfer, "failed")
  ELSE /\ transfer' = [transfer EXCEPT !.complete = TRUE]
       /\ dataChannel' = [dataChannel EXCEPT !.in = Tail(@)]
       /\ UNCHANGED <<fetch, body>>
MessageDone ==
  IF \/ ~transfer.headers \/ transfer.complete
     \/ transfer.expected # Unannounced /\ transfer.received # transfer.expected
  THEN TransferFails(transfer, "failed")
  ELSE /\ transfer' = [transfer EXCEPT !.complete = TRUE]
       /\ dataChannel' = [dataChannel EXCEPT !.in = Tail(@)]
       /\ UNCHANGED <<fetch, body>>

Message ==
  /\ ~transfer.closed /\ dataChannel.in # <<>>
  /\ CASE Head(dataChannel.in) = "headers" -> MessageHeaders
       [] Head(dataChannel.in) = "data" -> MessageData
       [] Head(dataChannel.in) = "done" -> MessageDone
       [] OTHER -> TransferFails(transfer, "failed")
  /\ UNCHANGED owner

-----------------------------------------------------------------------------
(* The reader *)

\* read(): pull() waits while there is nothing to give.
Read ==
  /\ body.state = "readable"
  /\ body' = [body EXCEPT !.state = "pulling"]
  /\ UNCHANGED <<fetch, transfer, dataChannel, owner>>

\* pull() returns a chunk and a credit, ends the stream once all is read, or fails.
Pull ==
  /\ body.state = "pulling"
  /\ \/ /\ transfer.error # "none"
        /\ body' = [body EXCEPT !.state = "errored"]
        /\ UNCHANGED <<transfer, dataChannel>>
     \/ /\ transfer.error = "none" /\ transfer.queue > 0
        /\ body' = [state |-> "readable", got |-> body.got + 1]
        /\ transfer' = [transfer EXCEPT !.queue = @ - 1]
        /\ dataChannel' = IF dataChannel.open THEN [dataChannel EXCEPT !.out = Append(@, "credit")] ELSE dataChannel
     \/ /\ transfer.error = "none" /\ transfer.queue = 0 /\ transfer.complete
        /\ body' = [body EXCEPT !.state = "closed"]
        /\ transfer' = Closed(transfer)
        /\ dataChannel' = [dataChannel EXCEPT !.open = FALSE,
                                      !.out = IF dataChannel.open THEN Append(@, "done") ELSE @]
  /\ UNCHANGED <<fetch, owner>>

\* The reader cancels the stream.
CancelBody ==
  /\ body.state \in {"readable", "pulling"}
  /\ body' = [body EXCEPT !.state = "cancelled"]
  /\ transfer' = Closed(transfer) /\ dataChannel' = Shut
  /\ UNCHANGED <<fetch, owner>>

\* The signal of the request is aborted: the request in discovery or the direct one
\* rejects, and a transfer fails.  While the peer is created nobody listens.
AbortRequest ==
  /\ fetch.state # "idle"
  /\ IF fetch.state = "transfer"
     THEN transfer.stage # "creating" /\ ~transfer.closed /\ TransferFails(transfer, "failed")
     ELSE fetch.response = "pending" /\ fetch' = Rejected(fetch) /\ UNCHANGED <<transfer, body, dataChannel>>
  /\ UNCHANGED owner

RTCNext ==
  \/ StartFetch \/ DirectSettles \/ PeerCreated \/ SetupStep \/ SetupFails \/ Renew \/ Renewed
  \/ \E answer \in Answers : Discovers(answer)
  \/ \E frame \in {"headers", "data", "done", "bad"} : OwnerSends(frame)
  \/ OwnerReceives \/ ChannelLost \/ Message \/ Read \/ Pull \/ CancelBody \/ AbortRequest

\* The two deadlines: AbortSignal.timeout of the discovery and the timer of the setup.  Neither
\* the server nor the owner owes anything, and nothing bounds the HTTP request of the direct
\* backend or the creation of a peer.
RTCFairness == WF_rtcVars(Discovers("error")) /\ WF_rtcVars(SetupTimeout)
RTCSpec == RTCInit /\ [][RTCNext]_rtcVars /\ RTCFairness

-----------------------------------------------------------------------------
(* Properties *)

\* A response body ends without an error only with everything the owner sent, and with as
\* much as it announced (message, pull).
TransferTruthful ==
  body.state = "closed" =>
    /\ body.got = owner.sent /\ owner.phase = "done"
    /\ owner.announced => body.got = owner.size

\* An owner that sends within its credits never overruns the window: what is on its way,
\* queued or credited is never more than the window (pull, message).
Places(frames, frame) == {i \in 1..Len(frames) : frames[i] = frame}
Count(frames, frame) == Cardinality(Places(frames, frame))
InFlight == Count(dataChannel.in, "data")
Credits == Count(dataChannel.out, "credit")
WindowSuffices ==
  /\ RTCTypeOK
  /\ transfer.error # "window"
  /\ ~transfer.closed => InFlight + transfer.queue + Credits + owner.credits <= Window

\* Discovery ends although the server may never answer it, and once there is a peer the promise of
\* the response settles although the owner may never answer (AbortSignal.timeout, setupTimer).
\* In between the caller waits for the direct request or the peer, without a deadline.
Deferred == fetch.state = "direct" \/ transfer.stage = "creating"
ResponseSettles ==
  /\ (fetch.state = "discovering") ~> (fetch.response # "pending" \/ Deferred)
  /\ (transfer.stage \notin {"none", "creating"}) ~> (fetch.response # "pending")
=============================================================================
