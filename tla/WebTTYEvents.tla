---------------------------- MODULE WebTTYEvents ----------------------------
(* What a WebTTY session (webtty/src/webtty.ts) promises the application that gave   *)
(* it callbacks: onConnect at most once, output and the end of a stream only while   *)
(* connected, nothing of a stream after its end, exactly one end, and after the end  *)
(* nothing.  The command of execution.ts and the terminals rely on no more.          *)
CONSTANTS Streams  \* the output streams: stdout, stderr

VARIABLES
  phase,   \* of the session
  ended,   \* the output streams that have ended
  event    \* the callback that the last step made

eventVars == <<phase, ended, event>>

NoEvent == [name |-> "none"]
Event(name) == [name |-> name]
Output(name, s) == [name |-> name, stream |-> s]

EventsInit ==
  /\ phase = "preparing"
  /\ ended = {}
  /\ event = NoEvent

\* A step that the application does not see.
Quiet ==
  /\ event' = NoEvent
  /\ UNCHANGED <<phase, ended>>

Starts ==
  /\ phase = "preparing"
  /\ phase' = "connecting"
  /\ event' = NoEvent
  /\ UNCHANGED ended

OnConnect ==
  /\ phase = "connecting"
  /\ phase' = "connected"
  /\ event' = Event("onConnect")
  /\ UNCHANGED ended

OnOutput(s) ==
  /\ phase = "connected" /\ s \notin ended
  /\ event' = Output("onOutput", s)
  /\ UNCHANGED <<phase, ended>>

OnEos(s) ==
  /\ phase = "connected" /\ s \notin ended
  /\ ended' = ended \union {s}
  /\ event' = Output("onEos", s)
  /\ UNCHANGED phase

OnEnd(name) ==
  /\ phase # "closed"
  /\ phase' = "closed"
  /\ event' = Event(name)
  /\ UNCHANGED ended

EventsNext ==
  \/ Quiet \/ Starts \/ OnConnect
  \/ \E s \in Streams : OnOutput(s) \/ OnEos(s)
  \/ OnEnd("onComplete") \/ OnEnd("onError")

EventsSpec == EventsInit /\ [][EventsNext]_eventVars
=============================================================================
