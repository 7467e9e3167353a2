-------------------------- MODULE ControlLiveness ---------------------------
(* Heartbeats and the liveness timeout of the control channel (control-channel.ts):      *)
(* sendHeartbeat, handleHeartbeat, armLivenessTimer, and the timers finish() clears.     *)
(* Time is counted in ticks. A timer fires in the tick in which it is due, before or     *)
(* after what the network delivers in that tick.                                         *)
EXTENDS Integers

CONSTANTS heartbeatIntervalMs,
          heartbeatTimeoutMs,  \* 0 when the engine sent no liveness policy
          MaxSafeInteger,
          WriteTicks,          \* ticks a heartbeat may take to be written
          AckAfter, AckTicks,  \* ticks after which the engine acknowledges, at least and at most
          AckEvery             \* a healthy engine leaves fewer heartbeats in a row unanswered

\* negotiatedHeartbeatTimeout accepts no timeout shorter than the interval.
ASSUME LivenessAssumption ==
  /\ heartbeatIntervalMs \in Nat \ {0}
  /\ heartbeatTimeoutMs \in Nat
  /\ heartbeatTimeoutMs = 0 \/ heartbeatTimeoutMs >= heartbeatIntervalMs
  /\ MaxSafeInteger \in Nat \ {0}
  /\ WriteTicks \in Nat /\ AckTicks \in Nat /\ AckAfter \in 0..AckTicks /\ AckEvery \in Nat \ {0}

VARIABLES
  now,
  heartbeatSequence,
  heartbeatAcknowledgement,
  heartbeatTimer,  \* when it is due, or Off
  livenessTimer,   \* when it is due, or Off
  writingSince,    \* since when sendHeartbeat awaits its write, or Off
  sentAt,          \* when each heartbeat reached the engine
  heard,           \* when the last message of the engine was handled
  closed,
  cause,           \* why the channel closed
  healthy          \* FALSE: the engine may stay silent or send any heartbeat

vars == <<now, heartbeatSequence, heartbeatAcknowledgement, heartbeatTimer, livenessTimer,
          writingSince, sentAt, heard, closed, cause, healthy>>

Off == -1
Negotiated == heartbeatTimeoutMs > 0

TypeOK ==
  /\ now \in Nat
  /\ heartbeatSequence \in 0..MaxSafeInteger
  /\ heartbeatAcknowledgement \in 0..MaxSafeInteger
  /\ heartbeatTimer \in Nat \union {Off}
  /\ livenessTimer \in Nat \union {Off}
  /\ writingSince \in Nat \union {Off}
  /\ sentAt \in [1..MaxSafeInteger -> Nat \union {Off}]
  /\ heard \in Nat
  /\ closed \in BOOLEAN
  /\ cause \in {"none", "liveness", "protocol", "exhausted", "other"}
  /\ healthy \in BOOLEAN

\* start(): the liveness timer is armed and the first heartbeat is being written.
Init ==
  /\ now = 0
  /\ heartbeatSequence = 1
  /\ heartbeatAcknowledgement = 0
  /\ heartbeatTimer = Off
  /\ livenessTimer = IF Negotiated THEN heartbeatTimeoutMs ELSE Off
  /\ writingSince = 0
  /\ sentAt = [s \in 1..MaxSafeInteger |-> IF s = 1 THEN 0 ELSE Off]
  /\ heard = 0
  /\ closed = FALSE
  /\ cause = "none"
  /\ healthy = TRUE

\* fail() and finish(); a channel that is closed stays as it is.
Fail(why) ==
  IF closed
  THEN UNCHANGED <<closed, cause, heartbeatTimer, livenessTimer>>
  ELSE /\ closed' = TRUE
       /\ cause' = why
       /\ heartbeatTimer' = Off
       /\ livenessTimer' = Off

-----------------------------------------------------------------------------
\* sendHeartbeat, called by its timer, up to the await of the write
ExhaustedTooLate == heartbeatSequence > MaxSafeInteger
Exhausted == heartbeatSequence >= MaxSafeInteger
SendHeartbeat ==
  /\ heartbeatTimer = now
  /\ IF Exhausted
     THEN /\ Fail("exhausted")
          /\ UNCHANGED <<heartbeatSequence, writingSince, sentAt>>
     ELSE /\ heartbeatSequence' = heartbeatSequence + 1
          /\ sentAt' = [sentAt EXCEPT ![heartbeatSequence + 1] = now]
          /\ writingSince' = now
          /\ heartbeatTimer' = Off
          /\ UNCHANGED <<closed, cause, livenessTimer>>
  /\ UNCHANGED <<now, heartbeatAcknowledgement, heard, healthy>>

\* sendHeartbeat after the write: the next one is due an interval later.
NextHeartbeatAlways == now + heartbeatIntervalMs
NextHeartbeat == IF closed THEN heartbeatTimer ELSE now + heartbeatIntervalMs
HeartbeatWritten ==
  /\ writingSince # Off
  /\ writingSince' = Off
  /\ heartbeatTimer' = NextHeartbeat
  /\ UNCHANGED <<now, heartbeatSequence, heartbeatAcknowledgement, livenessTimer, sentAt,
                 heard, closed, cause, healthy>>

\* armLivenessTimer
ArmLivenessTimerLate == livenessTimer' = now + heartbeatTimeoutMs + heartbeatIntervalMs
ArmLivenessTimerOnce == UNCHANGED livenessTimer
ArmLivenessTimer == livenessTimer' = now + heartbeatTimeoutMs

\* handleHeartbeat, then readLoop
ValidInSequence(sequence, acknowledgement) ==
  sequence = 0 /\ acknowledgement = IF Negotiated THEN heartbeatAcknowledgement + 1 ELSE 0
Valid(sequence, acknowledgement) ==
  /\ sequence = 0
  /\ IF Negotiated
     THEN acknowledgement \in heartbeatAcknowledgement + 1 .. heartbeatSequence
     ELSE acknowledgement = 0
HandleHeartbeat(sequence, acknowledgement) ==
  /\ ~closed
  /\ heard' = now
  /\ IF Valid(sequence, acknowledgement)
     THEN /\ heartbeatAcknowledgement' =
               IF Negotiated THEN acknowledgement ELSE heartbeatAcknowledgement
          /\ IF Negotiated THEN ArmLivenessTimer ELSE UNCHANGED livenessTimer
          /\ UNCHANGED <<heartbeatTimer, closed, cause>>
     ELSE /\ Fail("protocol")
          /\ UNCHANGED heartbeatAcknowledgement
  /\ UNCHANGED <<now, heartbeatSequence, writingSince, sentAt, healthy>>

\* Any other message of the engine is a sign of life too.
HandleOther ==
  /\ ~closed
  /\ heard' = now
  /\ IF Negotiated THEN ArmLivenessTimer ELSE UNCHANGED livenessTimer
  /\ UNCHANGED <<now, heartbeatSequence, heartbeatAcknowledgement, heartbeatTimer,
                 writingSince, sentAt, closed, cause, healthy>>

LivenessExpires ==
  /\ livenessTimer = now
  /\ Fail("liveness")
  /\ UNCHANGED <<now, heartbeatSequence, heartbeatAcknowledgement, writingSince, sentAt, heard,
                 healthy>>

\* finish() or fail() for any other reason, the failed write of a heartbeat included
FinishOtherwise ==
  /\ ~closed
  /\ Fail("other")
  /\ UNCHANGED <<now, heartbeatSequence, heartbeatAcknowledgement, writingSince, sentAt, heard,
                 healthy>>

-----------------------------------------------------------------------------
(* The engine, and time *)

\* The engine acknowledges heartbeats in order and may leave some out. Without a liveness
\* policy it answers with heartbeats that carry no number.
EngineAcknowledges(s) ==
  /\ sentAt[s] # Off /\ heartbeatAcknowledgement < s
  /\ now >= sentAt[s] + AckAfter
  /\ HandleHeartbeat(0, IF Negotiated THEN s ELSE 0)

\* From some moment on the engine may stay silent or send any heartbeat: a replay, a
\* number never sent.
EngineSickens ==
  /\ healthy /\ ~closed
  /\ healthy' = FALSE
  /\ UNCHANGED <<now, heartbeatSequence, heartbeatAcknowledgement, heartbeatTimer, livenessTimer,
                 writingSince, sentAt, heard, closed, cause>>

EngineMisbehaves(sequence, acknowledgement) ==
  /\ ~healthy
  /\ HandleHeartbeat(sequence, acknowledgement)

\* A healthy engine never leaves AckEvery heartbeats in a row without an acknowledgement
\* for more than AckTicks.
AckOverdue ==
  /\ healthy /\ Negotiated /\ ~closed
  /\ \E s \in 1..MaxSafeInteger : /\ s >= heartbeatAcknowledgement + AckEvery
                                  /\ sentAt[s] # Off
                                  /\ now >= sentAt[s] + AckTicks

Tick ==
  /\ ~closed /\ ~AckOverdue
  /\ heartbeatTimer # now /\ livenessTimer # now
  /\ writingSince = Off \/ now < writingSince + WriteTicks
  /\ now' = now + 1
  /\ UNCHANGED <<heartbeatSequence, heartbeatAcknowledgement, heartbeatTimer, livenessTimer,
                 writingSince, sentAt, heard, closed, cause, healthy>>

Next ==
  \/ SendHeartbeat \/ HeartbeatWritten
  \/ \E s \in 1..MaxSafeInteger : EngineAcknowledges(s)
  \/ EngineSickens
  \/ \E s \in 0..1, a \in 0..MaxSafeInteger : EngineMisbehaves(s, a)
  \/ HandleOther \/ LivenessExpires \/ FinishOtherwise
  \/ Tick

Spec == Init /\ [][Next]_vars

-----------------------------------------------------------------------------
\* A silent engine is noticed: an open channel heard from it less than a timeout ago, or is
\* about to be closed by a timer that is due.
SilenceNoticed ==
  Negotiated /\ ~closed => now <= heard + heartbeatTimeoutMs

\* finish() leaves no timer behind, and none is armed later by what was in progress then: a
\* heartbeat being written, a message being handled.
NoTimerAfterClose ==
  closed => heartbeatTimer = Off /\ livenessTimer = Off

\* While the channel is open a heartbeat is either being written or scheduled, not both.
HeartbeatGoesOn ==
  ~closed => (writingSince = Off <=> heartbeatTimer # Off)

\* Together: an open channel beats and a closed one is quiet.
TimersKept == NoTimerAfterClose /\ HeartbeatGoesOn

\* A healthy engine is never taken for one that breaks the protocol.
HealthyEngineTrusted ==
  healthy => cause # "protocol"

\* A healthy engine is never declared dead.
HealthyEngineKept ==
  healthy => cause # "liveness"
=============================================================================
