----------------------- MODULE ControlLivenessProofs ------------------------
(* Proofs about the heartbeats and the liveness timeout, for every interval, timeout,    *)
(* delay and engine.                                                                     *)
EXTENDS ControlLiveness, TLAPS

\* What holds of the timers in every state: they are never overdue, the liveness timer is
\* due one timeout after the last message, and only heartbeats that were counted were sent.
TimersInv ==
  /\ heartbeatTimer # Off => now <= heartbeatTimer
  /\ ~closed /\ Negotiated => livenessTimer = heard + heartbeatTimeoutMs /\ now <= livenessTimer
  /\ \A s \in 1..MaxSafeInteger : sentAt[s] # Off => s <= heartbeatSequence

IInv ==
  /\ TypeOK
  /\ NoTimerAfterClose
  /\ HeartbeatGoesOn
  /\ HealthyEngineTrusted
  /\ TimersInv

LEMMA InitIInv == Init => IInv
<1> SUFFICES ASSUME Init PROVE IInv
  OBVIOUS
<1> USE LivenessAssumption DEF Init, Off, Negotiated
<1>1. TypeOK
  <2>1. sentAt \in [1..MaxSafeInteger -> Nat \union {Off}]
    OBVIOUS
  <2>2. heartbeatSequence \in 0..MaxSafeInteger /\ heartbeatAcknowledgement \in 0..MaxSafeInteger
    OBVIOUS
  <2> QED
    BY <2>1, <2>2 DEF TypeOK
<1>2. TimersInv
  BY DEF TimersInv
<1> QED
  BY <1>1, <1>2 DEF IInv, NoTimerAfterClose, HeartbeatGoesOn, HealthyEngineTrusted

\* Handling any heartbeat keeps the invariant, if a healthy engine sends only valid ones.
LEMMA HeartbeatHandled ==
  ASSUME IInv, NEW s \in 0..1, NEW a \in 0..MaxSafeInteger, HandleHeartbeat(s, a),
         healthy => /\ s = 0
                    /\ Negotiated => heartbeatAcknowledgement < a /\ a <= heartbeatSequence
                    /\ ~Negotiated => a = 0
  PROVE  IInv'
<1> USE LivenessAssumption DEF IInv, Off, Negotiated, HandleHeartbeat, Valid
<1>1. TypeOK'
  <2>1. heartbeatAcknowledgement' \in 0..MaxSafeInteger /\ heard' \in Nat
    BY DEF TypeOK
  <2>2. heartbeatTimer' \in Nat \union {Off} /\ livenessTimer' \in Nat \union {Off}
    BY DEF ArmLivenessTimer, Fail, TypeOK
  <2>3. closed' \in BOOLEAN /\ cause' \in {"none", "liveness", "protocol", "exhausted", "other"}
    BY DEF Fail, TypeOK
  <2> QED
    BY <2>1, <2>2, <2>3 DEF TypeOK
<1>2. TimersInv'
  BY DEF ArmLivenessTimer, Fail, TypeOK, TimersInv
<1>3. HealthyEngineTrusted'
  BY DEF Fail, TypeOK, HealthyEngineTrusted
<1>4. NoTimerAfterClose' /\ HeartbeatGoesOn'
  BY DEF Fail, TypeOK, NoTimerAfterClose, HeartbeatGoesOn
<1> QED
  BY <1>1, <1>2, <1>3, <1>4

LEMMA StepIInv == IInv /\ [Next]_vars => IInv'
<1> SUFFICES ASSUME IInv, [Next]_vars PROVE IInv'
  OBVIOUS
<1> USE LivenessAssumption DEF IInv, Off, Negotiated
<1>1. CASE SendHeartbeat
  <2>1. CASE heartbeatSequence >= MaxSafeInteger
    BY <1>1, <2>1 DEF SendHeartbeat, Exhausted, Fail, TypeOK, NoTimerAfterClose, HeartbeatGoesOn,
         HealthyEngineTrusted, TimersInv
  <2>2. CASE ~(heartbeatSequence >= MaxSafeInteger)
    <3>1. heartbeatSequence + 1 \in 1..MaxSafeInteger /\ now \in Nat
      BY <2>2 DEF TypeOK
    <3>2. TypeOK'
      BY <1>1, <2>2, <3>1 DEF SendHeartbeat, Exhausted, TypeOK
    <3>3. TimersInv'
      BY <1>1, <2>2, <3>1 DEF SendHeartbeat, Exhausted, TypeOK, TimersInv
    <3> QED
      BY <1>1, <2>2, <3>1, <3>2, <3>3 DEF SendHeartbeat, Exhausted, TypeOK, NoTimerAfterClose,
           HeartbeatGoesOn, HealthyEngineTrusted
  <2> QED
    BY <2>1, <2>2
<1>2. CASE HeartbeatWritten
  BY <1>2 DEF HeartbeatWritten, NextHeartbeat, TypeOK, NoTimerAfterClose, HeartbeatGoesOn,
       HealthyEngineTrusted, TimersInv
<1>3. ASSUME NEW s \in 1..MaxSafeInteger, EngineAcknowledges(s) PROVE IInv'
  <2>1. s <= heartbeatSequence
    BY <1>3 DEF EngineAcknowledges, TimersInv
  <2>2. CASE Negotiated
    BY <1>3, <2>1, <2>2, HeartbeatHandled DEF EngineAcknowledges, TypeOK
  <2>3. CASE ~Negotiated
    BY <1>3, <2>3, HeartbeatHandled DEF EngineAcknowledges, TypeOK
  <2> QED
    BY <2>2, <2>3
<1>10. CASE EngineSickens
  BY <1>10 DEF EngineSickens, TypeOK, NoTimerAfterClose, HeartbeatGoesOn,
       HealthyEngineTrusted, TimersInv
<1>4. ASSUME NEW s \in 0..1, NEW a \in 0..MaxSafeInteger, EngineMisbehaves(s, a)
      PROVE  IInv'
  BY <1>4, HeartbeatHandled DEF EngineMisbehaves
<1>5. CASE HandleOther
  BY <1>5 DEF HandleOther, ArmLivenessTimer, TypeOK, NoTimerAfterClose, HeartbeatGoesOn,
       HealthyEngineTrusted, TimersInv
<1>6. CASE LivenessExpires
  BY <1>6 DEF LivenessExpires, Fail, TypeOK, NoTimerAfterClose, HeartbeatGoesOn,
       HealthyEngineTrusted, TimersInv
<1>7. CASE FinishOtherwise
  BY <1>7 DEF FinishOtherwise, Fail, TypeOK, NoTimerAfterClose, HeartbeatGoesOn,
       HealthyEngineTrusted, TimersInv
<1>8. CASE Tick
  <2>1. TypeOK'
    BY <1>8 DEF Tick, TypeOK
  <2>2. TimersInv'
    BY <1>8 DEF Tick, TypeOK, TimersInv
  <2> QED
    BY <1>8, <2>1, <2>2 DEF Tick, NoTimerAfterClose, HeartbeatGoesOn, HealthyEngineTrusted
<1>9. CASE UNCHANGED vars
  BY <1>9 DEF vars, TypeOK, NoTimerAfterClose, HeartbeatGoesOn, HealthyEngineTrusted, TimersInv
<1> QED
  BY <1>1, <1>2, <1>3, <1>4, <1>5, <1>6, <1>7, <1>8, <1>9, <1>10 DEF Next

LEMMA SpecIInv == Spec => []IInv
BY InitIInv, StepIInv, PTL DEF Spec

\* The variables of the heartbeat code keep their types.
THEOREM TypeCorrect == Spec => []TypeOK
BY SpecIInv, PTL DEF IInv

\* finish() leaves no timer behind and none is armed after it, by the continuation of a
\* heartbeat that was being written or by the loop that handled the last message.
THEOREM TimersCleared == Spec => []NoTimerAfterClose
BY SpecIInv, PTL DEF IInv

\* The chain of heartbeats never breaks and never forks while the channel is open.
THEOREM HeartbeatsContinue == Spec => []HeartbeatGoesOn
BY SpecIInv, PTL DEF IInv

\* Together: an open channel beats and a closed one is quiet, for every interval and timeout.
THEOREM TimersAreKept == Spec => []TimersKept
BY TimersCleared, HeartbeatsContinue, PTL DEF TimersKept

\* With a negotiated timeout a silent engine is noticed in time.
THEOREM SilenceIsNoticed == Spec => []SilenceNoticed
<1>1. IInv => SilenceNoticed
  BY LivenessAssumption DEF IInv, TypeOK, TimersInv, SilenceNoticed, Negotiated
<1> QED
  BY <1>1, SpecIInv, PTL

\* An engine that acknowledges what it received, in order but perhaps not all of it, is
\* never disconnected for an invalid heartbeat.
THEOREM HealthyIsTrusted == Spec => []HealthyEngineTrusted
BY SpecIInv, PTL DEF IInv

-----------------------------------------------------------------------------
(* No healthy engine is declared dead. Two heartbeats in a row reach the engine at most  *)
(* Period apart, so AckEvery of them are sent within AckEvery * Period, the last of them *)
(* is acknowledged AckTicks later, and the acknowledgement is handled after the          *)
(* heartbeat it acknowledges was sent.                                                   *)

Period == heartbeatIntervalMs + WriteTicks

\* When the latest heartbeat was sent, and what is due after it.
PaceInv ==
  /\ heartbeatSequence >= 1
  /\ sentAt[1] = 0
  /\ \A s \in 1..heartbeatSequence : sentAt[s] \in Nat
  /\ \A s \in 1..heartbeatSequence : sentAt[s] <= now
  /\ writingSince # Off => writingSince = sentAt[heartbeatSequence]
  /\ ~closed /\ writingSince # Off => now <= writingSince + WriteTicks
  /\ heartbeatTimer # Off => heartbeatTimer <= sentAt[heartbeatSequence] + Period

\* The pace of any two heartbeats.
SpreadInv ==
  \A r, s \in 1..heartbeatSequence : r <= s => sentAt[s] <= sentAt[r] + (s - r) * Period

\* What the engine acknowledged, and when.
AckInv ==
  /\ heard <= now
  /\ heartbeatAcknowledgement <= heartbeatSequence
  /\ heartbeatAcknowledgement >= 1 => heard >= sentAt[heartbeatAcknowledgement]
  /\ Negotiated /\ healthy /\ ~closed =>
       \A s \in 1..heartbeatSequence :
         s >= heartbeatAcknowledgement + AckEvery => now <= sentAt[s] + AckTicks
  /\ ~Negotiated => livenessTimer = Off

KeptInv == IInv /\ PaceInv /\ SpreadInv /\ AckInv /\ HealthyEngineKept

\* The bound that the timeout must exceed.
LEMMA TimeoutLate ==
  ASSUME IInv, PaceInv, SpreadInv, AckInv, Negotiated, ~closed, healthy,
         heartbeatTimeoutMs > AckEvery * Period + AckTicks
  PROVE  now < livenessTimer
<1> USE LivenessAssumption DEF Off, Negotiated
<1> DEFINE a == heartbeatAcknowledgement
           q == heartbeatSequence
<1>1. a \in Nat /\ q \in Nat /\ q >= 1 /\ a <= q /\ now \in Nat /\ heard \in Nat
      /\ AckEvery \in Nat /\ AckEvery >= 1 /\ AckTicks \in Nat
  BY DEF IInv, TypeOK, PaceInv, AckInv
<1>2. Period \in Nat
  BY DEF Period
<1>3. AckEvery * Period \in Nat
  BY <1>1, <1>2
<1>4. \A s \in 1..q : sentAt[s] \in Nat
  BY DEF PaceInv
<1>5. livenessTimer = heard + heartbeatTimeoutMs
  BY DEF IInv, TimersInv
<1> DEFINE f == IF a = 0 THEN 1 ELSE a
<1>6. f \in 1..q /\ heard >= sentAt[f] /\ f >= a
  BY <1>1 DEF AckInv, PaceInv
<1>7. now <= sentAt[f] + AckEvery * Period + AckTicks
  <2>1. CASE a + AckEvery <= q
    <3> DEFINE s == a + AckEvery
    <3>1. s \in 1..q /\ s >= f
      BY <1>1, <1>6, <2>1
    <3>2. now <= sentAt[s] + AckTicks
      BY <3>1 DEF AckInv
    <3>3. sentAt[s] <= sentAt[f] + (s - f) * Period
      BY <3>1, <1>6 DEF SpreadInv
    <3>4. (s - f) * Period <= AckEvery * Period
      <4>1. s - f \in Nat /\ s - f <= AckEvery
        BY <1>1, <1>6, <3>1
      <4> HIDE DEF s, f
      <4> QED
        BY <4>1, <1>1, <1>2
    <3>5. (s - f) * Period \in Nat
      BY <3>1, <1>1, <1>2, <1>6
    <3> HIDE DEF s, f
    <3> QED
      BY <3>1, <3>2, <3>3, <3>4, <3>5, <1>1, <1>3, <1>4, <1>6
  <2>2. CASE ~(a + AckEvery <= q)
    <3>1. now <= sentAt[q] + Period
      BY DEF IInv, TypeOK, HeartbeatGoesOn, TimersInv, PaceInv, Period
    <3>2. sentAt[q] <= sentAt[f] + (q - f) * Period
      BY <1>1, <1>6 DEF SpreadInv
    <3>3. (q - f) * Period + Period <= AckEvery * Period
      <4>1. q - f \in Nat /\ q - f + 1 <= AckEvery
        BY <1>1, <1>6, <2>2
      <4> HIDE DEF q, f
      <4> QED
        BY <4>1, <1>1, <1>2
    <3>4. (q - f) * Period \in Nat
      BY <1>1, <1>2, <1>6
    <3>5. q \in 1..q
      BY <1>1
    <3> HIDE DEF q, f
    <3> QED
      BY <3>1, <3>2, <3>3, <3>4, <3>5, <1>1, <1>2, <1>3, <1>4, <1>6
  <2> QED
    BY <2>1, <2>2
<1> HIDE DEF f
<1> QED
  BY <1>1, <1>3, <1>4, <1>5, <1>6, <1>7

LEMMA InitKept == Init => KeptInv
<1> SUFFICES ASSUME Init PROVE KeptInv
  OBVIOUS
<1> USE LivenessAssumption DEF Init, Off, Negotiated
<1>1. PaceInv
  BY DEF PaceInv, Period
<1>2. SpreadInv
  <2>1. Period \in Nat
    BY DEF Period
  <2>2. \A r, s \in 1..heartbeatSequence : r = 1 /\ s = 1
    OBVIOUS
  <2> QED
    BY <2>1, <2>2 DEF SpreadInv
<1>3. AckInv
  BY DEF AckInv
<1> QED
  BY <1>1, <1>2, <1>3, InitIInv DEF KeptInv, HealthyEngineKept

\* Handling any message keeps the pace; s is the heartbeat acknowledged, if any.
LEMMA HeartbeatKept ==
  ASSUME KeptInv, IInv', NEW s \in 0..1, NEW a \in 0..MaxSafeInteger, HandleHeartbeat(s, a)
  PROVE  KeptInv'
<1> USE LivenessAssumption DEF KeptInv, Off, Negotiated, HandleHeartbeat, Valid
<1>1. PaceInv'
  BY DEF Fail, PaceInv, IInv, TypeOK, Period
<1>2. SpreadInv'
  BY DEF SpreadInv, Period
<1>3. AckInv'
  <2>1. CASE heartbeatAcknowledgement' = heartbeatAcknowledgement
    <3>1. heard' = now /\ UNCHANGED <<now, heartbeatSequence, sentAt, healthy>>
      OBVIOUS
    <3>2. ~Negotiated => livenessTimer' = Off
      BY DEF AckInv, Fail
    <3> QED
      BY <2>1, <3>1, <3>2 DEF AckInv, IInv, TypeOK, PaceInv
  <2>2. CASE heartbeatAcknowledgement' # heartbeatAcknowledgement
    <3>1. /\ Negotiated /\ heartbeatAcknowledgement' = a
          /\ heartbeatAcknowledgement < a /\ a <= heartbeatSequence
          /\ heard' = now /\ UNCHANGED <<now, heartbeatSequence, sentAt, healthy, closed>>
      BY <2>2 DEF Fail, IInv, TypeOK
    <3>2. heartbeatAcknowledgement \in Nat /\ a \in 1..heartbeatSequence
      BY <3>1 DEF IInv, TypeOK
    <3> QED
      BY <3>1, <3>2 DEF AckInv, IInv, TypeOK, PaceInv
  <2> QED
    BY <2>1, <2>2
<1>4. HealthyEngineKept'
  BY DEF HealthyEngineKept, Fail
<1> QED
  BY <1>1, <1>2, <1>3, <1>4

LEMMA SendKept ==
  ASSUME KeptInv, IInv', SendHeartbeat
  PROVE  KeptInv'
<1> USE LivenessAssumption DEF KeptInv, Off, Negotiated
<1>1. CASE heartbeatSequence >= MaxSafeInteger
  <2>1. PaceInv'
    BY <1>1 DEF SendHeartbeat, Exhausted, Fail, PaceInv, IInv, TypeOK, Period
  <2>2. SpreadInv'
    BY <1>1 DEF SendHeartbeat, Exhausted, SpreadInv, Period
  <2>3. AckInv' /\ HealthyEngineKept'
    BY <1>1 DEF SendHeartbeat, Exhausted, Fail, AckInv, HealthyEngineKept, IInv, TypeOK
  <2> QED
    BY <2>1, <2>2, <2>3
<1>2. CASE ~(heartbeatSequence >= MaxSafeInteger)
  <2> DEFINE q == heartbeatSequence
  <2>1. /\ q \in Nat /\ q >= 1 /\ q + 1 \in 1..MaxSafeInteger /\ now \in Nat
        /\ heartbeatAcknowledgement \in Nat /\ heartbeatAcknowledgement <= q
    BY <1>2 DEF IInv, TypeOK, PaceInv, AckInv
  <2>2. /\ heartbeatSequence' = q + 1 /\ sentAt' = [sentAt EXCEPT ![q + 1] = now]
        /\ writingSince' = now /\ heartbeatTimer' = Off
        /\ UNCHANGED <<now, heartbeatAcknowledgement, heard, closed, livenessTimer, healthy, cause>>
    BY <1>2 DEF SendHeartbeat, Exhausted
  <2>3. /\ sentAt'[q + 1] = now
        /\ \A s \in 1..q : sentAt'[s] = sentAt[s] /\ sentAt[s] \in Nat /\ sentAt[s] <= now
    BY <2>1, <2>2 DEF IInv, TypeOK, PaceInv
  <2>4. PaceInv'
    BY <2>1, <2>2, <2>3 DEF PaceInv, Period
  <2>5. AckInv'
    BY <2>1, <2>2, <2>3 DEF AckInv
  <2>6. SpreadInv'
    <3>1. Period \in Nat
      BY DEF Period
    <3>2. now <= sentAt[q] + Period
      BY <2>1 DEF SendHeartbeat, Exhausted, PaceInv
    <3> SUFFICES ASSUME NEW r \in 1..(q + 1), NEW s \in 1..(q + 1), r <= s
                 PROVE  sentAt'[s] <= sentAt'[r] + (s - r) * Period
      BY <2>2 DEF SpreadInv, Period
    <3>3. CASE s # q + 1
      BY <2>1, <2>3, <3>3 DEF SpreadInv
    <3>4. CASE s = q + 1 /\ r = q + 1
      BY <2>1, <2>3, <3>1, <3>4
    <3>5. CASE s = q + 1 /\ r # q + 1
      <4>1. r \in 1..q /\ q \in 1..q
        BY <2>1, <3>5
      <4>2. sentAt[q] <= sentAt[r] + (q - r) * Period
        BY <4>1 DEF SpreadInv
      <4>3. (s - r) * Period = (q - r) * Period + Period
        BY <2>1, <3>1, <3>5, <4>1
      <4>4. (q - r) * Period \in Int
        BY <2>1, <3>1, <4>1
      <4> QED
        BY <2>3, <3>1, <3>2, <3>5, <4>1, <4>2, <4>3, <4>4, <2>1
    <3> QED
      BY <3>3, <3>4, <3>5
  <2> QED
    BY <2>2, <2>4, <2>5, <2>6 DEF HealthyEngineKept
<1> QED
  BY <1>1, <1>2

LEMMA StepKept ==
  ASSUME heartbeatTimeoutMs > AckEvery * Period + AckTicks, KeptInv, IInv', [Next]_vars
  PROVE  KeptInv'
<1> USE LivenessAssumption DEF KeptInv, Off, Negotiated
<1>1. CASE SendHeartbeat
  BY <1>1, SendKept
<1>2. CASE HeartbeatWritten
  <2>1. PaceInv'
    BY <1>2 DEF HeartbeatWritten, NextHeartbeat, PaceInv, IInv, TypeOK, Period
  <2>2. SpreadInv'
    BY <1>2 DEF HeartbeatWritten, NextHeartbeat, SpreadInv, Period
  <2>3. AckInv' /\ HealthyEngineKept'
    BY <1>2 DEF HeartbeatWritten, NextHeartbeat, AckInv, HealthyEngineKept
  <2> QED
    BY <2>1, <2>2, <2>3
<1>3. ASSUME NEW s \in 1..MaxSafeInteger, EngineAcknowledges(s) PROVE KeptInv'
  <2>1. CASE Negotiated
    BY <1>3, <2>1, HeartbeatKept DEF EngineAcknowledges
  <2>2. CASE ~Negotiated
    BY <1>3, <2>2, HeartbeatKept DEF EngineAcknowledges
  <2> QED
    BY <2>1, <2>2
<1>4. ASSUME NEW s \in 0..1, NEW a \in 0..MaxSafeInteger, EngineMisbehaves(s, a)
      PROVE  KeptInv'
  BY <1>4, HeartbeatKept DEF EngineMisbehaves
<1>5. CASE HandleOther
  <2>1. PaceInv'
    BY <1>5 DEF HandleOther, PaceInv, IInv, TypeOK, Period
  <2>2. SpreadInv'
    BY <1>5 DEF HandleOther, SpreadInv, Period
  <2>3. AckInv' /\ HealthyEngineKept'
    BY <1>5 DEF HandleOther, AckInv, HealthyEngineKept, IInv, TypeOK, PaceInv
  <2> QED
    BY <2>1, <2>2, <2>3
<1>6. CASE LivenessExpires
  <2>1. closed \/ ~healthy \/ ~Negotiated
    BY <1>6, TimeoutLate DEF LivenessExpires, IInv, TypeOK
  <2>2. livenessTimer # Off
    BY <1>6 DEF LivenessExpires, IInv, TypeOK
  <2>3. ~healthy
    BY <2>1, <2>2 DEF AckInv, IInv, NoTimerAfterClose
  <2>4. PaceInv'
    BY <1>6 DEF LivenessExpires, Fail, PaceInv, IInv, TypeOK, Period
  <2>5. SpreadInv'
    BY <1>6 DEF LivenessExpires, SpreadInv, Period
  <2>6. AckInv' /\ HealthyEngineKept'
    BY <1>6, <2>3 DEF LivenessExpires, Fail, AckInv, HealthyEngineKept
  <2> QED
    BY <2>4, <2>5, <2>6
<1>7. CASE FinishOtherwise
  <2>1. PaceInv'
    BY <1>7 DEF FinishOtherwise, Fail, PaceInv, IInv, TypeOK, Period
  <2>2. SpreadInv'
    BY <1>7 DEF FinishOtherwise, SpreadInv, Period
  <2>3. AckInv' /\ HealthyEngineKept'
    BY <1>7 DEF FinishOtherwise, Fail, AckInv, HealthyEngineKept
  <2> QED
    BY <2>1, <2>2, <2>3
<1>8. CASE Tick
  <2>1. PaceInv'
    BY <1>8 DEF Tick, PaceInv, IInv, TypeOK, Period
  <2>2. SpreadInv'
    BY <1>8 DEF Tick, SpreadInv, Period
  <2>3. ASSUME Negotiated, healthy, NEW s \in 1..heartbeatSequence,
               s >= heartbeatAcknowledgement + AckEvery
        PROVE  now + 1 <= sentAt[s] + AckTicks
    <3>1. s \in 1..MaxSafeInteger /\ sentAt[s] \in Nat /\ now \in Nat
      BY DEF IInv, TypeOK, PaceInv
    <3>2. ~(now >= sentAt[s] + AckTicks)
      BY <1>8, <2>3, <3>1 DEF Tick, AckOverdue
    <3> QED
      BY <3>1, <3>2
  <2>4. AckInv' /\ HealthyEngineKept'
    BY <1>8, <2>3 DEF Tick, AckInv, HealthyEngineKept, IInv, TypeOK
  <2> QED
    BY <2>1, <2>2, <2>4
<1>9. CASE EngineSickens
  <2>1. PaceInv' /\ SpreadInv'
    BY <1>9 DEF EngineSickens, PaceInv, SpreadInv, Period
  <2>2. AckInv' /\ HealthyEngineKept'
    BY <1>9 DEF EngineSickens, AckInv, HealthyEngineKept
  <2> QED
    BY <2>1, <2>2
<1>10. CASE UNCHANGED vars
  BY <1>10 DEF vars, PaceInv, SpreadInv, Period, AckInv, HealthyEngineKept
<1> QED
  BY <1>1, <1>2, <1>3, <1>4, <1>5, <1>6, <1>7, <1>8, <1>9, <1>10 DEF Next

\* No engine that acknowledges its heartbeats is declared dead, if the timeout exceeds the
\* time in which it acknowledges one: the liveness timer of an open channel never fires.
THEOREM HealthyIsKept ==
  ASSUME heartbeatTimeoutMs > AckEvery * Period + AckTicks
  PROVE  Spec => []HealthyEngineKept
<1>1. IInv' /\ KeptInv /\ [Next]_vars => KeptInv'
  BY StepKept
<1>2. KeptInv => HealthyEngineKept
  BY DEF KeptInv
<1> QED
  BY <1>1, <1>2, InitKept, SpecIInv, PTL DEF Spec
=============================================================================
