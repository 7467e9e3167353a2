-------------------------- MODULE StreamAdmission ---------------------------
(* What the runtime promises of the streams of its tunnels, whatever happens to the      *)
(* control connection ("Control liveness and established streams" in the README of       *)
(* @rstreamlabs/runtime): streams are admitted only through an open tunnel, established  *)
(* in the order in which they were admitted, withdrawn with their tunnel as long as      *)
(* nobody accepted them, and left alone once established.                                *)
EXTENDS Sequences

CONSTANTS Tunnels, Streams, TunnelOf

VARIABLES phase,   \* of each tunnel
          line,    \* of each tunnel, the streams admitted and not yet established
          stream   \* what became of each stream

vars == <<phase, line, stream>>

Init ==
  /\ phase = [t \in Tunnels |-> "none"]
  /\ line = [t \in Tunnels |-> <<>>]
  /\ stream = [p \in Streams |-> "outside"]

Open(t) ==
  /\ phase[t] = "none"
  /\ phase' = [phase EXCEPT ![t] = "open"]
  /\ UNCHANGED <<line, stream>>

Admit(p) ==
  /\ stream[p] = "outside" /\ phase[TunnelOf[p]] = "open"
  /\ stream' = [stream EXCEPT ![p] = "admitted"]
  /\ line' = [line EXCEPT ![TunnelOf[p]] = Append(@, p)]
  /\ UNCHANGED phase

\* Nobody is before it in the line: the stream goes straight to a waiting accept().
AdmitAndEstablish(p) ==
  /\ stream[p] = "outside" /\ phase[TunnelOf[p]] = "open" /\ line[TunnelOf[p]] = <<>>
  /\ stream' = [stream EXCEPT ![p] = "established"]
  /\ UNCHANGED <<phase, line>>

Establish(t) ==
  /\ phase[t] = "open" /\ line[t] # <<>>
  /\ stream' = [stream EXCEPT ![Head(line[t])] = "established"]
  /\ line' = [line EXCEPT ![t] = Tail(@)]
  /\ UNCHANGED phase

Refuse(p) ==
  /\ stream[p] = "outside"
  /\ stream' = [stream EXCEPT ![p] = "ended"]
  /\ UNCHANGED <<phase, line>>

\* One tunnel is closed, or all those that are open at once.
Withdraw(ts) ==
  /\ \A t \in ts : phase[t] = "open"
  /\ phase' = [t \in Tunnels |-> IF t \in ts THEN "closed" ELSE phase[t]]
  /\ line' = [t \in Tunnels |-> IF t \in ts THEN <<>> ELSE line[t]]
  /\ stream' = [p \in Streams |->
                  IF TunnelOf[p] \in ts /\ stream[p] = "admitted" THEN "ended" ELSE stream[p]]

Next ==
  \/ \E t \in Tunnels : Open(t) \/ Establish(t)
  \/ \E p \in Streams : Admit(p) \/ AdmitAndEstablish(p) \/ Refuse(p)
  \/ \E ts \in SUBSET Tunnels : Withdraw(ts)

Spec == Init /\ [][Next]_vars
=============================================================================
