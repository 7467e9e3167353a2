---------------------------- MODULE WebTTYCommand ---------------------------
(* A command that runs over a WebTTY session (webtty/src/execution.ts): it captures  *)
(* the output up to a limit, replays it to any number of readers, asks the server to *)
(* terminate, and settles once with the exit code or a failure.  The session is      *)
(* WebTTYEvents: whatever it may do, the command's callbacks run in the same step.   *)
(* A reader has a ReadableStream of its own, whose queue holds what it has not read, *)
(* and one read at a time.                                                           *)
EXTENDS WebTTYEvents, Naturals, Sequences

CONSTANTS Terminators,  \* calls of terminate()
          Limit,        \* the call of terminate() that outputLimit() makes
          Readers,      \* subscribers of the streams and of the log
          Inputs,       \* how `input' may be given: "none", "sync" or "async"
          MaxBytes,     \* maxOutputBytes
          MaxChunks,    \* maxRetainedOutputChunks (32768 in the code)
          MaxSent       \* bytes that the process writes

ASSUME CommandAssumption ==
  /\ Limit \in Terminators
  /\ {MaxBytes, MaxChunks, MaxSent} \subseteq Nat
  /\ {"log", "none"} \intersect Streams = {}
  /\ Inputs \subseteq {"none", "sync", "async"}

VARIABLES
  command,     \* the WebTTYCommand object and its promises
  channel,     \* ReplayStreamChannel of each stream and of the log
  reader,      \* subscribers and their ReadableStreams
  terminator,  \* calls of terminate()
  sent         \* how many bytes of each stream the session has delivered

commandVars == <<command, channel, reader, terminator, sent>>
allCommandVars == <<eventVars, commandVars>>

Channels == Streams \union {"log"}

\* A chunk is the bytes of its stream from one place to another.
Chunks == {c \in [stream : Streams, from : 0..MaxSent, to : 0..MaxSent] : c.from < c.to}

Promise == {"pending", "resolved", "rejected"}
Commands ==
  [thrown : BOOLEAN,                             \* out of the constructor
   settled : BOOLEAN, limited : BOOLEAN, connected : Promise, completion : Promise,
   bytes : 0..MaxBytes, chunks : 0..MaxChunks,   \* captured
   deadline : BOOLEAN,                           \* timeoutMs and the signal are armed
   input : {"none", "sync", "async", "writing"},
   terminate : {"unsupported", "supported", "requested"}]
ReplayChannels == [values : Seq(Chunks), state : {"open", "closed", "failed"}]
Subscribers ==
  [of : Channels \union {"none"}, got : Seq(Chunks), queue : Seq(Chunks), waiting : BOOLEAN,
   state : {"idle", "reading", "closed", "failed", "cancelled"}]

CommandTypeOK ==
  /\ phase \in {"preparing", "connecting", "connected", "closed"} /\ ended \subseteq Streams
  /\ command \in Commands
  /\ channel \in [Channels -> ReplayChannels]
  /\ reader \in [Readers -> Subscribers]
  /\ terminator \in [Terminators -> {"idle", "connecting", "confirming", "confirmed", "unknown", "rejected"}]
  /\ sent \in [Streams -> 0..MaxSent]

CommandInit ==
  /\ EventsInit
  /\ \E input \in Inputs :
       command = [thrown |-> FALSE, settled |-> FALSE, limited |-> FALSE, bytes |-> 0, chunks |-> 0, connected |-> "pending",
                  completion |-> "pending", deadline |-> FALSE, input |-> input,
                  terminate |-> "unsupported"]
  /\ channel = [c \in Channels |-> [values |-> <<>>, state |-> "open"]]
  /\ reader = [r \in Readers |-> [of |-> "none", got |-> <<>>, queue |-> <<>>, waiting |-> FALSE, state |-> "idle"]]
  /\ terminator = [t \in Terminators |-> "idle"]
  /\ sent = [s \in Streams |-> 0]

-----------------------------------------------------------------------------
(* Channels and their subscribers *)

\* append() of chunk c.
Appended(ch, c) == IF ch.state = "open" THEN [ch EXCEPT !.values = Append(@, c)] ELSE ch
\* close() and error()
Finished(ch, state) == IF ch.state = "open" THEN [ch EXCEPT !.state = state] ELSE ch

\* A reader's stream gets the chunks `added': a read that waits takes one at once.
Enqueued(r, added) ==
  IF r.waiting /\ added # <<>> THEN [r EXCEPT !.got = @ \o added, !.waiting = FALSE]
  ELSE [r EXCEPT !.queue = @ \o added]
\* controller.close() leaves the queue to be read; controller.error() throws it away.
Ended(r, state) ==
  CASE state = "open" -> r
    [] state = "closed" -> IF r.waiting THEN [r EXCEPT !.waiting = FALSE, !.state = "closed"] ELSE r
    [] state = "failed" -> [r EXCEPT !.queue = <<>>, !.waiting = FALSE, !.state = "failed"]

\* What a reader of a channel is told while it goes from ch to new, by one chunk at most.
Told(r, ch, new) ==
  IF r.state # "reading" THEN r
  ELSE Ended(Enqueued(r, SubSeq(new.values, Len(ch.values) + 1, Len(new.values))), new.state)
ChannelsBecome(new) ==
  /\ channel' = new
  /\ reader' = [r \in Readers |-> IF reader[r].of = "none" THEN reader[r]
                                  ELSE Told(reader[r], channel[reader[r].of], new[reader[r].of])]

\* There is a command once its constructor has returned.
Constructed == phase # "preparing"
ReaderStep == Constructed /\ event' = NoEvent /\ UNCHANGED <<phase, ended, command, channel, terminator, sent>>

\* stdoutStream(), stderrStream() and logBytes(): subscribe() enqueues the values so far.
Subscribe(r, c) ==
  /\ ReaderStep /\ reader[r].state = "idle"
  /\ reader' = [reader EXCEPT ![r] = Ended([of |-> c, got |-> <<>>, queue |-> channel[c].values,
                                           waiting |-> FALSE, state |-> "reading"], channel[c].state)]

\* The reader asks for the next chunk, and is at the end when a closed stream has no more.
ReadNext(r) ==
  /\ ReaderStep /\ reader[r].state = "reading" /\ ~reader[r].waiting
  /\ LET me == reader[r]
     IN reader' = [reader EXCEPT ![r] =
          IF me.queue # <<>> THEN [me EXCEPT !.got = Append(@, Head(me.queue)), !.queue = Tail(@)]
          ELSE IF channel[me.of].state = "closed" THEN [me EXCEPT !.state = "closed"]
          ELSE [me EXCEPT !.waiting = TRUE]]

\* cancel() of a stream; the generator of the log only releases its reader.
Unsubscribe(r) ==
  /\ ReaderStep /\ reader[r].state = "reading" /\ reader[r].of \in Streams
  /\ reader' = [reader EXCEPT ![r] = [reader[r] EXCEPT !.state = "cancelled", !.queue = <<>>, !.waiting = FALSE]]

-----------------------------------------------------------------------------
(* Settling *)

All(state) == [c \in Channels |-> Finished(channel[c], state)]

\* complete(): a pending 'connected' stays pending.
Complete ==
  IF command.settled THEN UNCHANGED <<command, channel, reader>>
  ELSE /\ command' = [command EXCEPT !.settled = TRUE, !.completion = "resolved", !.deadline = FALSE]
       /\ ChannelsBecome(All("closed"))

\* fail() from command state k, which disconnects the session.
FailOf(k) ==
  /\ command' = [k EXCEPT !.settled = TRUE, !.completion = "rejected", !.deadline = FALSE,
                          !.connected = IF @ = "pending" THEN "rejected" ELSE @]
  /\ ChannelsBecome(All("failed"))
DisconnectSession ==
  IF phase = "closed" THEN Quiet ELSE OnEnd("onError")
Fail ==
  IF command.settled THEN Quiet /\ UNCHANGED <<command, channel, reader>>
  ELSE FailOf(command) /\ DisconnectSession

-----------------------------------------------------------------------------
(* The callbacks of the session *)

\* The rest of the constructor arms the timeout and the signal and connects.
CommandConnects ==
  /\ Starts /\ ~command.thrown
  /\ command' = [command EXCEPT !.deadline = TRUE]
  /\ UNCHANGED <<channel, reader, terminator, sent>>

\* With a signal aborted beforehand fail() runs while the constructor does, calls this.abort
\* before it is assigned, and the TypeError leaves the constructor: there is no command.
ConstructorThrows ==
  /\ phase = "preparing" /\ ~command.thrown
  /\ command' = [command EXCEPT !.thrown = TRUE]
  /\ Quiet /\ UNCHANGED <<channel, reader, terminator, sent>>

\* onConnect: the initial input is written at once, or asynchronously when payloads are
\* encrypted.
CommandOnConnect ==
  /\ OnConnect
  /\ \E supported \in BOOLEAN :
       command' = [command EXCEPT
         !.connected = IF @ = "pending" THEN "resolved" ELSE @,
         !.terminate = IF supported THEN "supported" ELSE @,
         !.input = IF @ = "async" THEN "writing" ELSE "none"]
  /\ UNCHANGED <<channel, reader, terminator, sent>>

\* outputLimit() from command state k ends the channels, as new, and calls terminate().
LimitedQuietly(k, new) ==
  /\ command' = [k EXCEPT !.limited = TRUE]
  /\ ChannelsBecome([c \in Channels |-> Finished(new[c], "closed")])
  /\ terminator' = [terminator EXCEPT ![Limit] = "connecting"]
Limited(k, new) ==
  /\ command' = [k EXCEPT !.limited = TRUE]
  /\ ChannelsBecome([c \in Channels |-> Finished(new[c], "failed")])
  /\ terminator' = [terminator EXCEPT ![Limit] = "connecting"]

\* onStdout, onStderr: append() keeps what fits.
CommandOnOutput(s, size) ==
  /\ OnOutput(s) /\ sent[s] + size <= MaxSent
  /\ sent' = [sent EXCEPT ![s] = @ + size]
  /\ LET remaining == MaxBytes - command.bytes
         kept == IF size <= remaining THEN size ELSE remaining
         chunk == [stream |-> s, from |-> sent[s], to |-> sent[s] + kept]
         new == [c \in Channels |-> IF kept > 0 /\ c \in {s, "log"} THEN Appended(channel[c], chunk) ELSE channel[c]]
         counted == [command EXCEPT !.bytes = @ + kept, !.chunks = IF kept > 0 THEN @ + 1 ELSE @]
     IN IF command.settled \/ command.limited THEN UNCHANGED <<command, channel, reader, terminator>>
        ELSE IF command.chunks >= MaxChunks THEN Limited(command, channel)
        ELSE IF kept < size THEN Limited(counted, new)
        ELSE command' = counted /\ ChannelsBecome(new) /\ UNCHANGED terminator

\* onStdoutEos, onStderrEos
CommandOnEos(s) ==
  /\ OnEos(s)
  /\ ChannelsBecome([channel EXCEPT ![s] = Finished(@, "closed")])
  /\ UNCHANGED <<command, terminator, sent>>

CommandOnComplete ==
  /\ Constructed /\ OnEnd("onComplete")
  /\ Complete
  /\ UNCHANGED <<terminator, sent>>

\* onError; also the end that the command's own disconnect() brings.
CommandOnError ==
  /\ Constructed /\ OnEnd("onError")
  /\ IF command.settled THEN UNCHANGED <<command, channel, reader>> ELSE FailOf(command)
  /\ UNCHANGED <<terminator, sent>>

\* The initial input is written and stdin closed, or either throws.
InputSettles ==
  /\ command.input = "writing"
  /\ \/ phase = "connected" /\ Quiet /\ command' = [command EXCEPT !.input = "none"] /\ UNCHANGED <<channel, reader>>
     \/ IF command.settled
        THEN Quiet /\ command' = [command EXCEPT !.input = "none"] /\ UNCHANGED <<channel, reader>>
        ELSE FailOf([command EXCEPT !.input = "none"]) /\ DisconnectSession
  /\ UNCHANGED <<terminator, sent>>

\* The timeout of the command passes, or its signal is aborted.
Expire ==
  /\ command.deadline
  /\ Fail
  /\ UNCHANGED <<terminator, sent>>

-----------------------------------------------------------------------------
(* terminate() *)

TerminatorBecomes(t, state) == terminator' = [terminator EXCEPT ![t] = state]

\* terminate(), from the application.
Terminate(t) ==
  /\ Constructed /\ t # Limit /\ terminator[t] = "idle"
  /\ TerminatorBecomes(t, IF command.settled THEN "confirming" ELSE "connecting")
  /\ Quiet
  /\ UNCHANGED <<command, channel, reader, sent>>

\* The call rejects; that of outputLimit() then fails the command.
RejectsOnly(t, state) == TerminatorBecomes(t, state) /\ Quiet /\ UNCHANGED <<command, channel, reader>>
Rejects(t, state) ==
  /\ TerminatorBecomes(t, state)
  /\ IF t = Limit THEN Fail ELSE Quiet /\ UNCHANGED <<command, channel, reader>>

\* terminateAfterConnect() after 'connected' has settled: requestTermination() throws when
\* the session is closed or the server does not support it, and asks only once.
TerminateRequests(t) ==
  /\ terminator[t] = "connecting" /\ command.connected # "pending"
  /\ IF command.connected = "rejected" THEN Rejects(t, "rejected")
     ELSE IF command.settled
     THEN TerminatorBecomes(t, "confirming") /\ Quiet /\ UNCHANGED <<command, channel, reader>>
     ELSE IF phase # "connected" \/ command.terminate = "unsupported" THEN Rejects(t, "rejected")
     ELSE /\ TerminatorBecomes(t, "confirming") /\ Quiet
          /\ command' = [command EXCEPT !.terminate = "requested"]
          /\ UNCHANGED <<channel, reader>>
  /\ UNCHANGED sent

\* The result of the process confirms the call.
TerminateConfirmed(t) ==
  /\ terminator[t] = "confirming" /\ command.completion # "pending"
  /\ IF command.completion = "resolved"
     THEN TerminatorBecomes(t, "confirmed") /\ Quiet /\ UNCHANGED <<command, channel, reader>>
     ELSE Rejects(t, "rejected")
  /\ UNCHANGED sent

\* The deadline of the call passes; what is settled is seen before a timer fires.
TerminateExpires(t) ==
  /\ \/ terminator[t] = "connecting" /\ command.connected = "pending"
     \/ terminator[t] = "confirming" /\ command.completion = "pending"
  /\ Rejects(t, "unknown")
  /\ UNCHANGED sent

CommandNext ==
  \/ CommandConnects \/ ConstructorThrows \/ CommandOnConnect \/ CommandOnComplete \/ CommandOnError
  \/ InputSettles \/ Expire
  \/ \E s \in Streams : CommandOnEos(s) \/ \E size \in 1..MaxSent : CommandOnOutput(s, size)
  \/ \E r \in Readers : ReadNext(r) \/ Unsubscribe(r) \/ \E c \in Channels : Subscribe(r, c)
  \/ \E t \in Terminators :
       Terminate(t) \/ TerminateRequests(t) \/ TerminateConfirmed(t) \/ TerminateExpires(t)

TerminatorSteps == \E t \in Terminators : TerminateRequests(t) \/ TerminateConfirmed(t) \/ TerminateExpires(t)
CommandFairness == WF_allCommandVars(TerminatorSteps)

CommandSpec == CommandInit /\ [][CommandNext]_allCommandVars /\ CommandFairness

-----------------------------------------------------------------------------
(* Properties *)

\* A reader that has not failed has read, or has in its queue, every chunk of its channel from
\* the first, whenever it subscribed; at the end of its stream it has read them all.  A failure
\* takes away what it had not read, never what it had, and a reader waits only for an open
\* channel whose chunks it has read.  (ReplayStreamChannel)
ReadersSeeAll ==
  \A r \in Readers :
    LET me == reader[r]
        ch == channel[me.of]
    IN /\ me.state = "reading" => ch.state # "failed" /\ me.got \o me.queue = ch.values
       /\ me.state = "closed" => ch.state = "closed" /\ me.got = ch.values
       /\ me.state = "failed" => /\ ch.state = "failed" /\ me.queue = <<>>
                                 /\ me.got = SubSeq(ch.values, 1, Len(me.got)) /\ Len(me.got) <= Len(ch.values)
       /\ me.waiting => me.state = "reading" /\ ch.state = "open" /\ me.queue = <<>>

\* No byte is captured twice or out of its order, and the log has the chunks of the two
\* streams and no others.  (append)
Of(chunks, s) == {chunks[i] : i \in {j \in DOMAIN chunks : chunks[j].stream = s}}
InOrder(chunks) ==
  \A i, j \in DOMAIN chunks : i < j /\ chunks[i].stream = chunks[j].stream => chunks[i].to <= chunks[j].from
LogInterleaves ==
  /\ \A c \in Channels : InOrder(channel[c].values)
  /\ \A s, t \in Streams : Of(channel[s].values, t) = IF s = t THEN Of(channel["log"].values, s) ELSE {}

\* Output that closes without an error is complete: the limit never truncates silently,
\* and nothing that arrives before the exit code is dropped.
Covers(chunks, n) == \A byte \in 0..n - 1 : \E i \in DOMAIN chunks : byte \in chunks[i].from..chunks[i].to - 1
NoSilentTruncation == \A s \in Streams : channel[s].state = "closed" => Covers(channel[s].values, sent[s])

\* What is captured is what was written, and what a reader reads is what was captured
\* (ReplayStreamChannel, append).
CaptureFaithful == CommandTypeOK /\ ReadersSeeAll /\ LogInterleaves /\ NoSilentTruncation

\* After the limit the command settles within the deadline of its terminate(), although
\* the application has set no timeout (outputLimit).
LimitSettles == command.limited ~> command.settled
=============================================================================
