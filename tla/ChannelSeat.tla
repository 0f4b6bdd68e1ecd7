----------------------------- MODULE ChannelSeat -----------------------------
(***************************************************************************)
(* One participant's seat at its channel (claude-channel.mjs): the keyless  *)
(* channel process that announces admitted envelopes, serves them and takes *)
(* replies, one process at a time by its lock; and the client's side, a     *)
(* coding session its supervisor keeps on a portable host (the --remote     *)
(* form of instance-harness.mjs), over an ssh whose far end is never told   *)
(* that the near one went.                                                  *)
(***************************************************************************)
EXTENDS Naturals, FiniteSets

CONSTANTS
  Envelopes,  \* what the broker admits to the queue
  Chans,      \* channel processes
  NoChan,     \* no process
  Misses,     \* unanswered pings that evict a client (heartbeat-misses)
  MaxFaults   \* bound on lost lines, kills and sleeps of the client's host

VARIABLES
  queue,      \* the admitted queue
  readLog,    \* read.jsonl
  replies,    \* how many reply requests each envelope has
  chan,       \* each channel process
  lock,       \* the process that holds channel.lock
  client,     \* the session: its step and channel, what it was told, has, answered
  faults

seatVars == <<queue, readLog, replies, chan, lock, client, faults>>

\* told: announced within the interval; known: announced or listed this run;
\* line: the carrier still joins it to its client.
NoProcess == [up |-> FALSE, init |-> FALSE, told |-> {}, known |-> {}, misses |-> 0, line |-> FALSE]

Init ==
  /\ queue = {} /\ readLog = {} /\ replies = [e \in Envelopes |-> 0]
  /\ chan = [k \in Chans |-> NoProcess] /\ lock = NoChan /\ faults = 0
  /\ client = [st |-> "down", chan |-> NoChan, awake |-> TRUE,
               woken |-> {}, has |-> {}, answered |-> {}]

Unread == queue \ readLog
Running(k) == chan[k].up /\ chan[k].init
Gone(k) == chan' = [chan EXCEPT ![k] = NoProcess] /\ lock' = IF lock = k THEN NoChan ELSE lock
Fault == faults < MaxFaults /\ faults' = faults + 1
Joined == client.awake /\ client.chan # NoChan /\ chan[client.chan].line

Admit(e) ==
  /\ e \notin queue /\ queue' = queue \cup {e}
  /\ UNCHANGED <<readLog, replies, chan, lock, client, faults>>

-----------------------------------------------------------------------------
\* The client's side.

\* The supervisor starts a session and its ssh runs the forced command.  A
\* channel that finds the lock held exits at once: the session's channel
\* closes during startup and the supervisor tries again later.
Join(k) ==
  /\ client.st = "down" /\ client.awake /\ ~chan[k].up /\ lock = NoChan
  /\ chan' = [chan EXCEPT ![k] = [NoProcess EXCEPT !.up = TRUE, !.line = TRUE]]
  /\ lock' = k /\ client' = [client EXCEPT !.st = "joining", !.chan = k]
  /\ UNCHANGED <<queue, readLog, replies, faults>>

\* The client initialises the MCP session.
Initialise ==
  /\ client.st = "joining" /\ Joined /\ client' = [client EXCEPT !.st = "ready"]
  /\ chan' = [chan EXCEPT ![client.chan].init = TRUE]
  /\ UNCHANGED <<queue, readLog, replies, lock, faults>>

\* The session, past its startup screens, accepts what is injected.
Listen ==
  /\ client.st = "ready" /\ Joined /\ client' = [client EXCEPT !.st = "listening"]
  /\ UNCHANGED <<queue, readLog, replies, chan, lock, faults>>

\* The supervisor sees that the session's channel process is gone and
\* restarts the session, which resumes its conversation without the prompts
\* it had not taken.
Notice ==
  /\ client.st # "down" /\ client.awake /\ (client.chan = NoChan \/ ~chan[client.chan].line)
  /\ client' = [client EXCEPT !.st = "down", !.chan = NoChan, !.woken = {}]
  /\ UNCHANGED <<queue, readLog, replies, chan, lock, faults>>

\* The line goes; the channel's stdin stays open.
Drop ==
  /\ client.chan # NoChan /\ chan[client.chan].line /\ Fault
  /\ chan' = [chan EXCEPT ![client.chan].line = FALSE]
  /\ UNCHANGED <<queue, readLog, replies, lock, client>>

\* The client's host sleeps, with its connection, and wakes.
Sleep ==
  /\ client.awake /\ Fault /\ client' = [client EXCEPT !.awake = FALSE]
  /\ UNCHANGED <<queue, readLog, replies, chan, lock>>

Awake ==
  /\ ~client.awake /\ client' = [client EXCEPT !.awake = TRUE]
  /\ UNCHANGED <<queue, readLog, replies, chan, lock, faults>>

-----------------------------------------------------------------------------
\* The channel process.

\* Mutant of Poll: an envelope is announced once per run.
PollOnce(k) ==
  /\ Running(k) /\ Unread \ chan[k].known # {}
  /\ chan' = [chan EXCEPT ![k].told = Unread, ![k].known = (@ \cup Unread) \ readLog]
  /\ client' = IF Joined /\ client.chan = k /\ client.st = "listening"
                 THEN [client EXCEPT !.woken = @ \cup (Unread \ chan[k].known)] ELSE client
  /\ UNCHANGED <<queue, readLog, replies, lock, faults>>

\* What is unread and was not announced within the interval is announced; a
\* session that does not listen yet, or is not there, drops it silently.
Poll(k) ==
  /\ Running(k) /\ Unread \ chan[k].told # {}
  /\ chan' = [chan EXCEPT ![k].told = Unread, ![k].known = (@ \cup Unread) \ readLog]
  /\ client' = IF Joined /\ client.chan = k /\ client.st = "listening"
                 THEN [client EXCEPT !.woken = @ \cup (Unread \ chan[k].told)] ELSE client
  /\ UNCHANGED <<queue, readLog, replies, lock, faults>>

\* renotifyMs passed.
Interval(k) ==
  /\ chan[k].told # {} /\ chan' = [chan EXCEPT ![k].told = {}]
  /\ UNCHANGED <<queue, readLog, replies, lock, client, faults>>

\* nvoy_channel_list: makes markers readable, and leaves the throttle alone.
List ==
  /\ client.st = "listening" /\ Joined /\ Unread # {}
  /\ chan' = [chan EXCEPT ![client.chan].known = @ \cup Unread]
  /\ client' = [client EXCEPT !.woken = @ \cup Unread]
  /\ UNCHANGED <<queue, readLog, replies, lock, faults>>

\* nvoy_channel_read: recorded as read, then answered; the line may go in
\* between.
Read(e) ==
  /\ client.st = "listening" /\ Joined /\ e \in client.woken /\ e \in queue
  /\ e \in readLog \cup chan[client.chan].known
  /\ readLog' = readLog \cup {e}
  /\ \/ /\ client' = [client EXCEPT !.woken = @ \ {e}, !.has = @ \cup {e}]
        /\ UNCHANGED <<chan, faults>>
     \/ /\ Fault /\ chan' = [chan EXCEPT ![client.chan].line = FALSE] /\ UNCHANGED client
  /\ UNCHANGED <<queue, replies, lock>>

\* nvoy_channel_reply: one request per envelope, whoever asks again because
\* an answer was lost.
Reply(e) ==
  /\ client.st = "listening" /\ Joined /\ e \in client.has \ client.answered
  /\ e \in readLog \cup chan[client.chan].known
  /\ replies' = [replies EXCEPT ![e] = IF @ = 0 THEN 1 ELSE @]
  /\ \/ client' = [client EXCEPT !.answered = @ \cup {e}] /\ UNCHANGED <<chan, faults>>
     \/ Fault /\ chan' = [chan EXCEPT ![client.chan].line = FALSE] /\ UNCHANGED client
  /\ UNCHANGED <<queue, readLog, lock>>

\* A ping: a client that is there answers; one that does not for long enough
\* is taken for gone, and the lock released.
Heartbeat(k) ==
  /\ Running(k)
  /\ IF chan[k].line /\ client.awake
       THEN chan[k].misses > 0 /\ chan' = [chan EXCEPT ![k].misses = 0] /\ UNCHANGED lock
       ELSE IF chan[k].misses + 1 < Misses
              THEN chan' = [chan EXCEPT ![k].misses = @ + 1] /\ UNCHANGED lock
              ELSE Gone(k)
  /\ UNCHANGED <<queue, readLog, replies, client, faults>>

\* Nothing initialised it in time.
Handshake(k) ==
  /\ chan[k].up /\ ~chan[k].init /\ ~(chan[k].line /\ client.awake) /\ Gone(k)
  /\ UNCHANGED <<queue, readLog, replies, client, faults>>

\* The container is recreated, or the process killed: the lock it leaves is
\* the next one's to reclaim (Locks).
Kill(k) ==
  /\ chan[k].up /\ Fault /\ Gone(k)
  /\ UNCHANGED <<queue, readLog, replies, client>>

-----------------------------------------------------------------------------
Channel(k) == Poll(k) \/ Interval(k) \/ Heartbeat(k) \/ Handshake(k)
Client == (\E k \in Chans : Join(k)) \/ Initialise \/ Listen \/ Notice \/ Awake

Next ==
  \/ \E k \in Chans : Channel(k) \/ Kill(k)
  \/ Client \/ Drop \/ Sleep \/ List
  \/ \E e \in Envelopes : Admit(e) \/ Read(e) \/ Reply(e)

-----------------------------------------------------------------------------
\* An admitted envelope is read in the end, by a session that reads what it
\* is woken for: neither a wake dropped by a client that did not listen, nor a
\* process left holding the lock by a client that went, stops it.
EveryEnvelopeRead == \A e \in Envelopes : e \in queue ~> e \in readLog

SeatFairness ==
  /\ WF_seatVars(Client) /\ \A k \in Chans : /\ WF_seatVars(Poll(k)) /\ WF_seatVars(Interval(k))
                                             /\ WF_seatVars(Heartbeat(k)) /\ WF_seatVars(Handshake(k))
  /\ \A e \in Envelopes : WF_seatVars(Read(e))

Spec == Init /\ [][Next]_seatVars /\ SeatFairness
=============================================================================
