----------------------------- MODULE Participant -----------------------------
(* One participant on its host: the broker daemon                            *)
(* (src/mcp/tools/instance-broker-daemon.mjs), which runs deliveries and     *)
(* replies one after the other, the agent that reads the admitted tasks and  *)
(* asks for replies, and an operator.  Deliveries are BrokerDelivery's       *)
(* actions, replies ReplyActuator's; they meet in the receipts.              *)
(*                                                                           *)
(* The agent is the headless worker (instance-worker.mjs), which appends a   *)
(* request and then marks the task consumed, or a session behind             *)
(* claude-channel.mjs, which refuses a second request for an envelope.       *)
EXTENDS BrokerDelivery

CONSTANTS
    Request, NoRequest, Approval,   \* as in ReplyActuator
    Runner                          \* the agent: "worker" or "channel"

ASSUME ParticipantAssumption ==
    /\ NoRequest \notin Request
    /\ Approval \cap {"none", "direct", "prepare"} = {}
    /\ Runner \in {"worker", "channel"}

VARIABLES
    about, inflight, used, outbound, approvals, proc, terminal, announced,
    signings, sent,     \* as in ReplyActuator
    up,                 \* the daemon runs
    asked,              \* the task the worker has asked a reply for, not yet consumed
    consumed            \* worker-consumed.jsonl

R == INSTANCE ReplyActuator

agentVars == <<asked, consumed>>
replyOnly == <<about, inflight, used, outbound, approvals, proc, terminal, announced,
               signings, sent>>
deliveryOnly == <<spool, child, counted, claimedBy, delivered, tasks, written, denied>>
vars == <<deliveryVars, worldVars, faults, replyOnly, up, agentVars>>

Init ==
    /\ DeliveryInit /\ R!ReplyInit
    /\ grant = [e \in Envelope |-> "task"] /\ aged = {} /\ faults = 0
    /\ up = TRUE
    /\ asked = NoEnvelope /\ consumed = {}

-----------------------------------------------------------------------------
(* The daemon *)

\* It runs one process at a time, a delivery or a reply.
Free == up /\ child = NoChild /\ proc["daemon"] = R!NoProc

TakeMarker(e) == Free /\ Take(e) /\ UNCHANGED <<replyOnly, up, agentVars>>

Handing ==
    \/ MessageMissing \/ Refuse \/ Announce \/ Admit \/ Count \/ Limited \/ ClaimSource \/ DuplicateSource
    \/ WriteReceipt \/ Send \/ Complete
HandOn == Handing /\ UNCHANGED <<replyOnly, up, agentVars>>
HandOnFails == /\ PolicyUnavailable \/ MessageMissed \/ AckLost \/ Die
               /\ UNCHANGED <<replyOnly, up, agentVars>>

RunReply(r) ==
    /\ up /\ child = NoChild
    /\ \E m \in {"prepare", "direct"} : R!Open("daemon", r, m)
    /\ UNCHANGED <<deliveryOnly, up, agentVars>>

ReplyStep(a) == R!Running(a) /\ UNCHANGED <<deliveryOnly, up, agentVars>>
ReplyFails(a) == R!Failing(a) /\ UNCHANGED <<deliveryOnly, up, agentVars>>

\* The daemon is stopped, and its child with it.
Crash ==
    /\ up /\ Fault("crash")
    /\ up' = FALSE
    /\ child' = NoChild
    /\ proc' = [proc EXCEPT !["daemon"] = R!NoProc]
    /\ UNCHANGED <<spool, counted, claimedBy, base, delivered, tasks, written, denied, worldVars,
                   about, inflight, used, outbound, approvals, terminal, announced,
                   signings, sent, agentVars>>

\* It starts: the Sets of the process are empty, the terminal replies are read
\* back and the markers recovered.
Boot ==
    /\ ~up
    /\ up' = TRUE
    /\ spool' = Recovered
    /\ announced' = {}
    /\ UNCHANGED <<child, counted, claimedBy, base, delivered, tasks, written, denied, worldVars,
                   faults, about, inflight, used, outbound, approvals, proc, terminal,
                   signings, sent, agentVars>>

-----------------------------------------------------------------------------
(* The agent *)

\* Only an admitted task can be answered, never a notification.
Answerable(e) ==
    /\ tasks[e] # <<>> /\ tasks[e][1] = "task"
    /\ IF Runner = "worker" THEN asked = NoEnvelope /\ e \notin consumed
       ELSE \A r \in Request : about[r] # e

\* The request gets a fresh id.
Ask(e) ==
    LET fresh == {r \in Request : about[r] = NoEnvelope} IN
    /\ Answerable(e) /\ fresh # {}
    /\ about' = [about EXCEPT ![CHOOSE r \in fresh : TRUE] = e]
    /\ asked' = IF Runner = "worker" THEN e ELSE asked
    /\ UNCHANGED <<deliveryVars, worldVars, faults, inflight, used, outbound, approvals, proc,
                   terminal, announced, signings, sent, up, consumed>>

Consume ==
    /\ asked # NoEnvelope
    /\ consumed' = consumed \cup {asked} /\ asked' = NoEnvelope
    /\ UNCHANGED <<deliveryVars, worldVars, faults, replyOnly, up>>

\* The worker stops before it has marked the task.
WorkerStops ==
    /\ asked # NoEnvelope /\ Fault("workerstops")
    /\ asked' = NoEnvelope
    /\ UNCHANGED <<deliveryVars, worldVars, replyOnly, up, consumed>>

-----------------------------------------------------------------------------
Operator ==
    \/ /\ \E r \in Request : R!Sign(r)
       /\ UNCHANGED <<deliveryOnly, up, agentVars>>
    \/ /\ \E r \in Request, m \in {"prepare", "direct"} \cup Approval : R!Open("operator", r, m)
       /\ UNCHANGED <<deliveryOnly, up, agentVars>>

Around ==
    /\ \/ AdapterRestart \/ HourPasses
       \/ \E e \in Envelope : Observe(e) \/ GrantChanges(e) \/ Age(e)
    /\ UNCHANGED <<replyOnly, up, agentVars>>

Next ==
    \/ \E e \in Envelope : TakeMarker(e) \/ Ask(e)
    \/ HandOn \/ HandOnFails
    \/ \E r \in Request : RunReply(r)
    \/ \E a \in R!Actor : ReplyStep(a) \/ ReplyFails(a)
    \/ Crash \/ Boot \/ Consume \/ WorkerStops \/ Operator \/ Around

Spec == Init /\ [][Next]_vars

\* The daemon is restarted when it stops, and every tick it runs the pending
\* markers and then the requests it is not done with, so each gets its turn
\* however often the others do; a process that runs gets on, and so does the
\* worker.  Nothing is assumed of the watcher, the operator or a session.
Fairness ==
    /\ WF_vars(Boot) /\ WF_vars(HandOn) /\ WF_vars(Consume)
    /\ \A e \in Envelope : SF_vars(TakeMarker(e))
    /\ \A r \in Request : SF_vars(RunReply(r))
    /\ \A a \in R!Actor : WF_vars(ReplyStep(a))
    /\ Runner = "worker" => \A e \in Envelope : WF_vars(Ask(e))

LiveSpec == Spec /\ Fairness

-----------------------------------------------------------------------------
(* Properties *)

\* A retry republishes the event of the record: a request puts one event on the
\* relays, whoever retries it (instance-broker-reply.mjs:6-7).
RetrySendsSame == R!RetrySendsSame

\* The daemon gives a reply up only when its sender's grant is gone or another
\* request has its receipt (reply_retry.mjs:3-5, instance-broker-reply.mjs:76-87).
RefusedMeansRevoked == [][\A r \in terminal' \ terminal : R!Lost(r)]_vars

\* However many requests the agent makes for an envelope, at most as many
\* replies are out as receipts were written for it: each is claimed by a rename
\* before it is stamped (instance-broker-reply.mjs:192-201).
AnswersWithinReceipts ==
    \A e \in Envelope : Cardinality({r \in Request : about[r] = e /\ sent[r] # {}}) <= written[e]

\* A marker that is taken or waits is finished in the end, through stops of the
\* daemon and relays that do not answer (instance-broker-daemon.mjs:105,
\* "held for retry", and instance-broker.mjs:78-79).
HeldIsRetried == \A e \in Envelope : Unfinished(e) ~> ~Unfinished(e)

=============================================================================
