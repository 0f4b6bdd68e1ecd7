--------------------------- MODULE BrokerDelivery ---------------------------
(* The delivery half of a participant's keyed broker: one run of             *)
(* src/mcp/tools/instance-broker.mjs (wrapped mail) or                       *)
(* instance-broker-native.mjs (a mention on the Buzz relay) per marker in    *)
(* the spool, and the keyless adapter it hands the admitted task to          *)
(* (instance-adapter.mjs).  All that survives a stopped process is files:    *)
(* the markers, the admission counter, the index of channel sources, the     *)
(* receipts and the adapter's queue.                                         *)
(*                                                                           *)
(* The module has no Next of its own: Participant composes its actions with  *)
(* the reply actuator and the daemon that runs both.  Envelopes here are     *)
(* well formed and below the hop limit.                                      *)
EXTENDS Naturals, FiniteSets, Sequences

CONSTANTS
    Envelope,       \* outer event ids the watcher may observe
    NoEnvelope,     \* no envelope
    Kind,           \* how each comes: "direct", "carry" or "native"
    Source,         \* the signed event each brings; a direct one is its own
    FromGrantor,    \* envelopes whose sender is a grantor: no hourly budget
    PerHour,        \* admissions an hour of the other senders, here one sender
    Faults,         \* what may go wrong (see the actions)
    MaxFaults       \* bound on how often it does

ASSUME DeliveryAssumption ==
    /\ NoEnvelope \notin Envelope
    /\ Kind \in [Envelope -> {"direct", "carry", "native"}]
    /\ \A e \in Envelope : Kind[e] = "direct" =>
         \A f \in Envelope \ {e} : Source[f] # Source[e]
    /\ FromGrantor \subseteq Envelope
    /\ PerHour \in Nat /\ MaxFaults \in Nat

VARIABLES
    spool,          \* the marker files of each envelope
    child,          \* the deliver process: where it is, and its envelope
    counted,        \* admissions.json: sources counted in the current hour
    claimedBy,      \* channel-source-admissions.jsonl: who brought a source
    base,           \* receipts/<envelope>.json, not yet claimed by a reply
    delivered,      \* the adapter's Set of envelopes it has queued
    tasks,          \* admitted-tasks.jsonl, its rows about each envelope
    grant,          \* live authority over each envelope: "task", "relay", "none"
    aged,           \* envelopes written longer ago than attention looks back
    written,        \* history: receipts written for each envelope
    denied,         \* history: envelopes the policy or a limit turned down
    faults          \* faults so far

deliveryVars == <<spool, child, counted, claimedBy, base, delivered, tasks, written, denied>>
worldVars == <<grant, aged>>

Sources == {Source[e] : e \in Envelope}
NoChild == [at |-> "idle", env |-> NoEnvelope]
Wrapped(e) == Kind[e] # "native"

DeliveryInit ==
    /\ spool = [e \in Envelope |-> {}]
    /\ child = NoChild
    /\ counted = {}
    /\ claimedBy = [s \in Sources |-> NoEnvelope]
    /\ base = {} /\ delivered = {} /\ denied = {}
    /\ tasks = [e \in Envelope |-> <<>>]
    /\ written = [e \in Envelope |-> 0]

Fault(f) == f \in Faults /\ faults < MaxFaults /\ faults' = faults + 1

Rename(e, from, to) ==
    /\ from \in spool[e]
    /\ spool' = [spool EXCEPT ![e] = (@ \ {from}) \cup {to}]

Goto(l) == child' = [child EXCEPT !.at = l]
End == child' = NoChild
\* A verdict that is final: the marker stays as audit evidence.
Finish == Rename(child.env, "inflight", "done") /\ End
\* No answer is not a denial: the marker goes back.
Requeue == Rename(child.env, "inflight", "pending") /\ End

-----------------------------------------------------------------------------
(* The watcher *)

\* A marker is created exclusively under its pending name, so it may appear
\* again once the broker has renamed it: the watcher records an envelope twice
\* when it stopped between the marker and its seen log.
Observe(e) ==
    /\ \/ spool[e] = {} /\ UNCHANGED faults
       \/ spool[e] # {} /\ "pending" \notin spool[e] /\ Fault("reobserve")
    /\ spool' = [spool EXCEPT ![e] = @ \cup {"pending"}]
    /\ UNCHANGED <<child, counted, claimedBy, base, delivered, tasks, written, denied, worldVars>>

-----------------------------------------------------------------------------
(* The deliver process *)

\* The broker lock is free: the daemon runs one child at a time.
Take(e) ==
    /\ child = NoChild
    /\ Rename(e, "pending", "inflight")
    /\ child' = [at |-> "policy", env |-> e]
    /\ UNCHANGED <<counted, claimedBy, base, delivered, tasks, written, denied, worldVars, faults>>

\* The policy was not answered.  Mutant: the marker is finished all the same.
GivenUp == Finish
Unanswered == Requeue
PolicyUnavailable ==
    /\ child.at = "policy" /\ Fault("unusable")
    /\ Unanswered
    /\ UNCHANGED <<counted, claimedBy, base, delivered, tasks, written, denied, worldVars>>

\* The policy was answered and the message was not: a relay without it, or one
\* written before the window of attention.  Nothing tells this from no mail.
Nothing ==
    /\ child.at = "policy" /\ Finish
    /\ UNCHANGED <<counted, claimedBy, base, delivered, tasks, written, denied, worldVars>>
MessageMissing == Nothing /\ child.env \in aged /\ UNCHANGED faults
MessageMissed == Nothing /\ Fault("miss")

\* The sender holds no live task grant.
Refuse ==
    /\ child.at = "policy" /\ grant[child.env] = "none"
    /\ Finish
    /\ denied' = denied \cup {child.env}
    /\ UNCHANGED <<counted, claimedBy, base, delivered, tasks, written, worldVars, faults>>

\* Nor does the author of a carried event, but its carrier may announce it.
Announce ==
    /\ child.at = "policy" /\ grant[child.env] = "relay" /\ child.env \notin aged
    /\ Goto("notify")
    /\ denied' = denied \cup {child.env}
    /\ UNCHANGED <<spool, counted, claimedBy, base, delivered, tasks, written, worldVars, faults>>

Admit ==
    /\ child.at = "policy" /\ grant[child.env] = "task" /\ child.env \notin aged
    /\ Goto("count")
    /\ UNCHANGED <<spool, counted, claimedBy, base, delivered, tasks, written, denied, worldVars, faults>>

\* admissionLimit: a source is counted once whatever brings it, and what was
\* counted is not refused by its own entry.
WithinLimit(e) == e \in FromGrantor \/ Source[e] \in counted \/ Cardinality(counted) < PerHour
AfterCount(e) == IF Kind[e] = "direct" THEN "receipt" ELSE "claim"

Count ==
    LET e == child.env IN
    /\ child.at = "count" /\ WithinLimit(e)
    /\ counted' = IF e \in FromGrantor THEN counted ELSE counted \cup {Source[e]}
    /\ Goto(AfterCount(e))
    /\ UNCHANGED <<spool, claimedBy, base, delivered, tasks, written, denied, worldVars, faults>>

Limited ==
    /\ child.at = "count" /\ ~WithinLimit(child.env)
    /\ Finish
    /\ denied' = denied \cup {child.env}
    /\ UNCHANGED <<counted, claimedBy, base, delivered, tasks, written, worldVars, faults>>

\* claimChannelSource.
Claimant(e) == claimedBy[Source[e]] \in {NoEnvelope, e}

ClaimSource ==
    LET e == child.env IN
    /\ child.at = "claim" /\ Claimant(e)
    /\ claimedBy' = [claimedBy EXCEPT ![Source[e]] = e]
    /\ Goto("receipt")
    /\ UNCHANGED <<spool, counted, base, delivered, tasks, written, denied, worldVars, faults>>

DuplicateSource ==
    /\ child.at = "claim" /\ ~Claimant(child.env)
    /\ Finish
    /\ UNCHANGED <<counted, claimedBy, base, delivered, tasks, written, denied, worldVars, faults>>

\* The receipt is renamed into place over whatever is there, and is written
\* again by every redelivery.  Mutant: it is not written at all.
NoReceipt == base
Receipted == base \cup {child.env}
WriteReceipt ==
    /\ child.at = "receipt"
    /\ base' = Receipted
    /\ written' = [written EXCEPT ![child.env] = @ + 1]
    /\ Goto("send")
    /\ UNCHANGED <<spool, counted, claimedBy, delivered, tasks, denied, worldVars, faults>>

\* The adapter queues an envelope once and acknowledges it always.
NewRow(e, what) == IF e \in delivered THEN tasks[e] ELSE Append(tasks[e], what)

Accept(what) ==
    /\ tasks' = [tasks EXCEPT ![child.env] = NewRow(child.env, what)]
    /\ delivered' = delivered \cup {child.env}

Packet == IF child.at = "notify" THEN "notice" ELSE "task"

Send ==
    /\ child.at \in {"send", "notify"}
    /\ Accept(Packet)
    /\ Goto("acked")
    /\ UNCHANGED <<spool, counted, claimedBy, base, written, denied, worldVars, faults>>

\* The adapter accepted, and no acknowledgement came within 15 seconds.
AckLost ==
    /\ child.at \in {"send", "notify"} /\ Fault("ackloss")
    /\ Accept(Packet)
    /\ End
    /\ UNCHANGED <<spool, counted, claimedBy, base, written, denied, worldVars>>

\* The source is completed, the watermark advanced, the marker finished.
Complete ==
    /\ child.at = "acked"
    /\ Finish
    /\ UNCHANGED <<counted, claimedBy, base, delivered, tasks, written, denied, worldVars, faults>>

\* Any other failure: attention or its watermark fails, a file cannot be
\* written, the adapter is not there.  A native delivery puts the marker back
\* when its signer, its relay or the policy check fails; every other way out
\* leaves it inflight.
Die ==
    /\ child.at # "idle" /\ Fault("abort")
    /\ IF child.at = "policy" /\ ~Wrapped(child.env) THEN Requeue
       ELSE End /\ UNCHANGED spool
    /\ UNCHANGED <<counted, claimedBy, base, delivered, tasks, written, denied, worldVars>>

-----------------------------------------------------------------------------
(* What stops and starts around it *)

\* The adapter restarts and rebuilds its Set from its queue.
Rebuilt == {e \in Envelope : tasks[e] # <<>>}
AdapterRestart ==
    /\ Fault("adapter")
    /\ delivered' = Rebuilt
    /\ UNCHANGED <<spool, child, counted, claimedBy, base, tasks, written, denied, worldVars>>

\* An hour passes since what was counted.
HourPasses ==
    /\ counted # {} /\ Fault("hour")
    /\ counted' = {}
    /\ UNCHANGED <<spool, child, claimedBy, base, delivered, tasks, written, denied, worldVars>>

\* recover(): at its boot the daemon makes inflight markers pending.
\* Mutant: it boots without.
NotRecovered == spool
Recovered == [e \in Envelope |-> IF "inflight" \in spool[e]
                                 THEN (spool[e] \ {"inflight"}) \cup {"pending"}
                                 ELSE spool[e]]

\* Grants are given and withdrawn; a withdrawal leaves a carried event with its
\* carrier's grant or with none.
GrantChanges(e) ==
    /\ Fault("grant")
    /\ \E g \in {"none", "task"} \cup IF Kind[e] = "carry" THEN {"relay"} ELSE {} :
         g # grant[e] /\ grant' = [grant EXCEPT ![e] = g]
    /\ UNCHANGED <<deliveryVars, aged>>

\* Four hours pass since the message was written.
Age(e) ==
    /\ Wrapped(e) /\ e \notin aged /\ Fault("age")
    /\ aged' = aged \cup {e}
    /\ UNCHANGED <<deliveryVars, grant>>

-----------------------------------------------------------------------------
(* Properties *)

\* A finished marker whose source nobody turned down was handed to the agent,
\* or another envelope of its source was or still will be
\* (instance-broker.mjs:78-79).
Unfinished(e) == spool[e] \cap {"pending", "inflight"} # {}
Twins(e) == {f \in Envelope : Source[f] = Source[e]}
MailNotLost ==
    \A e \in Envelope :
        "done" \in spool[e] /\ Twins(e) \cap denied = {} =>
            \E f \in Twins(e) : "task" \in {tasks[f][i] : i \in DOMAIN tasks[f]} \/ Unfinished(f)
=============================================================================
