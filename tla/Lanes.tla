-------------------------------- MODULE Lanes --------------------------------
(***************************************************************************)
(* What an agent starts on its own: a post, a memory write, a profile.  The *)
(* keyless tool queues a request (agent_post.mjs, agent_memory.mjs,         *)
(* agent_profile.mjs); the broker daemon runs one keyed child per request   *)
(* (instance-broker-post, -memory, -profile), which checks it against the   *)
(* manifest and what is live now, counts it, freezes the exact event,       *)
(* signs it and sends it, and resumes from its record when it was stopped.  *)
(* A behaviour follows one lane.  The memory requests all name one fact key.*)
(***************************************************************************)
EXTENDS Naturals, Sequences, FiniteSets, SequencesExt

CONSTANTS
  Requests, \* what the agent asks for
  Nobody,   \* no request
  Cap,      \* the lane's hourly (profile: daily) cap
  Window,   \* the ticks of that hour
  MaxClock, \* bound on the clock
  MaxStops  \* bound on runs that end early and on daemon restarts

VARIABLES
  lane,     \* "post", "memory" or "profile"
  clock, right, stops,  \* clock; the mention right is live; runs cut short
  asked,    \* history: the requests in the order the tool took them
  what,     \* what each asks: a plain or granted post, claim, withdraw, set
  askedAt,  \* the tool's rate log
  queue,    \* the spool the daemon reads
  counted,  \* the broker's window: when it counted each request
  record,   \* the broker's record of each request
  prior,    \* memory: the event the frozen one replaces
  legs,     \* profile: a public relay "pending", "settled", since when
  done,     \* the daemon's memory of finished requests
  terminal, \* its durable log of refused ones, of finished profiles
  child,    \* the run under way: its step and request
  made,     \* history: events frozen for each request
  out,      \* history: what the relay or the store took, and when
  kept,     \* memory: the accepted requests, the last one current
  capped    \* history: requests a cap refused

laneVars == <<lane, clock, right, stops, asked, what, askedAt, queue, counted, record, prior,
              legs, done, terminal, child, made, out, kept, capped>>

Never == MaxClock + Window + 1
Idle == [pc |-> "idle", r |-> Nobody]
NoLegs == [state |-> "none", since |-> 0]

LaneInit ==
  /\ lane \in {"post", "memory", "profile"} /\ clock = 0 /\ right = TRUE /\ stops = 0
  /\ asked = <<>> /\ what = [r \in Requests |-> "none"]
  /\ askedAt = [r \in Requests |-> Never] /\ queue = {}
  /\ counted = [r \in Requests |-> Never] /\ record = [r \in Requests |-> "none"]
  /\ prior = [r \in Requests |-> Nobody] /\ legs = [r \in Requests |-> NoLegs]
  /\ done = {} /\ terminal = {} /\ child = Idle
  /\ made = [r \in Requests |-> 0] /\ out = {} /\ kept = <<>> /\ capped = {}

LaneOps == [post |-> {"plain", "granted"}, memory |-> {"claim", "withdraw"}, profile |-> {"set"}]

Recent(at) == at # Never /\ clock - at < Window
InWindow(log) == {r \in Requests : Recent(log[r])}
CurrentClaim == IF kept = <<>> THEN Nobody ELSE kept[Len(kept)]

ClockTicks ==
  /\ clock < MaxClock /\ clock' = clock + 1
  /\ UNCHANGED <<lane, right, stops, asked, what, askedAt, queue, counted, record, prior,
                 legs, done, terminal, child, made, out, kept, capped>>

\* The mention grant a post relies on is withdrawn.
Withdraw ==
  /\ lane = "post" /\ right /\ right' = FALSE
  /\ UNCHANGED <<lane, clock, stops, asked, what, askedAt, queue, counted, record, prior,
                 legs, done, terminal, child, made, out, kept, capped>>

\* What each tool accepts.  The cap a tool applies is that of its own log;
\* the profile tool has none.
UnderAskedCap == Cardinality(InWindow(askedAt)) < Cap
PostAccepted(op) == lane = "post" /\ (op = "granted" => right) /\ UnderAskedCap
MemoryAccepted(op) == lane = "memory" /\ UnderAskedCap
ProfileAccepted(op) == lane = "profile"

Ask(r, op) ==
  /\ what[r] = "none" /\ op \in LaneOps[lane]
  /\ PostAccepted(op) \/ MemoryAccepted(op) \/ ProfileAccepted(op)
  /\ what' = [what EXCEPT ![r] = op] /\ asked' = Append(asked, r)
  /\ queue' = queue \cup {r} /\ askedAt' = [askedAt EXCEPT ![r] = clock]
  /\ UNCHANGED <<lane, clock, right, stops, counted, record, prior, legs, done, terminal,
                 child, made, out, kept, capped>>

-----------------------------------------------------------------------------
\* The daemon: one child at a time, over a spool whose order is that of
\* random ids.

Spawn(r) ==
  /\ child = Idle /\ r \in queue \ done /\ child' = [pc |-> "check", r |-> r]
  /\ UNCHANGED <<lane, clock, right, stops, asked, what, askedAt, queue, counted, record, prior,
                 legs, done, terminal, made, out, kept, capped>>

\* The run ends early: policy, signer, store or relay does not answer, it is
\* killed at its time limit, or it crashes.  The request is held for retry.
RunStops ==
  /\ child # Idle /\ stops < MaxStops /\ stops' = stops + 1 /\ child' = Idle
  /\ UNCHANGED <<lane, clock, right, asked, what, askedAt, queue, counted, record, prior,
                 legs, done, terminal, made, out, kept, capped>>

Restart ==
  /\ stops < MaxStops /\ stops' = stops + 1 /\ child' = Idle /\ done' = terminal
  /\ UNCHANGED <<lane, clock, right, asked, what, askedAt, queue, counted, record, prior,
                 legs, terminal, made, out, kept, capped>>

At(pc) == child.pc = pc
Go(pc) == child' = [child EXCEPT !.pc = pc]
Mine == child.r

\* A refusal: terminal, and a memory request's text goes.
Refuse(rec) ==
  /\ child' = Idle /\ done' = done \cup {Mine} /\ terminal' = terminal \cup {Mine}
  /\ record' = [record EXCEPT ![Mine] = IF lane = "memory" THEN rec ELSE @]
  /\ queue' = IF lane = "memory" THEN queue \ {Mine} ELSE queue

\* A post that mentions by a grant or a room needs that right on every
\* attempt, a retry of the signed event included.
MentionRefused == what[Mine] = "granted" /\ ~right

\* The store's answer to the lookup: nothing to withdraw.
NothingToWithdraw ==
  /\ what[Mine] = "withdraw" /\ record[Mine] = "none"
  /\ CurrentClaim = Nobody \/ what[CurrentClaim] = "withdraw"

\* Where a run takes up the record it finds.
Resume == CASE record[Mine] = "none" -> "count"
            [] record[Mine] = "frozen" -> "sign"
            [] record[Mine] = "signed" -> "send"
            [] record[Mine] = "sent" -> "legs"
            [] OTHER -> "exit"

\* The check, and for a memory write the lookup of what it would replace.
Check ==
  /\ At("check")
  /\ IF MentionRefused \/ NothingToWithdraw \/ record[Mine] = "refused"
       THEN Refuse(record[Mine]) /\ UNCHANGED prior
       ELSE /\ Go(Resume)
            /\ prior' = IF record[Mine] = "none" THEN [prior EXCEPT ![Mine] = CurrentClaim] ELSE prior
            /\ UNCHANGED <<done, terminal, record, queue>>
  /\ UNCHANGED <<lane, clock, right, stops, asked, what, askedAt, counted, legs, made, out,
                 kept, capped>>

\* countInWindow: counted once, and never refused by its own earlier entry.
Count ==
  /\ At("count")
  /\ IF Recent(counted[Mine]) \/ Cardinality(InWindow(counted)) < Cap
       THEN /\ counted' = IF Recent(counted[Mine]) THEN counted ELSE [counted EXCEPT ![Mine] = clock]
            /\ Go("freeze") /\ UNCHANGED <<done, terminal, record, queue, capped>>
       ELSE Refuse("none") /\ capped' = capped \cup {Mine} /\ UNCHANGED counted
  /\ UNCHANGED <<lane, clock, right, stops, asked, what, askedAt, prior, legs, made, out, kept>>

\* Mutant of Freeze: the record is written only once the event was sent.
FreezeUnsaved ==
  /\ At("freeze") /\ Go("send") /\ made' = [made EXCEPT ![Mine] = @ + 1]
  /\ UNCHANGED <<lane, clock, right, stops, asked, what, askedAt, queue, counted, record, prior,
                 legs, done, terminal, out, kept, capped>>

\* The exact event, persisted before the signer sees it.
Freeze ==
  /\ At("freeze") /\ Go("sign") /\ made' = [made EXCEPT ![Mine] = @ + 1]
  /\ record' = [record EXCEPT ![Mine] = "frozen"]
  /\ UNCHANGED <<lane, clock, right, stops, asked, what, askedAt, queue, counted, prior,
                 legs, done, terminal, out, kept, capped>>

Sign ==
  /\ At("sign") /\ Go("send") /\ record' = [record EXCEPT ![Mine] = "signed"]
  /\ UNCHANGED <<lane, clock, right, stops, asked, what, askedAt, queue, counted, prior,
                 legs, done, terminal, made, out, kept, capped>>

Took == out' = out \cup {[r |-> Mine, n |-> made[Mine], at |-> clock]}

\* The store takes an event it has for a replay, and any other only over the
\* prior it names.
PriorMoved == lane = "memory" /\ Mine \notin ToSet(kept) /\ prior[Mine] # CurrentClaim

\* The relay or the store takes the event; its answer may be lost (RunStops
\* before the next step).
Send ==
  /\ At("send")
  /\ IF PriorMoved
       THEN Refuse("refused") /\ UNCHANGED <<out, kept>>
       ELSE /\ Go("settle")
            /\ IF \E e \in out : e.r = Mine /\ e.n = made[Mine]
                 THEN UNCHANGED <<out, kept>>
                 ELSE /\ Took
                      /\ kept' = IF lane = "memory" THEN Append(kept, Mine) ELSE kept
            /\ UNCHANGED <<done, terminal, record, queue>>
  /\ UNCHANGED <<lane, clock, right, stops, asked, what, askedAt, counted, prior, legs, made, capped>>

\* The answer: a post or a memory write is published, the latter's text
\* scrubbed from its record; a profile goes on to the public relays.
Settle ==
  /\ At("settle")
  /\ IF lane = "profile"
       THEN /\ Go("legs") /\ record' = [record EXCEPT ![Mine] = "sent"]
            /\ legs' = [legs EXCEPT ![Mine] = [state |-> "pending", since |-> clock]]
       ELSE Go("exit") /\ record' = [record EXCEPT ![Mine] = "published"] /\ UNCHANGED legs
  /\ UNCHANGED <<lane, clock, right, stops, asked, what, askedAt, queue, counted, prior, done,
                 terminal, made, out, kept, capped>>

\* A public relay answers, or does not: then the request is tried again
\* later, until its day is over.
Legs ==
  /\ At("legs")
  /\ \E answered \in BOOLEAN :
       IF answered \/ legs[Mine].state = "settled" \/ clock - legs[Mine].since >= Window
         THEN Go("exit") /\ legs' = [legs EXCEPT ![Mine].state = "settled"]
         ELSE child' = Idle /\ UNCHANGED legs
  /\ UNCHANGED <<lane, clock, right, stops, asked, what, askedAt, queue, counted, record, prior,
                 done, terminal, made, out, kept, capped>>

\* Exit status 0: the daemon counts it done; a profile's result is written, a
\* memory request unlinked.
Exit ==
  /\ At("exit") /\ child' = Idle /\ done' = done \cup {Mine}
  /\ terminal' = IF lane = "profile" THEN terminal \cup {Mine} ELSE terminal
  /\ queue' = IF lane = "memory" THEN queue \ {Mine} ELSE queue
  /\ UNCHANGED <<lane, clock, right, stops, asked, what, askedAt, counted, record, prior,
                 legs, made, out, kept, capped>>

-----------------------------------------------------------------------------
Run == Check \/ Count \/ Freeze \/ Sign \/ Send \/ Settle \/ Legs \/ Exit

LaneNext == \/ ClockTicks \/ Withdraw \/ RunStops \/ Restart \/ Run
        \/ \E r \in Requests : Spawn(r) \/ \E op \in LaneOps[lane] : Ask(r, op)

\* The daemon's timer goes over every request; a run goes on until it ends;
\* the clock moves.
LaneFairness ==
  /\ WF_laneVars(ClockTicks) /\ WF_laneVars(Run)
  /\ \A r \in Requests : SF_laneVars(Spawn(r))

LaneSpec == LaneInit /\ [][LaneNext]_laneVars /\ LaneFairness

-----------------------------------------------------------------------------
\* A crash never buys a second event: whatever is retried is the event that
\* was frozen first (the record of instance-broker-post.mjs).
OneEventPerRequest == \A e, f \in out : e.r = f.r => e.n = f.n

=============================================================================
