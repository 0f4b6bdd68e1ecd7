----------------------------- MODULE DesktopTurn -----------------------------
(***************************************************************************)
(* Admitted envelopes delivered into a Codex thread that a person uses too  *)
(* (codex-app-server-adapter.mjs over codex_app_server.mjs): one call per   *)
(* envelope reads the thread for an earlier delivery, steers the active     *)
(* turn or starts one, and waits for the answer to that receipt.  Requests  *)
(* may be lost, answered to nobody, or carried out after the caller left.   *)
(***************************************************************************)
EXTENDS Naturals, Sequences, FiniteSets

CONSTANTS
  Envelopes, \* admitted envelopes
  Tasks,     \* those that are tasks, the rest are notifications
  Owner,     \* the person at the desk
  MaxSaid,   \* bound on what the owner says
  MaxBreaks  \* bound on lost requests and crashes

VARIABLES
  spawned, \* the transport: an app-server of the adapter's own, or the desk's
  turns,   \* the thread: turns of items, each a user's or an answer
  active,  \* the turn under way, 0 for none
  queue,   \* envelopes admitted, in order
  settled, \* what the journals say of each: "none", "baseline", "delivered"
  reply,   \* the reply queued for each: whose message it answers, and how it was found
  call,    \* the call under way
  left,    \* requests whose caller is gone, which may still be carried out
  late,    \* envelopes such a request delivered after a new call had read the thread
  said, breaks

turnVars == <<spawned, turns, active, queue, settled, reply, call, left, late, said, breaks>>
thread == <<turns, active, said>>

NoReply == [to |-> Owner, how |-> "none"]
Idle == [pc |-> "idle", env |-> Owner, turn |-> 0, got |-> NoReply, fits |-> TRUE]

DeskInit ==
  /\ spawned \in BOOLEAN /\ turns = <<>> /\ active = 0 /\ queue = <<>>
  /\ settled = [e \in Envelopes |-> "none"] /\ reply = [e \in Envelopes |-> NoReply]
  /\ call = Idle /\ left = {} /\ late = {} /\ said = 0 /\ breaks = 0

-----------------------------------------------------------------------------
\* The thread.

Says(who) == [by |-> "user", of |-> who, fits |-> TRUE]

\* A message opens a turn when none is under way, and joins it otherwise.
Opened(who) ==
  /\ turns' = Append(turns, [status |-> "inProgress", items |-> <<Says(who)>>])
  /\ active' = Len(turns) + 1
Joined(who, t) == turns' = [turns EXCEPT ![t].items = Append(@, Says(who))] /\ UNCHANGED active

OwnerSays ==
  /\ said < MaxSaid /\ said' = said + 1
  /\ IF active = 0 THEN Opened(Owner) ELSE Joined(Owner, active)
  /\ UNCHANGED <<spawned, queue, settled, reply, call, left, late, breaks>>

\* The agent answers the last message of its turn; an answer may be longer
\* than a reply can carry.
Answer(fits) ==
  /\ active > 0
  /\ LET items == turns[active].items
         asked == items[Len(items)]
     IN asked.by = "user" /\ turns' = [turns EXCEPT ![active].items =
                               Append(@, [by |-> "agent", of |-> asked.of, fits |-> fits])]
  /\ UNCHANGED <<spawned, active, queue, settled, reply, call, left, late, said, breaks>>

\* A turn ends after an answer; or it is interrupted, and the record of it may
\* go on saying that it is in progress.
TurnEnds(status) ==
  /\ active > 0 /\ active' = 0 /\ turns' = [turns EXCEPT ![active].status = status]
  /\ IF status = "completed" THEN turns[active].items[Len(turns[active].items)].by = "agent" /\ UNCHANGED breaks
     ELSE breaks < MaxBreaks /\ breaks' = breaks + 1
  /\ UNCHANGED <<spawned, queue, settled, reply, call, left, late, said>>

-----------------------------------------------------------------------------
\* What a call reads in the thread.

Items(t) == DOMAIN turns[t].items
Carries(t, e) == \E i \in Items(t) : turns[t].items[i] = Says(e)
Prior(e) == {t \in DOMAIN turns : Carries(t, e)}
First(S) == CHOOSE x \in S : \A y \in S : x <= y

\* Mutant of AfterReceipt: the first answer of the turn, whoever it answers.
AnyOfTurn(t, e) == {i \in Items(t) : turns[t].items[i].by = "agent"}

\* The answers after the one message that carries the receipt and before the
\* next message; none when several messages carry it.
AfterReceipt(t, e) ==
  {i \in Items(t) : /\ turns[t].items[i].by = "agent"
                    /\ Cardinality({u \in Items(t) : turns[t].items[u] = Says(e)}) = 1
                    /\ \E u \in Items(t) : /\ u < i /\ turns[t].items[u] = Says(e)
                                           /\ \A m \in (u + 1)..i : turns[t].items[m].by = "agent"}
Found(t, i, how) == [to |-> turns[t].items[i].of, how |-> how]

-----------------------------------------------------------------------------
\* The adapter: one envelope at a time, in the queue's order.

Pending == {i \in DOMAIN queue : settled[queue[i]] = "none"}

Admit(e) ==
  /\ \A i \in DOMAIN queue : queue[i] # e
  /\ queue' = Append(queue, e) /\ UNCHANGED <<spawned, settled, reply, call, left, late, breaks, thread>>

\* The operator's baseline: what the queue holds is history.
Baseline ==
  /\ call = Idle /\ Pending # {} /\ \A e \in Envelopes : settled[e] # "baseline"
  /\ settled' = [e \in Envelopes |-> IF \E i \in Pending : queue[i] = e THEN "baseline" ELSE settled[e]]
  /\ UNCHANGED <<spawned, queue, reply, call, left, late, breaks, thread>>

\* A drain takes the first pending envelope and connects.
Take ==
  /\ call = Idle /\ Pending # {}
  /\ call' = [Idle EXCEPT !.pc = "read", !.env = queue[First(Pending)]]
  /\ UNCHANGED <<spawned, queue, settled, reply, left, late, breaks, thread>>

Current == call.env
WaitsFor(e) == e \in Tasks /\ ~spawned

\* The answer found; one that does not fit fails the drain.
Has(t, i, how) == call' = [call EXCEPT !.pc = "reply", !.got = Found(t, i, how), !.fits = turns[t].items[i].fits]
Poll(t) == call' = [call EXCEPT !.pc = "poll", !.turn = t]
Fail == call' = Idle

Deduped(e) == Prior(e) # {}

\* The thread is read: an earlier delivery is recovered, waited for or given
\* up; without one the active turn is steered, or one is started.
Read ==
  /\ call.pc = "read"
  /\ IF Deduped(Current)
     THEN LET t == First(Prior(Current)) IN
          CASE WaitsFor(Current) /\ AfterReceipt(t, Current) # {} -> Has(t, First(AfterReceipt(t, Current)), "recovered")
            [] WaitsFor(Current) /\ AfterReceipt(t, Current) = {} /\ turns[t].status = "inProgress" -> Poll(t)
            [] WaitsFor(Current) /\ AfterReceipt(t, Current) = {} /\ turns[t].status # "inProgress" -> Fail
            [] ~WaitsFor(Current) -> call' = [call EXCEPT !.pc = "mark"]
     ELSE IF ~spawned /\ active > 0 THEN call' = [call EXCEPT !.pc = "steer", !.turn = active]
     ELSE call' = [call EXCEPT !.pc = "resume"]
  /\ left' = {[r EXCEPT !.stale = TRUE] : r \in left}
  /\ UNCHANGED <<spawned, queue, settled, reply, late, breaks, thread>>

\* The steered turn is read again until the receipt has its answer.
Reread ==
  /\ call.pc = "poll"
  /\ LET t == call.turn IN
     IF AfterReceipt(t, Current) # {} THEN Has(t, First(AfterReceipt(t, Current)), "recovered")
     ELSE turns[t].status # "inProgress" /\ Fail
  /\ UNCHANGED <<spawned, queue, settled, reply, left, late, breaks, thread>>

\* Steering names the turn it expects and changes nothing when another is
\* under way; it is then repeated once, for that one.
Steered ==
  /\ active = call.turn /\ Joined(Current, active) /\ UNCHANGED said
  /\ call' = [call EXCEPT !.pc = IF WaitsFor(Current) THEN "poll" ELSE "mark"]
Missed(next) == active # call.turn /\ UNCHANGED thread /\ next

Steer ==
  /\ call.pc = "steer"
  /\ Steered \/ Missed(IF active > 0 THEN call' = [call EXCEPT !.pc = "resteer", !.turn = active] ELSE Fail)
  /\ UNCHANGED <<spawned, queue, settled, reply, left, late, breaks>>

Resteer ==
  /\ call.pc = "resteer" /\ (Steered \/ Missed(Fail))
  /\ UNCHANGED <<spawned, queue, settled, reply, left, late, breaks>>

Resume ==
  /\ call.pc = "resume" /\ call' = [call EXCEPT !.pc = "start"]
  /\ UNCHANGED <<spawned, queue, settled, reply, left, late, breaks, thread>>

\* A turn is started, unless the owner's began meanwhile.
Start ==
  /\ call.pc = "start"
  /\ IF active = 0
     THEN /\ Opened(Current) /\ UNCHANGED said
          /\ call' = [call EXCEPT !.pc = IF WaitsFor(Current) THEN "hear" ELSE "mark", !.turn = Len(turns) + 1]
     ELSE Fail /\ UNCHANGED thread
  /\ UNCHANGED <<spawned, queue, settled, reply, left, late, breaks>>

\* In a turn of its own the call takes the first answer it hears.
Hear ==
  /\ call.pc = "hear"
  /\ LET heard == {i \in Items(call.turn) : turns[call.turn].items[i].by = "agent"} IN
     IF heard # {} THEN Has(call.turn, First(heard), "heard")
     ELSE turns[call.turn].status = "interrupted" /\ Fail
  /\ UNCHANGED <<spawned, queue, settled, reply, left, late, breaks, thread>>

\* Mutant of QueueReply: a reply already queued is an error.
QueueReplyOnce ==
  /\ call.pc = "reply"
  /\ IF ~call.fits \/ reply[Current] # NoReply THEN Fail /\ UNCHANGED reply
     ELSE call' = [call EXCEPT !.pc = "mark"] /\ reply' = [reply EXCEPT ![Current] = call.got]
  /\ UNCHANGED <<spawned, queue, settled, left, late, breaks, thread>>

\* The reply is queued once for a receipt, and then the delivery is recorded.
QueueReply ==
  /\ call.pc = "reply"
  /\ IF ~call.fits THEN Fail /\ UNCHANGED reply
     ELSE /\ call' = [call EXCEPT !.pc = "mark"]
          /\ reply' = IF reply[Current] # NoReply THEN reply ELSE [reply EXCEPT ![Current] = call.got]
  /\ UNCHANGED <<spawned, queue, settled, left, late, breaks, thread>>

Mark ==
  /\ call.pc = "mark" /\ settled' = [settled EXCEPT ![Current] = "delivered"] /\ call' = Idle
  /\ UNCHANGED <<spawned, queue, reply, left, late, breaks, thread>>

-----------------------------------------------------------------------------
\* Faults.

Sending == call.pc \in {"steer", "resteer", "start"}

\* A wait for the agent times out.
Timeout ==
  /\ call.pc \in {"hear", "poll"} /\ Fail
  /\ UNCHANGED <<spawned, queue, settled, reply, left, late, breaks, thread>>

\* The connection breaks, the acknowledgement times out, or the adapter dies.
Break ==
  /\ call # Idle /\ breaks < MaxBreaks /\ breaks' = breaks + 1 /\ Fail
  /\ left' = IF Sending THEN left \cup {[env |-> Current, turn |-> call.turn, op |-> call.pc, stale |-> FALSE]} ELSE left
  /\ UNCHANGED <<spawned, queue, settled, reply, late, thread>>

\* A request nobody waits for is carried out all the same.
CarriedOut(r) ==
  /\ r \in left /\ left' = left \ {r}
  /\ IF r.op = "start" THEN active = 0 /\ Opened(r.env) ELSE active = r.turn /\ Joined(r.env, r.turn)
  /\ late' = IF r.stale THEN late \cup {r.env} ELSE late
  /\ UNCHANGED <<spawned, queue, settled, reply, call, said, breaks>>

Adapter == Take \/ Read \/ Reread \/ Steer \/ Resteer \/ Resume \/ Start \/ Hear \/ QueueReply \/ Mark

DeskNext ==
  \/ OwnerSays \/ \E f \in BOOLEAN : Answer(f)
  \/ \E s \in {"completed", "interrupted", "inProgress"} : TurnEnds(s)
  \/ \E e \in Envelopes : Admit(e)
  \/ Baseline \/ Adapter \/ Timeout \/ Break
  \/ \E r \in left : CarriedOut(r)

\* The adapter's timer goes on, and the agent works on the turn it is in.
Agent == (\E f \in BOOLEAN : Answer(f)) \/ TurnEnds("completed")
Fairness == WF_turnVars(Adapter) /\ WF_turnVars(Agent)
DeskSpec == DeskInit /\ [][DeskNext]_turnVars /\ Fairness

-----------------------------------------------------------------------------
(* An answer read back from the thread is the answer to the receipt it is
   queued for: a later exchange of the owner never becomes the reply
   (finalAgentTextAfterReceipt). *)
RecoveredIsToReceipt == \A e \in Envelopes : reply[e].how = "recovered" => reply[e].to = e

\* Where the thread holds an envelope.
Places(e) == {p \in (DOMAIN turns) \X (1..(2 * (MaxSaid + MaxBreaks + Cardinality(Envelopes)))) :
                p[2] \in Items(p[1]) /\ turns[p[1]].items[p[2]] = Says(e)}

(* Every admitted envelope is settled in the end, unless some task's turn
   ended without an answer or with one that no reply can carry: that task is
   retried for ever, and those behind it wait. *)
Stuck(e) ==
  \/ \E t \in Prior(e) : turns[t].status # "completed" /\ t # active
  \/ \E p \in Places(e) : \A i \in AfterReceipt(p[1], e) : ~turns[p[1]].items[i].fits
EverySettled ==
  \A e \in Envelopes : (\E i \in DOMAIN queue : queue[i] = e) ~>
    (settled[e] # "none" \/ \E s \in Tasks : Stuck(s))

=============================================================================
