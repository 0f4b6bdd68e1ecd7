------------------------- MODULE ScopeSubscription -------------------------
(***************************************************************************)
(* nvoy_scope_subscribe of app.ts for one scope: sessions arm interval     *)
(* timers that poll the raw scope event and, when its id changed, drop the *)
(* entry of the process-wide ScopeCache and notify their session.  Reads   *)
(* go through the same cache.  Handlers and timer callbacks interleave at  *)
(* their awaits, and a timer fires again while its last tick still waits.  *)
(*                                                                         *)
(* Versions are numbered in the order of publication; 0 stands for none.   *)
(* The agent's grant stays active throughout (its loss is AgentGrants').   *)
(***************************************************************************)
EXTENDS Naturals

CONSTANTS
  Sessions,   \* MCP sessions, each with its own pollers map
  Readers,    \* slots for concurrent scope reads
  Subs,       \* slots for concurrent nvoy_scope_subscribe calls
  Timers,     \* interval timers that can be created
  Ticks,      \* slots for timer callbacks in flight
  Nobody,     \* no timer, or no session
  MaxPubs,    \* bound on publications
  Flaky       \* whether a poll's query may fail or find nothing

ASSUME PollsAssumption == MaxPubs \in Nat \ {0} /\ Flaky \in BOOLEAN
ASSUME NobodyAssumption == Nobody \notin Timers \cup Sessions

VARIABLES
  latest,     \* the version on the relay
  entry,      \* ScopeCache.entries for the scope
  reads,      \* reads in flight
  subs,       \* subscribe calls in flight
  timers,     \* setInterval timers: "new", "armed", "cleared"
  ticks,      \* timer callbacks in flight
  pollers,    \* pollers[s]: the timer in session s's map
  open,       \* sessions not closed yet
  heard,      \* heard[s]: newest version session s was notified of
  detected    \* history: newest version any poll has invalidated for

subVars == <<latest, entry, reads, subs, timers, ticks, pollers, open, heard,
          detected>>
---------------------------------------------------------------------------
Vers0 == 0..MaxPubs

\* A cache entry; began and put are what had been detected when its fetch
\* began and when it was put into the cache.
Entry   == [n : Vers0, old : BOOLEAN, began : Vers0, put : Vers0]
NoEntry == [n |-> 0, old |-> FALSE, began |-> 0, put |-> 0]

Read     == [pc : {"idle", "fetching", "fetched", "got"}, n : Vers0, began : Vers0]
IdleRead == [pc |-> "idle", n |-> 0, began |-> 0]

Sub      == [pc : {"idle", "baseline"}, s : Sessions \cup {Nobody}]
IdleSub  == [pc |-> "idle", s |-> Nobody]
Timer    == [st : {"new", "armed", "cleared"}, s : Sessions \cup {Nobody},
             last : Vers0]
NewTimer == [st |-> "new", s |-> Nobody, last |-> 0]

Tick     == [pc : {"idle", "asking", "answered", "notifying"},
             t : Timers \cup {Nobody}, n : Vers0]
IdleTick == [pc |-> "idle", t |-> Nobody, n |-> 0]

Greater(a, b) == IF a >= b THEN a ELSE b

\* What a poll's scopeEvent may come back with; 0 for nothing or a failure.
PollAnswers == {latest} \cup (IF Flaky THEN {0} ELSE {})

SubInit ==
  /\ latest  = 1
  /\ entry   = NoEntry
  /\ reads   = [r \in Readers |-> IdleRead]
  /\ subs    = [c \in Subs |-> IdleSub]
  /\ timers  = [t \in Timers |-> NewTimer]
  /\ ticks   = [k \in Ticks |-> IdleTick]
  /\ pollers = [s \in Sessions |-> Nobody]
  /\ open    = Sessions
  /\ heard   = [s \in Sessions |-> 0]
  /\ detected = 0
---------------------------------------------------------------------------
(* The publisher and the cache's clock.                                    *)

Publish ==
  /\ latest < MaxPubs
  /\ latest' = latest + 1
  /\ UNCHANGED <<entry, reads, subs, timers, ticks, pollers, open, heard, detected>>

\* An entry outlives its TTL.
Expire ==
  /\ entry.n > 0 /\ ~entry.old
  /\ entry' = [entry EXCEPT !.old = TRUE]
  /\ UNCHANGED <<latest, reads, subs, timers, ticks, pollers, open, heard, detected>>

\* ScopeCache.sweep.
Sweep ==
  /\ entry.n > 0 /\ entry.old
  /\ entry' = NoEntry
  /\ UNCHANGED <<latest, reads, subs, timers, ticks, pollers, open, heard, detected>>
---------------------------------------------------------------------------
(* ScopeCache.read.                                                        *)

Hit(r) ==
  /\ reads[r].pc = "idle" /\ entry.n > 0 /\ ~entry.old
  /\ reads' = [reads EXCEPT ![r] = [pc |-> "got", n |-> entry.n, began |-> detected]]
  /\ UNCHANGED <<latest, entry, subs, timers, ticks, pollers, open, heard, detected>>

\* A miss, an entry past its TTL, or max_age: 0.
Fetch(r) ==
  /\ reads[r].pc = "idle"
  /\ reads' = [reads EXCEPT ![r] = [pc |-> "fetching", n |-> 0, began |-> detected]]
  /\ UNCHANGED <<latest, entry, subs, timers, ticks, pollers, open, heard, detected>>

\* The relay's answer, before the event loop resumes the read.
FetchAnswered(r) ==
  /\ reads[r].pc = "fetching"
  /\ reads' = [reads EXCEPT ![r].pc = "fetched", ![r].n = latest]
  /\ UNCHANGED <<latest, entry, subs, timers, ticks, pollers, open, heard, detected>>

\* The read resumes: it installs what it fetched, whatever happened since.
Install(r) ==
  /\ reads[r].pc = "fetched"
  /\ entry' = [n |-> reads[r].n, old |-> FALSE, began |-> reads[r].began,
               put |-> detected]
  /\ reads' = [reads EXCEPT ![r].pc = "got"]
  /\ UNCHANGED <<latest, subs, timers, ticks, pollers, open, heard, detected>>

Answer(r) ==
  /\ reads[r].pc = "got"
  /\ reads' = [reads EXCEPT ![r] = IdleRead]
  /\ UNCHANGED <<latest, entry, subs, timers, ticks, pollers, open, heard, detected>>
---------------------------------------------------------------------------
(* nvoy_scope_subscribe.                                                   *)

\* Up to the baseline query.  A session with a poller is answered at once
\* (already_subscribed) and nothing changes.
Subscribe(c, s) ==
  /\ subs[c].pc = "idle" /\ s \in open /\ pollers[s] = Nobody
  /\ subs' = [subs EXCEPT ![c] = [pc |-> "baseline", s |-> s]]
  /\ UNCHANGED <<latest, entry, reads, timers, ticks, pollers, open, heard, detected>>

\* The baseline is there, or its query failed: arm the timer and enter it
\* into the map, over whatever the map holds by now.
Arm(c, t) ==
  LET s == subs[c].s IN
  /\ subs[c].pc = "baseline" /\ timers[t].st = "new"
  /\ \E n \in PollAnswers :
       /\ timers' = [timers EXCEPT ![t] = [st |-> "armed", s |-> s, last |-> n]]
       /\ heard'  = [heard EXCEPT ![s] = Greater(@, n)]
  /\ pollers' = [pollers EXCEPT ![s] = t]
  /\ subs'    = [subs EXCEPT ![c] = IdleSub]
  /\ UNCHANGED <<latest, entry, reads, ticks, open, detected>>

\* dropSession: cleanup clears the timers in the map, and those only.
Close(s) ==
  /\ s \in open
  /\ open' = open \ {s}
  /\ timers' = [t \in Timers |-> IF t = pollers[s]
                                 THEN [timers[t] EXCEPT !.st = "cleared"]
                                 ELSE timers[t]]
  /\ pollers' = [pollers EXCEPT ![s] = Nobody]
  /\ UNCHANGED <<latest, entry, reads, subs, ticks, heard, detected>>
---------------------------------------------------------------------------
(* A tick of the interval.                                                 *)

Fire(k, t) ==
  /\ ticks[k].pc = "idle" /\ timers[t].st = "armed"
  /\ ticks' = [ticks EXCEPT ![k] = [pc |-> "asking", t |-> t, n |-> 0]]
  /\ UNCHANGED <<latest, entry, reads, subs, timers, pollers, open, heard, detected>>

TickAnswered(k) ==
  /\ ticks[k].pc = "asking"
  /\ \E n \in PollAnswers :
       ticks' = [ticks EXCEPT ![k].pc = "answered", ![k].n = n]
  /\ UNCHANGED <<latest, entry, reads, subs, timers, pollers, open, heard, detected>>

\* Nothing there, or the id the timer already knows.
TickUnchanged(k) ==
  /\ ticks[k].pc = "answered"
  /\ ticks[k].n \in {0, timers[ticks[k].t].last}
  /\ ticks' = [ticks EXCEPT ![k] = IdleTick]
  /\ UNCHANGED <<latest, entry, reads, subs, timers, pollers, open, heard, detected>>
\* Mutant of TickChanged: the change is not told.
TickTellsNobody(k) ==
  LET t == ticks[k].t  n == ticks[k].n IN
  /\ ticks[k].pc = "answered" /\ n \notin {0, timers[t].last}
  /\ timers'   = [timers EXCEPT ![t].last = n]
  /\ entry'    = NoEntry
  /\ detected' = Greater(detected, n)
  /\ ticks'    = [ticks EXCEPT ![k] = IdleTick]
  /\ UNCHANGED <<latest, reads, subs, pollers, open, heard>>

\* A new id: remember it, invalidate the cache, go on to notify.
TickChanged(k) ==
  LET t == ticks[k].t  n == ticks[k].n IN
  /\ ticks[k].pc = "answered" /\ n \notin {0, timers[t].last}
  /\ timers'   = [timers EXCEPT ![t].last = n]
  /\ entry'    = NoEntry
  /\ detected' = Greater(detected, n)
  /\ ticks'    = [ticks EXCEPT ![k].pc = "notifying"]
  /\ UNCHANGED <<latest, reads, subs, pollers, open, heard>>

\* sendResourceUpdated; to a closed session it fails, and that is swallowed.
Notify(k) ==
  LET s == timers[ticks[k].t].s IN
  /\ ticks[k].pc = "notifying"
  /\ heard' = IF s \in open THEN [heard EXCEPT ![s] = Greater(@, ticks[k].n)]
              ELSE heard
  /\ ticks' = [ticks EXCEPT ![k] = IdleTick]
  /\ UNCHANGED <<latest, entry, reads, subs, timers, pollers, open, detected>>
---------------------------------------------------------------------------
ReadStep(r) == Hit(r) \/ Fetch(r) \/ FetchAnswered(r) \/ Install(r) \/ Answer(r)
TickStep(k) == TickAnswered(k) \/ TickUnchanged(k) \/ TickChanged(k) \/ Notify(k)

SubNext ==
  \/ Publish \/ Expire \/ Sweep
  \/ \E r \in Readers : ReadStep(r)
  \/ \E c \in Subs, s \in Sessions : Subscribe(c, s)
  \/ \E c \in Subs, t \in Timers : Arm(c, t)
  \/ \E s \in Sessions : Close(s)
  \/ \E k \in Ticks, t \in Timers : Fire(k, t)
  \/ \E k \in Ticks : TickStep(k)

SubSpec == SubInit /\ [][SubNext]_subVars

\* The event loop resumes every handler, intervals keep firing while they are
\* armed, entries age, and a relay that keeps being asked answers.
Fairness ==
  /\ WF_subVars(Expire) /\ WF_subVars(Sweep)
  /\ \A k \in Ticks : WF_subVars(TickStep(k))
  /\ \A k \in Ticks, t \in Timers : SF_subVars(Fire(k, t))
  /\ \A k \in Ticks :
       SF_subVars(TickAnswered(k) /\ ticks'[k].n = latest)

SubFairSpec == SubSpec /\ Fairness
---------------------------------------------------------------------------
\* A subscribed session that stays open is told of every last change.
SubscriberTold ==
  \A s \in Sessions :
    pollers[s] # Nobody /\ heard[s] < latest ~> heard[s] = latest \/ s \notin open

=============================================================================
