------------------------------ MODULE WakeWatch ------------------------------
(***************************************************************************)
(* The three programs that wait for mail to one identity, in mcp/tools:    *)
(*   keyed    wake-watcher.mjs opens the outer seal with the agent's key,   *)
(*            folds the grants it is sent and queues a wake;                *)
(*   keyless  keyless-wake-watcher.mjs sees only the outer p-tag and leaves *)
(*            a marker per envelope for the broker;                         *)
(*   buzz     buzz-wake-watcher.mjs logs in to a community relay and leaves *)
(*            a marker per mention, in its channels and in owners' DMs.     *)
(* One behaviour follows one of them (variable ear).  Sockets drop or go    *)
(* silent, subscriptions are replayed, marker writes fail, the process is   *)
(* killed and restarted.                                                    *)
(*                                                                         *)
(* Time is relative.  Only the buzz ear depends on it: one tick is its      *)
(* replay overlap, and ages saturate.  The 48 hour look-back of the other   *)
(* two exceeds every behaviour modelled, so they are replayed everything.   *)
(***************************************************************************)
EXTENDS Naturals, Sequences, FiniteSets, SequencesExt

CONSTANTS
  Events,      \* envelopes or channel messages addressed to the identity
  InDM,        \* those a buzz owner sends in a DM channel opened meanwhile
  Relays,      \* the relays; the buzz ear uses one of them
  Policies,    \* what each relay may store of the sender's grant
  Ears,        \* the programs a behaviour may follow
  FaultyEars,  \* those whose marker writes may fail
  HeldCap,     \* arrivals the keyed ear holds until policy is settled
  RefreshAge,  \* ticks between refreshes of the buzz subscription
  MaxTroubles  \* bound: lost sockets, failed writes and kills together

ASSUME EarsAreKnown ==
  /\ Ears \subseteq {"keyed", "keyless", "buzz"} /\ FaultyEars \subseteq Ears
  /\ Policies \subseteq [Relays -> SUBSET {"grant", "end"}]
  /\ InDM \subseteq Events /\ Relays # {} /\ IsFiniteSet(Relays)
  /\ {HeldCap, RefreshAge} \subseteq Nat
  /\ MaxTroubles \in [Ears -> Nat]

VARIABLES
  ear,       \* the program this behaviour follows
  onRelay,   \* the events each relay stores
  policy,    \* what each relay stores of the sender's grant: "grant", "end"
  up,        \* the process runs
  link,      \* each socket: "down", "login", "open", "eose" or "half" open
  sent,      \* events a subscription has delivered or was not asked for
  seen, log, \* the seen set, and the seen log that survives a restart
  markers,   \* events whose .pending marker was written
  basing,    \* relays still answering the keyless ear's baseline pass
  archived,  \* events that pass archived
  keyed,     \* the keyed ear's policy, buffer and wake state
  buzz,      \* the buzz ear's clock, watermark and DM list
  troubles   \* lost sockets, failed writes and kills so far

net == <<onRelay, policy, link, sent>>
disk == <<log, markers, archived>>
watchVars == <<ear, net, up, seen, disk, basing, keyed, buzz, troubles>>

\* What a fresh keyed process knows; wrong, excused, covered are history.
FreshKeyed(k) ==
  [saw |-> {}, done |-> 0, ready |-> FALSE, held |-> <<>>, pending |-> {},
   cooling |-> FALSE, queued |-> k.queued, covered |-> k.covered,
   wrong |-> k.wrong, excused |-> k.excused]

\* beyond: events stamped before the watermark minus the overlap.
FreshBuzz == [age |-> [e \in Events |-> 0], beyond |-> {}, sub |-> 0,
              opened |-> FALSE, dms |-> FALSE]

WatchInit ==
  /\ ear \in Ears
  /\ onRelay = [r \in Relays |-> {}]
  /\ policy \in IF ear = "keyed" THEN Policies ELSE {[r \in Relays |-> {}]}
  /\ up = FALSE /\ link = [r \in Relays |-> "down"]
  /\ sent = [r \in Relays |-> {}]
  /\ seen = {} /\ log = {} /\ markers = {} /\ archived = {} /\ basing = {}
  /\ keyed = FreshKeyed([queued |-> FALSE, covered |-> {}, wrong |-> FALSE, excused |-> FALSE])
  /\ buzz = FreshBuzz
  /\ troubles = 0

Posted == UNION {onRelay[r] : r \in Relays}
LiveSocket(r) == up /\ link[r] \in {"open", "eose"}
MyRelays == IF ear = "buzz" THEN {CHOOSE r \in Relays : TRUE} ELSE Relays

EarTrouble == troubles < MaxTroubles[ear] /\ troubles' = troubles + 1

-----------------------------------------------------------------------------
\* The world: a sender publishes to some relays; an owner opens a DM first.

Post(e) ==
  /\ e \notin Posted
  /\ e \in InDM /\ ear = "buzz" => buzz.opened
  /\ \E R \in SUBSET MyRelays \ {{}} :
       onRelay' = [r \in Relays |-> IF r \in R THEN onRelay[r] \cup {e} ELSE onRelay[r]]
  /\ UNCHANGED <<ear, policy, link, sent, up, seen, disk, basing, keyed, buzz, troubles>>

OpenDM ==
  /\ ear = "buzz" /\ InDM # {} /\ ~buzz.opened
  /\ buzz' = [buzz EXCEPT !.opened = TRUE]
  /\ UNCHANGED <<ear, net, up, seen, disk, basing, keyed, troubles>>

\* A tick passes for the buzz ear only once its live socket is quiet: what a
\* relay has to deliver, an end of stored events or a refresh that is due
\* take less than a tick.
Quiet(r) == LiveSocket(r) => /\ link[r] = "eose" /\ Posted \subseteq sent[r]
                       /\ buzz.dms = buzz.opened /\ buzz.sub < RefreshAge

\* caughtUp: the heartbeat of a caught-up session moves the watermark, and
\* events older than the overlap will not be asked for again.
CaughtUp(b) == [b EXCEPT !.beyond = @ \cup {e \in Posted : b.age[e] > 1}]

EarTick ==
  /\ ear = "buzz" /\ \A r \in MyRelays : Quiet(r) /\ link[r] # "half"
  /\ LET older == [buzz EXCEPT !.age = [e \in Events |-> IF e \in Posted /\ @[e] < 2 THEN @[e] + 1 ELSE @[e]],
                               !.sub = IF @ < RefreshAge THEN @ + 1 ELSE @]
     IN  buzz' = IF \E r \in MyRelays : LiveSocket(r) THEN CaughtUp(older) ELSE older
  /\ UNCHANGED <<ear, net, up, seen, disk, basing, keyed, troubles>>

-----------------------------------------------------------------------------
\* The process and its sockets.

\* The first start of a keyless ear may archive what the relays already hold.
StartEar ==
  /\ ~up /\ up' = TRUE
  /\ seen' = log
  /\ basing' \in IF ear = "keyless" /\ log = {} /\ markers = {} THEN {{}, Relays} ELSE {{}}
  /\ keyed' = FreshKeyed(keyed)
  /\ buzz' = [buzz EXCEPT !.dms = FALSE, !.sub = 0]
  /\ UNCHANGED <<ear, net, disk, troubles>>

\* A kill, or the baseline pass timing out on a relay that never answers.
StopEar ==
  /\ up /\ EarTrouble /\ up' = FALSE /\ link' = [r \in Relays |-> "down"]
  /\ UNCHANGED <<ear, onRelay, policy, sent, seen, disk, basing, keyed, buzz>>

\* What a subscription made now will not be sent: for the buzz ear, events
\* before the watermark minus the overlap, and DM channels it does not follow.
NotAsked(b) == IF ear = "buzz" THEN b.beyond \cup (IF b.dms THEN {} ELSE InDM) ELSE {}

\* The stored membership notices are replayed before the message subscription
\* is made, so it names every DM opened by then.
Asking(b) == [b EXCEPT !.dms = b.opened, !.sub = 0]

\* REQ on a fresh socket.  The buzz relay answers nothing before AUTH, whose
\* one signature comes from the broker's oracle.
OpenSocket(r) ==
  /\ up /\ r \in MyRelays
  /\ link[r] = IF ear = "buzz" THEN "login" ELSE "down"
  /\ link' = [link EXCEPT ![r] = "open"]
  /\ buzz' = Asking(buzz)
  /\ sent' = [sent EXCEPT ![r] = NotAsked(buzz')]
  /\ UNCHANGED <<ear, onRelay, policy, up, seen, disk, basing, keyed, troubles>>

Login(r) ==
  /\ up /\ ear = "buzz" /\ r \in MyRelays /\ link[r] = "down"
  /\ link' = [link EXCEPT ![r] = "login"]
  /\ UNCHANGED <<ear, onRelay, policy, sent, up, seen, disk, basing, keyed, buzz, troubles>>

\* The socket closes, or stays open and carries nothing.  A keyed ear that
\* reopens before policy settled counts the relay's EOSE a second time.
LoseSocket(r) ==
  /\ link[r] \in {"login", "open", "eose"} /\ EarTrouble
  /\ \E s \in {"down", "half"} : link' = [link EXCEPT ![r] = s]
  /\ keyed' = [keyed EXCEPT !.excused = @ \/ ~keyed.ready]
  /\ UNCHANGED <<ear, onRelay, policy, sent, up, seen, disk, basing, buzz>>

\* An unanswered ping, the watchdog on a silent socket.
NoPong(r) ==
  /\ link[r] = "half" /\ link' = [link EXCEPT ![r] = "down"]
  /\ UNCHANGED <<ear, onRelay, policy, sent, up, seen, disk, basing, keyed, buzz, troubles>>

\* The periodic recycle: the keyless ear reconnects, the buzz ear asks again
\* on the same login, from its watermark minus the overlap.
Refresh(r) ==
  /\ LiveSocket(r) /\ onRelay[r] \subseteq sent[r] /\ basing = {}
  /\ \/ /\ ear = "keyless" /\ sent[r] \ seen # {}
        /\ link' = [link EXCEPT ![r] = "down"] /\ UNCHANGED <<sent, buzz>>
     \/ /\ ear = "buzz" /\ link[r] = "eose" /\ buzz.sub = RefreshAge
        /\ link' = [link EXCEPT ![r] = "open"]
        /\ buzz' = Asking(buzz)
        /\ sent' = [sent EXCEPT ![r] = NotAsked(buzz')]
  /\ UNCHANGED <<ear, onRelay, policy, up, seen, disk, basing, keyed, troubles>>

\* The buzz ear hears that a DM was opened and subscribes to it as well.
Follow(r) ==
  /\ ear = "buzz" /\ LiveSocket(r) /\ buzz.opened /\ ~buzz.dms
  /\ buzz' = Asking(buzz)
  /\ sent' = [sent EXCEPT ![r] = NotAsked(buzz')]
  /\ link' = [link EXCEPT ![r] = "open"]
  /\ UNCHANGED <<ear, onRelay, policy, up, seen, disk, basing, keyed, troubles>>

-----------------------------------------------------------------------------
\* Hearing an event.

\* The grant fold over everything received: an end on any relay ends it.
Permits(saw) == "grant" \in saw /\ "end" \notin saw
InUnion == Permits(UNION {policy[r] : r \in Relays})

\* evaluateWrap over a sequence of arrivals: the first sight of each is
\* judged by the fold as it stands, and a permitted one is to wake someone.
Evaluate(k, es) ==
  LET fresh == ToSet(es) \ seen
  IN  [k EXCEPT !.pending = @ \cup (IF Permits(k.saw) THEN fresh ELSE {}),
                !.wrong = @ \/ (fresh # {} /\ Permits(k.saw) # InUnion)]

\* drainGlobal: policy counts as settled; what was held is evaluated.
Drain(k) == [Evaluate(k, k.held) EXCEPT !.ready = TRUE, !.held = <<>>]
MarkSeen(es) ==
  /\ seen' = seen \cup ToSet(es)
  /\ log' = log \cup ToSet(es)

\* A wrap for the keyed ear.  The arrival that finds the buffer full settles
\* policy and is itself neither held nor evaluated.
KeyedHear(e) ==
  /\ CASE keyed.ready -> keyed' = Evaluate(keyed, <<e>>) /\ MarkSeen(<<e>>)
       [] Len(keyed.held) < HeldCap /\ ~keyed.ready ->
            /\ keyed' = [keyed EXCEPT !.held = Append(@, e)]
            /\ UNCHANGED <<seen, log>>
       [] OTHER -> /\ keyed' = [Drain(keyed) EXCEPT !.excused = TRUE]
                   /\ MarkSeen(keyed.held)
  /\ UNCHANGED <<markers, archived, troubles>>

\* Mutant of Record: a write that fails after the event was noted as seen.
RecordSeenFirst(e) ==
  \/ /\ markers' = markers \cup {e}
     /\ seen' = seen \cup {e} /\ log' = log \cup {e} /\ UNCHANGED troubles
  \/ /\ e \notin markers /\ ear \in FaultyEars /\ EarTrouble
     /\ seen' = seen \cup {e} /\ log' = log \cup {e} /\ UNCHANGED markers

\* record: the marker is written before the seen log, so that a failure
\* leaves the event unseen; an existing marker counts as written.
Record(e) ==
  \/ /\ markers' = markers \cup {e}
     /\ seen' = seen \cup {e} /\ log' = log \cup {e} /\ UNCHANGED troubles
  \/ /\ e \notin markers /\ ear \in FaultyEars /\ EarTrouble
     /\ UNCHANGED <<markers, seen, log>>
  \/ /\ EarTrouble
     /\ markers' = markers \cup {e} /\ seen' = seen \cup {e} /\ UNCHANGED log

KeylessHear(r, e) ==
  /\ CASE e \in seen -> UNCHANGED <<seen, log, markers, archived, troubles>>
       [] e \notin seen /\ r \in basing ->
            /\ archived' = archived \cup {e}
            /\ seen' = seen \cup {e} /\ log' = log \cup {e}
            /\ UNCHANGED <<markers, troubles>>
       [] OTHER -> Record(e) /\ UNCHANGED archived
  /\ UNCHANGED keyed

BuzzHear(e) ==
  /\ \/ e \in seen /\ UNCHANGED <<seen, log, markers, troubles>>
     \/ e \notin seen /\ Record(e)
  /\ UNCHANGED <<archived, keyed>>

Hear(r, e) ==
  /\ LiveSocket(r) /\ e \in onRelay[r] \ sent[r]
  /\ sent' = [sent EXCEPT ![r] = @ \cup {e}]
  /\ \/ ear = "keyed" /\ KeyedHear(e)
     \/ ear = "keyless" /\ KeylessHear(r, e)
     \/ ear = "buzz" /\ BuzzHear(e)
  /\ UNCHANGED <<ear, onRelay, policy, link, up, basing, buzz>>

\* A kind 440 or 441 the keyed ear did not know: the fold is redone.
HearPolicy(r) ==
  /\ ear = "keyed" /\ LiveSocket(r)
  /\ \E p \in policy[r] \ keyed.saw : keyed' = [keyed EXCEPT !.saw = @ \cup {p}]
  /\ UNCHANGED <<ear, net, up, seen, disk, basing, buzz, troubles>>

\* Mutant of Settled: the first report settles a channel of several relays.
SettledByFirst(k) == k.done >= 1
Settled(k) == k.done >= Cardinality(Relays)

\* End of stored events.  The keyed ear counts relays that reported policy;
\* the keyless one ends its baseline pass; the buzz one is caught up.
EndOfStored(r) ==
  /\ LiveSocket(r) /\ link[r] = "open" /\ link' = [link EXCEPT ![r] = "eose"]
  /\ \/ /\ ear = "keyed" /\ policy[r] \subseteq keyed.saw
        /\ LET k == [keyed EXCEPT !.done = @ + 1]
               settled == ~k.ready /\ Settled(k)
           IN  IF settled THEN keyed' = Drain(k) /\ MarkSeen(k.held)
                          ELSE keyed' = k /\ UNCHANGED <<seen, log>>
        /\ UNCHANGED <<basing, buzz>>
     \/ /\ ear = "keyless" /\ onRelay[r] \subseteq sent[r]
        /\ basing' = basing \ {r} /\ UNCHANGED <<seen, log, keyed, buzz>>
     \/ /\ ear = "buzz" /\ onRelay[r] \subseteq sent[r]
        /\ buzz' = CaughtUp(buzz) /\ UNCHANGED <<seen, log, basing, keyed>>
  /\ UNCHANGED <<ear, onRelay, policy, sent, up, markers, archived, troubles>>

-----------------------------------------------------------------------------
\* The keyed ear's wake.

\* Ten seconds after a connection policy counts as settled in any case.
Grace ==
  /\ ear = "keyed" /\ up /\ ~keyed.ready /\ \E r \in Relays : link[r] # "down"
  /\ keyed' = [Drain(keyed) EXCEPT !.excused = TRUE] /\ MarkSeen(keyed.held)
  /\ UNCHANGED <<ear, net, up, markers, archived, basing, buzz, troubles>>

\* The settled burst becomes one queue entry, or, while the cooldown of the
\* last one runs, nothing: then only an entry not yet drained still covers it.
Wake ==
  /\ ear = "keyed" /\ up /\ keyed.pending # {}
  /\ keyed' = [keyed EXCEPT !.pending = {}, !.cooling = TRUE,
                            !.queued = ~keyed.cooling \/ keyed.queued,
                            !.covered = IF ~keyed.cooling \/ keyed.queued
                                          THEN @ \cup keyed.pending ELSE @]
  /\ UNCHANGED <<ear, net, up, seen, disk, basing, buzz, troubles>>

CooldownEnds ==
  /\ keyed.cooling /\ keyed' = [keyed EXCEPT !.cooling = FALSE]
  /\ UNCHANGED <<ear, net, up, seen, disk, basing, buzz, troubles>>

\* Whatever can act drains the queue and reads the mail.
DrainQueue ==
  /\ keyed.queued /\ keyed' = [keyed EXCEPT !.queued = FALSE]
  /\ UNCHANGED <<ear, net, up, seen, disk, basing, buzz, troubles>>

-----------------------------------------------------------------------------
World == OpenDM \/ \E e \in Events : Post(e)
Socket(r) == OpenSocket(r) \/ Login(r) \/ NoPong(r) \/ Refresh(r) \/ Follow(r)
Hearing(r) == HearPolicy(r) \/ EndOfStored(r) \/ \E e \in Events : Hear(r, e)
Waking == Grace \/ Wake \/ CooldownEnds \/ DrainQueue

WatchNext ==
  \/ World \/ EarTick \/ StartEar \/ StopEar \/ Waking
  \/ \E r \in Relays : Socket(r) \/ LoseSocket(r) \/ Hearing(r)

\* The supervisor restarts the process, sockets reconnect, a live relay sends
\* what it stores, timers fire.
WatchFairness ==
  /\ WF_watchVars(StartEar) /\ WF_watchVars(EarTick) /\ WF_watchVars(Wake) /\ WF_watchVars(CooldownEnds)
  /\ \A r \in Relays :
       /\ WF_watchVars(Socket(r)) /\ WF_watchVars(HearPolicy(r)) /\ WF_watchVars(EndOfStored(r))
       /\ \A e \in Events : WF_watchVars(Hear(r, e))

WatchSpec == WatchInit /\ [][WatchNext]_watchVars /\ WatchFairness

-----------------------------------------------------------------------------
\* The arrivals the keyed ear held are judged against the union of what the
\* relays hold of the grant, never one relay's part of it, unless the grace
\* period ran out, the buffer filled or a socket was lost before it settled
\* (policyReady, notePolicyRelay).
PolicyIsUnion == ~keyed.wrong \/ keyed.excused

\* An envelope on a relay is eventually marked for the broker, unless the
\* baseline pass archived it, whatever sockets, restarts or writes fail (the
\* marker before the seen log, replay on every subscription).
EveryArrivalMarked ==
  ear # "keyed" => \A e \in Events : e \in Posted ~> e \in markers \cup archived

\* A granted arrival the watcher noticed is answered by a queue entry made
\* after it or not drained yet (nudge and wake in queue mode).
GrantedNeverMissed ==
  \A e \in Events : e \in keyed.pending ~> e \in keyed.covered
=============================================================================
