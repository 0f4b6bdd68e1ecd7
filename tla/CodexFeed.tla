------------------------------ MODULE CodexFeed ------------------------------
(***************************************************************************)
(* The portable Codex harness (codex_portable_harness.mjs): a supervisor    *)
(* beside `codex app-server` takes envelopes from a wake feed on the fleet  *)
(* (codex-channel-feed.mjs) and injects each into one thread, as a turn or  *)
(* queued behind the turn that runs.  A person may use the thread as well.  *)
(* The channel tools are an ssh into a container that each release          *)
(* recreates; the supervisor probes them and restarts the app-server when   *)
(* they are dead.  The app-server's messages arrive in the order it sends   *)
(* them (codex_ws_peer.mjs), as long as it lives.                           *)
(***************************************************************************)
EXTENDS Naturals, Sequences, FiniteSets, SequencesExt

CONSTANTS
  Envelopes,   \* what the broker admits
  Nothing,     \* no envelope, no turn, no cursor
  Start,       \* the cursor of a client baselined on an empty queue
  Person,      \* a turn a person starts
  MaxFaults,   \* bound on deaths of feed, container, app-server, supervisor
  MaxPersons   \* bound on turns a person starts

VARIABLES
  queue,       \* the fleet's admitted queue
  feed,        \* the feed: its link and how far it has read
  chan,        \* the channel tools answer
  disk,        \* the supervisor's files: cursor, delivered
  sup,         \* the supervisor's memory
  srv,         \* the app-server: its thread's turn and queue, messages sent
  askable,     \* this Codex knows mcpServer/tool/call
  faults, persons,
  injected,    \* history: how often the thread was given each envelope
  doubtful,    \* history: envelopes injected, and cut off before being recorded
  passed       \* history: envelopes a baseline or a lost place skipped

feedVars == <<queue, feed, chan, disk, sup, srv, askable, faults, persons,
              injected, doubtful, passed>>
history == <<injected, doubtful, passed>>

Down == [pc |-> "down", pending |-> <<>>, recheck |-> FALSE, greeted |-> FALSE,
         re |-> FALSE, busy |-> FALSE, down |-> FALSE, ended |-> {}]
NoServer == [up |-> FALSE, turn |-> Nothing, queue |-> <<>>, owes |-> Nothing, wire |-> <<>>]

Init ==
  /\ queue = <<>> /\ feed = [link |-> "none", at |-> 0] /\ chan = TRUE
  /\ disk = [cursor |-> Nothing, delivered |-> {}]
  /\ sup = Down /\ srv = NoServer /\ askable \in BOOLEAN
  /\ faults = 0 /\ persons = 0
  /\ injected = [e \in Envelopes |-> 0] /\ doubtful = {} /\ passed = {}

Running == sup.pc # "down"
Fault == faults < MaxFaults /\ faults' = faults + 1

\* The broker admits an envelope.
Admit(e) ==
  /\ e \notin ToSet(queue) /\ queue' = Append(queue, e)
  /\ UNCHANGED <<feed, chan, disk, sup, srv, askable, faults, persons, history>>

-----------------------------------------------------------------------------
\* The wake feed.

Newest(s) == IF s = <<>> THEN Start ELSE s[Len(s)]
Offered(s, rows) ==
  [s EXCEPT !.pending = @ \o SelectSeq(rows, LAMBDA e : e \notin ToSet(s.pending))]


\* The place of the saved cursor in the queue; none on a first start.
Place == CASE disk.cursor = Nothing -> Len(queue)
           [] disk.cursor = Start -> 0
           [] OTHER -> CHOOSE i \in 1 .. Len(queue) : queue[i] = disk.cursor

\* The feed takes the consumer lock, places the cursor, says hello and sends
\* the rows after it.  A first hello baselines; a later one asks for a probe.
Connect ==
  /\ Running /\ feed.link = "none"
  /\ feed' = [link |-> "live", at |-> Len(queue)]
  /\ disk' = IF disk.cursor = Nothing THEN [disk EXCEPT !.cursor = Newest(queue)] ELSE disk
  /\ passed' = IF disk.cursor = Nothing THEN ToSet(queue) ELSE passed
  /\ sup' = [Offered(sup, SubSeq(queue, Place + 1, Len(queue)))
               EXCEPT !.recheck = @ \/ sup.greeted, !.greeted = TRUE]
  /\ UNCHANGED <<queue, chan, srv, askable, faults, persons, injected, doubtful>>

\* The complete lines appended since the feed last read.
Unread == SubSeq(queue, feed.at + 1, Len(queue))

Poll ==
  /\ feed.link = "live" /\ feed.at < Len(queue) /\ Running
  /\ sup' = Offered(sup, Unread)
  /\ feed' = [feed EXCEPT !.at = Len(queue)]
  /\ UNCHANGED <<queue, chan, disk, srv, askable, faults, persons, history>>

\* The link fails.  A feed that has not noticed still holds the lock.
Unlink ==
  /\ feed.link = "live" /\ Fault
  /\ \E l \in {"none", "orphan"} : feed' = [feed EXCEPT !.link = l]
  /\ UNCHANGED <<queue, chan, disk, sup, srv, askable, persons, history>>

\* No client keepalive: the feed exits and frees its lock.
Expire ==
  /\ feed.link = "orphan" /\ feed' = [feed EXCEPT !.link = "none"]
  /\ UNCHANGED <<queue, chan, disk, sup, srv, askable, faults, persons, history>>

\* The container is recreated: feed and channel end with it.
Recreate ==
  /\ Fault /\ chan' = FALSE /\ feed' = [feed EXCEPT !.link = "none"]
  /\ UNCHANGED <<queue, disk, sup, srv, askable, persons, history>>

-----------------------------------------------------------------------------
\* The app-server.  Its notifications and its answer to turn/start share the
\* connection, in either order.

Say(s, m) == [s EXCEPT !.wire = Append(@, m)]

PersonStarts ==
  /\ srv.up /\ srv.turn = Nothing /\ srv.queue = <<>> /\ persons < MaxPersons
  /\ persons' = persons + 1 /\ srv' = Say([srv EXCEPT !.turn = Person], <<"started", Person>>)
  /\ UNCHANGED <<queue, feed, chan, disk, sup, askable, faults, history>>

TurnEnds ==
  /\ srv.turn # Nothing
  /\ srv' = Say([srv EXCEPT !.turn = Nothing], <<"completed", srv.turn>>)
  /\ UNCHANGED <<queue, feed, chan, disk, sup, askable, faults, persons, history>>

QueuedStarts ==
  /\ srv.turn = Nothing /\ srv.queue # <<>>
  /\ srv' = Say([srv EXCEPT !.turn = Head(srv.queue), !.queue = Tail(@)], <<"started", Head(srv.queue)>>)
  /\ UNCHANGED <<queue, feed, chan, disk, sup, askable, faults, persons, history>>

Answer ==
  /\ srv.owes # Nothing
  /\ srv' = Say([srv EXCEPT !.owes = Nothing], <<"answer", srv.owes>>)
  /\ UNCHANGED <<queue, feed, chan, disk, sup, askable, faults, persons, history>>

\* The envelope injected but not recorded when the connection ends.
UnderWay == IF sup.pc \in {"turn", "mark"} THEN {Head(sup.pending)} ELSE {}

\* The app-server exits; its queued submissions and messages go with it.
ServerDies ==
  /\ srv.up /\ Fault /\ srv' = NoServer
  /\ sup' = IF Running THEN [sup EXCEPT !.pc = "off"] ELSE sup
  /\ doubtful' = doubtful \cup UnderWay
  /\ UNCHANGED <<queue, feed, chan, disk, askable, persons, injected, passed>>

\* Start or restart, after any app-server an earlier run left was stopped.
\* The thread is resumed and its channel probed before anything is injected.
ServerStarts ==
  /\ sup.pc = "off" /\ srv' = [NoServer EXCEPT !.up = TRUE] /\ chan' = TRUE
  /\ sup' = [sup EXCEPT !.pc = "loop", !.busy = FALSE, !.down = FALSE, !.ended = {}]
  /\ UNCHANGED <<queue, feed, disk, askable, faults, persons, history>>

-----------------------------------------------------------------------------
\* The supervisor.

SupStarts ==
  /\ sup.pc = "down" /\ sup' = [Down EXCEPT !.pc = "off"]
  /\ feed' = [feed EXCEPT !.link = IF @ = "live" THEN "orphan" ELSE @]
  /\ UNCHANGED <<queue, chan, disk, srv, askable, faults, persons, history>>

\* Killed outright, it leaves the detached app-server running.
SupDies ==
  /\ Running /\ Fault /\ sup' = Down /\ doubtful' = doubtful \cup UnderWay
  /\ UNCHANGED <<queue, feed, chan, disk, srv, askable, persons, injected, passed>>

\* A message of the app-server.
Hear ==
  /\ srv.up /\ srv.wire # <<>> /\ sup.pc \notin {"down", "off"}
  /\ srv' = [srv EXCEPT !.wire = Tail(@)]
  /\ LET m == Head(srv.wire)
     IN  sup' = CASE m[1] = "started" -> [sup EXCEPT !.busy = TRUE]
                  [] m[1] = "completed" -> [sup EXCEPT !.busy = FALSE, !.ended = @ \cup {m[2]}]
                  [] OTHER -> [sup EXCEPT !.pc = "mark", !.busy = m[2] \notin sup.ended]
  /\ UNCHANGED <<queue, feed, chan, disk, askable, faults, persons, history>>

Taken(e) == e \in disk.delivered

\* The head of what is pending: probe the channel, or only move the cursor
\* when it was recorded before.
Look ==
  /\ sup.pc = "loop" /\ ~sup.down /\ (sup.pending # <<>> \/ sup.recheck)
  /\ sup' = [sup EXCEPT !.recheck = FALSE, !.re = sup.recheck,
               !.pc = IF sup.recheck \/ ~Taken(Head(sup.pending)) THEN "probe" ELSE "save"]
  /\ UNCHANGED <<queue, feed, chan, disk, srv, askable, faults, persons, history>>

\* The probe answers, fails, or cannot be made: then a reconnected feed is
\* taken for a dead channel.
Probe ==
  /\ sup.pc = "probe"
  /\ LET dead == IF askable THEN ~chan ELSE sup.re
     IN  sup' = CASE dead -> [sup EXCEPT !.pc = "loop", !.down = TRUE]
                  [] ~dead /\ sup.pending = <<>> -> [sup EXCEPT !.pc = "loop"]
                  [] OTHER -> [sup EXCEPT !.pc = CASE Taken(Head(sup.pending)) -> "save"
                                                   [] sup.busy -> "queue" [] OTHER -> "ask"]
  /\ UNCHANGED <<queue, feed, chan, disk, srv, askable, faults, persons, history>>

Give(e) == injected' = [injected EXCEPT ![e] = @ + 1]

\* turn/start, accepted by an idle thread; otherwise thread/queue/add.
AskTurn ==
  /\ sup.pc = "ask" /\ srv.up
  /\ LET e == Head(sup.pending)
     IN  IF srv.turn = Nothing /\ srv.queue = <<>>
           THEN /\ srv' = Say([srv EXCEPT !.turn = e, !.owes = e], <<"started", e>>)
                /\ sup' = [sup EXCEPT !.pc = "turn"] /\ Give(e)
           ELSE sup' = [sup EXCEPT !.pc = "queue"] /\ UNCHANGED <<srv, injected>>
  /\ UNCHANGED <<queue, feed, chan, disk, askable, faults, persons, doubtful, passed>>

AskQueue ==
  /\ sup.pc = "queue" /\ srv.up
  /\ srv' = [srv EXCEPT !.queue = Append(@, Head(sup.pending))]
  /\ sup' = [sup EXCEPT !.pc = "mark"] /\ Give(Head(sup.pending))
  /\ UNCHANGED <<queue, feed, chan, disk, askable, faults, persons, doubtful, passed>>

\* markDelivered, then the cursor.
Mark ==
  /\ sup.pc = "mark" /\ sup' = [sup EXCEPT !.pc = "save"]
  /\ disk' = [disk EXCEPT !.delivered = @ \cup {Head(sup.pending)}]
  /\ UNCHANGED <<queue, feed, chan, srv, askable, faults, persons, history>>

Save ==
  /\ sup.pc = "save" /\ sup' = [sup EXCEPT !.pc = "loop", !.pending = Tail(@)]
  /\ disk' = [disk EXCEPT !.cursor = Head(sup.pending)]
  /\ UNCHANGED <<queue, feed, chan, srv, askable, faults, persons, history>>

\* A dead channel restarts the app-server once the supervisor knows of no
\* running turn.
Restart ==
  /\ sup.pc = "loop" /\ sup.down /\ ~sup.busy
  /\ sup' = [sup EXCEPT !.pc = "off"] /\ srv' = NoServer
  /\ UNCHANGED <<queue, feed, chan, disk, askable, faults, persons, history>>

-----------------------------------------------------------------------------
World == \/ PersonStarts \/ Unlink \/ Recreate \/ ServerDies \/ SupDies
         \/ \E e \in Envelopes : Admit(e)
Feed == Connect \/ Poll \/ Expire
Server == TurnEnds \/ QueuedStarts \/ Answer
Supervisor == \/ SupStarts \/ ServerStarts \/ Hear \/ Look \/ Probe \/ AskTurn
              \/ AskQueue \/ Mark \/ Save \/ Restart

Next == World \/ Feed \/ Server \/ Supervisor

\* The supervisor's loops run, turns end, a feed without a client exits.
FeedFairness ==
  /\ WF_feedVars(Connect) /\ WF_feedVars(Poll) /\ WF_feedVars(Expire)
  /\ WF_feedVars(Server) /\ WF_feedVars(Supervisor)

Spec == Init /\ [][Next]_feedVars /\ FeedFairness

-----------------------------------------------------------------------------

=============================================================================
