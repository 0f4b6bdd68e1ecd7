------------------------------- MODULE Viewer -------------------------------
(***************************************************************************)
(* The read-only viewer of the hive memory (memory-viewer.mjs): polls that   *)
(* a timer starts whether or not the last has ended, over one socket client  *)
(* they share; what a poll makes of the daemon's answers; the state it shows *)
(* to browsers and the log of what changed between two states.  Beside it,   *)
(* the daemon as the viewer meets it: one answer at a time, in order.        *)
(***************************************************************************)
EXTENDS Naturals, Sequences, FiniteSets

CONSTANTS
  Polls,      \* polls that may be under way at once (they are not serialised)
  Page,       \* records a query page holds
  MaxWrites,  \* bound on the claims written
  MaxFaults   \* bound on stops of the daemon, timeouts and purges

VARIABLES
  hive,     \* the daemon: up, its rows in order, which are in force, its ring
  sock,     \* the client's socket: "none", "connecting", "greeting", "ready", "mute"
  oldClose, \* the close event of a socket given up is still to come
  waiting,  \* the polls that await the connection, in order
  asked,    \* requests on the wire, [id, what, from]
  answers,  \* answers on the wire
  poll,     \* each poll
  shown,    \* currentState
  logged,   \* the agents' acts the event log was told of
  watch,    \* the health check's status file: "open" or "off"
  faults

wireVars == <<sock, oldClose, waiting, asked, answers>>
viewVars == <<shown, logged>>
viewerVars == <<hive, wireVars, poll, viewVars, watch, faults>>

Writes == 1 .. MaxWrites
Idle == [pc |-> "idle", what |-> "wake", id |-> 0, from |-> 0, seq |-> 0, ring |-> <<>>, got |-> {}]

Init ==
  /\ hive = [up |-> TRUE, rows |-> <<>>, force |-> {}, seq |-> 0, ring |-> <<>>]
  /\ sock = "none" /\ oldClose = FALSE /\ waiting = <<>> /\ asked = <<>> /\ answers = <<>>
  /\ poll = [p \in Polls |-> Idle]
  /\ shown = [polled |-> FALSE, ok |-> FALSE, seq |-> 0, claims |-> {}, ring |-> <<>>, watch |-> "none"]
  /\ logged = {} /\ watch = "open" /\ faults = 0

IdsOf(s) == {s[i].id : i \in 1 .. Len(s)}
Fault == faults < MaxFaults /\ faults' = faults + 1

Contains(s, x) == \E i \in 1 .. Len(s) : s[i] = x

\* A number no request or answer bears (nextId only grows).
Used == IdsOf(asked) \cup IdsOf(answers) \cup {poll[p].id : p \in Polls}
FreshId == CHOOSE n \in 1 .. Cardinality(Used) + 1 : n \notin Used

-----------------------------------------------------------------------------
\* The state shown.

\* What the log is told of: the agents' acts numbered past the last state's,
\* or every one when the daemon's count has started again.
News(prev, next) ==
  LET from == IF Len(next.ring) < Len(prev.ring) THEN 0 ELSE Len(prev.ring)
  IN IF prev.polled THEN {next.ring[i] : i \in from + 1 .. Len(next.ring)} ELSE {}

Show(next) ==
  /\ shown' = next
  /\ logged' = logged \cup News(shown, next)

AfterFailure == [shown EXCEPT !.polled = TRUE, !.ok = FALSE, !.watch = watch]

\* The polls ps fail, and each shows the last state again, disconnected.
Fail(ps) ==
  IF ps = {} THEN UNCHANGED <<poll, viewVars>>
  ELSE poll' = [p \in Polls |-> IF p \in ps THEN Idle ELSE poll[p]] /\ Show(AfterFailure)

-----------------------------------------------------------------------------
\* The socket client.

Pending == {p \in Polls : poll[p].pc = "asked"}
Waiting == {waiting[i] : i \in 1 .. Len(waiting)}

\* A call of one read tool: on the open connection, or after the connection
\* that is being made, which it starts when there is none.
Call(p, q) ==
  IF sock = "ready"
    THEN /\ poll' = [poll EXCEPT ![p] = [q EXCEPT !.pc = "asked", !.id = FreshId]]
         /\ asked' = Append(asked, [id |-> FreshId, what |-> q.what, from |-> q.from])
         /\ UNCHANGED <<sock, oldClose, waiting>>
    ELSE /\ poll' = [poll EXCEPT ![p] = [q EXCEPT !.pc = "waits", !.id = 0]]
         /\ waiting' = Append(waiting, p)
         /\ sock' = (IF sock \in {"none", "mute"} THEN "connecting" ELSE sock)
         /\ oldClose' = (oldClose \/ sock = "mute")
         /\ UNCHANGED asked

\* Mutant of Forget: the promise of a failed connection is kept, and every
\* later call awaits it.
ForgetNever == sock' = "kept"

Forget == sock' = "none"

\* The daemon does not take the connection.
Refused ==
  /\ sock = "connecting" /\ ~hive.up
  /\ Forget /\ waiting' = <<>> /\ Fail(Waiting)
  /\ UNCHANGED <<hive, oldClose, asked, answers, watch, faults>>

Connected ==
  /\ sock = "connecting" /\ hive.up /\ sock' = "greeting"
  /\ UNCHANGED <<hive, oldClose, waiting, asked, answers, poll, viewVars, watch, faults>>

\* The daemon's answer to initialize: every poll that waited asks, in order.
Greeted ==
  /\ sock = "greeting" /\ hive.up /\ ~oldClose /\ sock' = "ready" /\ waiting' = <<>>
  /\ poll' = [p \in Polls |-> IF Contains(waiting, p)
                THEN [poll[p] EXCEPT !.pc = "asked", !.id = CHOOSE i \in 1 .. Len(waiting) : waiting[i] = p]
                ELSE poll[p]]
  /\ asked' = [i \in 1 .. Len(waiting) |->
                 [id |-> i, what |-> poll[waiting[i]].what, from |-> poll[waiting[i]].from]]
  /\ answers' = <<>>
  /\ UNCHANGED <<hive, oldClose, viewVars, watch, faults>>

\* No answer to initialize within five seconds: the socket stays, unusable.
GreetTimeout ==
  /\ sock = "greeting" /\ Fault /\ sock' = "mute" /\ waiting' = <<>> /\ Fail(Waiting)
  /\ UNCHANGED <<hive, oldClose, asked, answers, watch>>

\* A socket's close event rejects every request, whichever socket it was
\* sent on, and gives up the present one.
GiveUp ==
  /\ asked' = <<>> /\ answers' = <<>>
  /\ IF sock = "connecting"
       THEN Fail(Pending) /\ UNCHANGED <<sock, waiting>>
       ELSE Fail(Pending \cup Waiting) /\ Forget /\ waiting' = <<>>

\* The event comes within the same turn of the event loop; the socket it
\* gives up closes before the timer fires again.
OldClose ==
  /\ oldClose /\ oldClose' = FALSE /\ GiveUp
  /\ UNCHANGED <<hive, watch, faults>>

\* The daemon stops, or starts again with its rows and an empty ring.
Stop ==
  /\ hive.up /\ Fault /\ hive' = [hive EXCEPT !.up = FALSE]
  /\ IF sock \in {"none", "connecting"}
       THEN UNCHANGED <<sock, waiting, asked, answers, poll, viewVars>>
       ELSE GiveUp
  /\ UNCHANGED <<oldClose, watch>>

Start ==
  /\ ~hive.up /\ hive' = [hive EXCEPT !.up = TRUE, !.ring = <<>>]
  /\ UNCHANGED <<wireVars, poll, viewVars, watch, faults>>

\* No answer to one request within five seconds; a late one finds no request.
Timeout(p) ==
  /\ poll[p].pc = "asked" /\ Fault /\ Fail({p})
  /\ UNCHANGED <<hive, wireVars, watch>>

-----------------------------------------------------------------------------
\* The daemon, one message at a time.

Serve ==
  /\ hive.up /\ asked # <<>> /\ asked' = Tail(asked)
  /\ LET q == Head(asked)
         end == IF q.from + Page < Len(hive.rows) THEN q.from + Page ELSE Len(hive.rows)
     IN answers' = Append(answers,
          [id |-> q.id, seq |-> hive.seq, ring |-> hive.ring,
           got |-> {hive.rows[i] : i \in q.from + 1 .. end} \cap hive.force,
           next |-> IF end < Len(hive.rows) THEN end ELSE 0])
  /\ UNCHANGED <<hive, sock, oldClose, waiting, poll, viewVars, watch, faults>>

\* An agent writes a claim: first in the order, and one more act in the ring.
Write ==
  /\ hive.up /\ hive.seq < MaxWrites
  /\ hive' = [hive EXCEPT !.seq = @ + 1, !.rows = <<hive.seq + 1>> \o @,
                          !.force = @ \cup {hive.seq + 1}, !.ring = Append(@, hive.seq + 1)]
  /\ UNCHANGED <<wireVars, poll, viewVars, watch, faults>>

\* A claim lapses: its row goes behind those in force.
Lapse(w) ==
  /\ w \in hive.force /\ Fault
  /\ hive' = [hive EXCEPT !.force = @ \ {w},
                          !.rows = Append(SelectSeq(@, LAMBDA x : x # w), w)]
  /\ UNCHANGED <<wireVars, poll, viewVars, watch>>

\* Retention drops a row that is no longer in force.
Purge(w) ==
  /\ hive.up /\ Fault /\ w \notin hive.force /\ Contains(hive.rows, w)
  /\ hive' = [hive EXCEPT !.rows = SelectSeq(@, LAMBDA x : x # w)]
  /\ UNCHANGED <<wireVars, poll, viewVars, watch>>

\* The health check finds that saving is off, or on again.
Report(s) ==
  /\ s # watch /\ watch' = s /\ Fault
  /\ UNCHANGED <<hive, wireVars, poll, viewVars>>

-----------------------------------------------------------------------------
\* A poll: the wake, then the query page by page, then the state it makes.

Begin(p) ==
  /\ poll[p].pc = "idle" /\ Call(p, Idle)
  /\ UNCHANGED <<hive, answers, viewVars, watch, faults>>

\* The poll's own state after an answer: the wake's first, then every page's.
Taken(q, a) ==
  IF q.what = "wake" THEN [Idle EXCEPT !.what = "page", !.seq = a.seq, !.ring = a.ring]
  ELSE [q EXCEPT !.got = @ \cup a.got, !.from = a.next]

Whole(q, a) == q.what = "page" /\ a.next = 0

Deliver ==
  /\ answers # <<>> /\ answers' = Tail(answers)
  /\ LET a == Head(answers) IN
     IF ~\E p \in Pending : poll[p].id = a.id
       THEN UNCHANGED <<sock, oldClose, waiting, asked, poll, viewVars>>
       ELSE LET p == CHOOSE x \in Pending : poll[x].id = a.id
                q == Taken(poll[p], a)
            IN IF Whole(poll[p], a)
                 THEN /\ Show([polled |-> TRUE, ok |-> TRUE, seq |-> q.seq, claims |-> q.got,
                               ring |-> q.ring, watch |-> watch])
                      /\ poll' = [poll EXCEPT ![p] = Idle]
                      /\ UNCHANGED <<sock, oldClose, waiting, asked>>
                 ELSE Call(p, q) /\ UNCHANGED viewVars
  /\ UNCHANGED <<hive, watch, faults>>

Next ==
  \/ Refused \/ Connected \/ Greeted \/ GreetTimeout \/ OldClose \/ Stop \/ Start
  \/ Serve \/ Write \/ Deliver
  \/ \E w \in Writes : Lapse(w) \/ Purge(w)
  \/ \E s \in {"open", "off"} : Report(s)
  \/ \E p \in Polls : Begin(p) \/ Timeout(p)

\* The timer goes on; the sockets and the daemon answer while it is up.
ViewerFairness ==
  /\ WF_viewerVars(\E p \in Polls : Begin(p))
  /\ WF_viewerVars(Refused \/ Connected \/ Greeted \/ OldClose \/ Serve \/ Deliver)
Spec == Init /\ [][Next]_viewerVars /\ ViewerFairness

-----------------------------------------------------------------------------
\* With the daemon up for good the page comes to show every claim in force
\* (ensureConnected, pollOnce).
ViewCatchesUp ==
  <>[](hive.up) => <>[](shown.ok /\ shown.seq = hive.seq /\ shown.claims = hive.force)

=============================================================================
