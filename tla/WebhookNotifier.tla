--------------------------- MODULE WebhookNotifier ---------------------------
(***************************************************************************)
(* The webhook wake of one identity (mcp/tools/admitted-webhook-notify.mjs) *)
(* whose harness holds no stream: a notifier follows the admitted queue,    *)
(* posts once per envelope, and posts again an envelope the harness has not *)
(* read in time.  Its cursor and its list of watched envelopes survive it.  *)
(*                                                                         *)
(* One loop of the notifier awaits nothing before its POST, and it saves    *)
(* what it changed before it awaits again: memory and file agree wherever   *)
(* another process can act, and both are state here.  One tick is the time  *)
(* to a re-notification; a queue somebody rewrites is not modelled.         *)
(***************************************************************************)
EXTENDS Naturals, Sequences, FiniteSets, SequencesExt

CONSTANTS
  Envelopes,    \* what the broker admits
  NoState,      \* no state file
  Empty,        \* the cursor of a queue baselined while empty
  Attempts,     \* POSTs of one round
  RenotifyMax,  \* rounds after the first
  MaxWatch,     \* length of the watch list
  MaxKills      \* bound on kills of the notifier

VARIABLES
  queue,    \* admitted-tasks.jsonl
  readLog,  \* the channel's read log
  state,    \* state.json: the cursor and the watched envelopes
  mem,      \* the notifier's process
  kills,
  rounds,   \* history: rounds of POSTs settled for each envelope
  excused   \* history: baselined, given up in the first round, or pushed out

notifierVars == <<queue, readLog, state, mem, kills, rounds, excused>>

Down == [pc |-> "down", at |-> 0, pending |-> <<>>, queued |-> {}, tries |-> 0]

Init ==
  /\ queue = <<>> /\ readLog = {} /\ kills = 0
  /\ state = [cursor |-> NoState, watch |-> <<>>] /\ mem = Down
  /\ rounds = [e \in Envelopes |-> 0] /\ excused = {}

\* The broker admits an envelope; the harness reads one when it pleases.
Admit(e) ==
  /\ e \notin ToSet(queue) /\ queue' = Append(queue, e)
  /\ UNCHANGED <<readLog, state, mem, kills, rounds, excused>>

Read(e) ==
  /\ e \in ToSet(queue) \ readLog /\ readLog' = readLog \cup {e}
  /\ UNCHANGED <<queue, state, mem, kills, rounds, excused>>

-----------------------------------------------------------------------------
First(e) == [env |-> e, again |-> FALSE]
Rows(from) == [i \in 1 .. Len(queue) - from |-> First(queue[from + i])]
NewestId == IF queue = <<>> THEN Empty ELSE Last(queue)
Place(c) == IF c = Empty THEN 0 ELSE CHOOSE i \in 1 .. Len(queue) : queue[i] = c

\* The first start baselines at the queue's end; a later one continues after
\* the cursor.  What was queued to be posted again is found again by its age.
Begin ==
  /\ mem.pc = "down"
  /\ IF state.cursor = NoState
       THEN /\ state' = [state EXCEPT !.cursor = NewestId]
            /\ excused' = excused \cup ToSet(queue)
            /\ mem' = [Down EXCEPT !.pc = "loop", !.at = Len(queue)]
       ELSE /\ mem' = [Down EXCEPT !.pc = "loop", !.at = Len(queue),
                                   !.pending = Rows(Place(state.cursor))]
            /\ UNCHANGED <<state, excused>>
  /\ UNCHANGED <<queue, readLog, kills, rounds>>

\* poll: what is read or was posted often enough leaves the watch list, what
\* is due is queued behind the new rows.
Due(w) == w.ripe /\ w.env \notin mem.queued \cup readLog
Stays(w) == w.env \notin readLog /\ (Due(w) => w.posts <= RenotifyMax)
Watched == SelectSeq(state.watch, Stays)
Again == SelectSeq(Watched, Due)
Pending == mem.pending \o Rows(mem.at)
             \o [i \in 1 .. Len(Again) |-> [env |-> Again[i].env, again |-> TRUE]]
Polled == [mem EXCEPT !.at = Len(queue), !.queued = @ \cup {w.env : w \in ToSet(Again)}]
OnList(e, ws) == \E w \in ToSet(ws) : w.env = e

\* Mutant of Taken: the cursor is saved before the POST.
TakenFirst(row) == [state EXCEPT !.watch = Watched, !.cursor = IF row.again THEN @ ELSE row.env]
\* The POST of a row begins: the cursor stays where it is.
Taken(row) == [state EXCEPT !.watch = Watched]

\* One turn of the loop: poll, then the first pending row is posted, passed
\* over because it is read, or dropped because it left the watch list.
Loop ==
  /\ mem.pc = "loop" /\ (Pending # <<>> \/ Watched # state.watch)
  /\ LET row == Head(Pending)
     IN  CASE Pending = <<>> ->
                mem' = Polled /\ state' = [state EXCEPT !.watch = Watched]
           [] Pending # <<>> /\ row.env \in readLog /\ ~row.again ->
                /\ mem' = [Polled EXCEPT !.pending = Tail(Pending)]
                /\ state' = [cursor |-> row.env, watch |-> Watched]
           [] Pending # <<>> /\ row.again /\ ~OnList(row.env, Watched) ->
                /\ mem' = [Polled EXCEPT !.pending = Tail(Pending), !.queued = @ \ {row.env}]
                /\ state' = [state EXCEPT !.watch = Watched]
           [] OTHER -> /\ mem' = [Polled EXCEPT !.pc = "post", !.tries = 1, !.pending = Pending]
                       /\ state' = Taken(row)
  /\ UNCHANGED <<queue, readLog, kills, rounds, excused>>

\* A refused or timed out POST with attempts left is sent again.
Retry ==
  /\ mem.pc = "post" /\ mem.tries < Attempts
  /\ mem' = [mem EXCEPT !.tries = @ + 1]
  /\ UNCHANGED <<queue, readLog, state, kills, rounds, excused>>

\* A first round answered 2xx puts the envelope on the list, whose oldest
\* entry makes room; one given up is only passed.
Posted(e, ok) ==
  LET longer == IF ok /\ RenotifyMax > 0
                  THEN Append(state.watch, [env |-> e, posts |-> 1, ripe |-> FALSE])
                  ELSE state.watch
  IN  [cursor |-> e, watch |-> IF Len(longer) > MaxWatch THEN Tail(longer) ELSE longer]
Reposted(e) ==
  [state EXCEPT !.watch = [i \in DOMAIN @ |->
     IF @[i].env = e THEN [@[i] EXCEPT !.posts = @ + 1, !.ripe = FALSE] ELSE @[i]]]

\* The round is settled: answered 2xx, or given up after the last attempt.
Settle ==
  /\ mem.pc = "post"
  /\ \E ok \in {TRUE} \cup (IF mem.tries = Attempts THEN {FALSE} ELSE {}) :
       LET row == Head(mem.pending)
           next == IF row.again THEN Reposted(row.env) ELSE Posted(row.env, ok)
           out == {w.env : w \in ToSet(state.watch)} \ {w.env : w \in ToSet(next.watch)}
       IN  /\ state' = next
           /\ mem' = [mem EXCEPT !.pc = "loop", !.tries = 0, !.pending = Tail(@),
                                 !.queued = IF row.again THEN @ \ {row.env} ELSE @]
           /\ rounds' = [rounds EXCEPT ![row.env] = @ + 1]
           /\ excused' = excused \cup out \cup (IF ok \/ row.again THEN {} ELSE {row.env})
  /\ UNCHANGED <<queue, readLog, kills>>

\* renotifyMs pass for every watched envelope.
Tick ==
  /\ \E i \in DOMAIN state.watch : ~state.watch[i].ripe
  /\ state' = [state EXCEPT !.watch = [i \in DOMAIN @ |-> [@[i] EXCEPT !.ripe = TRUE]]]
  /\ UNCHANGED <<queue, readLog, mem, kills, rounds, excused>>

Kill ==
  /\ mem.pc # "down" /\ kills < MaxKills /\ kills' = kills + 1 /\ mem' = Down
  /\ UNCHANGED <<queue, readLog, state, rounds, excused>>

Notifier == Begin \/ Loop \/ Retry \/ Settle

Next ==
  \/ \E e \in Envelopes : Admit(e) \/ Read(e)
  \/ Notifier \/ Tick \/ Kill

\* The supervisor restarts the notifier, its loop and its timers run.
Spec == Init /\ [][Next]_notifierVars /\ WF_notifierVars(Notifier) /\ WF_notifierVars(Tick)

-----------------------------------------------------------------------------
\* Every admitted envelope is posted, and posted again RenotifyMax times,
\* until it is read, whatever kills the notifier; excused is what the first
\* start found, what no first POST reached, and what a full list pushed out.
EveryAdmittedPosted ==
  \A e \in Envelopes :
    e \in ToSet(queue) ~> e \in readLog \cup excused \/ rounds[e] > RenotifyMax
=============================================================================
