----------------------------- MODULE ChannelDoor -----------------------------
(***************************************************************************)
(* The HTTPS door (channel-https-door.mjs) a remote harness's channel may   *)
(* stand behind: one session per channel process, a newer session evicting  *)
(* the older, whose process must be gone before the next one asks for the   *)
(* seat's lock.                                                             *)
(***************************************************************************)
EXTENDS Naturals, FiniteSets, Sequences

CONSTANTS
  Sess,        \* the sessions clients may open, in this order
  MaxSessions, \* sessions the door keeps
  Overlap,     \* clients may initialise while another initialise is handled
  MaxEnds      \* bound on sessions deleted, idle or whose channel dies

VARIABLES
  req,      \* each session's initialize: how far openSession is
  waits,    \* what the handler of each awaits: processes not yet gone
  table,    \* the sessions map, oldest first
  worker,   \* each session's channel process: "none", "run", "held", "closing"
  holder,   \* the processes that hold the seat's lock
  ends,
  arrived   \* history: the sessions in the order their clients came

doorVars == <<req, waits, table, worker, holder, ends, arrived>>

DoorInit ==
  /\ req = [s \in Sess |-> "none"] /\ waits = [s \in Sess |-> {}]
  /\ table = <<>> /\ worker = [s \in Sess |-> "none"] /\ holder = {} /\ ends = 0 /\ arrived = <<>>

InTable(s) == \E i \in 1 .. Len(table) : table[i] = s
Closing == {s \in Sess : worker[s] = "closing"}
Handling == {s \in Sess : req[s] \in {"evict", "wait", "spawn"}}

\* closeSession: out of the map at once, the process told to go.
Slot(s) == CHOOSE i \in 1 .. Len(table) : table[i] = s
Close(s) ==
  /\ table' = IF InTable(s) THEN SubSeq(table, 1, Slot(s) - 1) \o SubSeq(table, Slot(s) + 1, Len(table))
              ELSE table
  /\ worker' = [worker EXCEPT ![s] = "closing"]

Arrive(s) ==
  /\ req[s] = "none"
  /\ Overlap \/ Handling = {}
  /\ req' = [req EXCEPT ![s] = "evict"] /\ arrived' = Append(arrived, s)
  /\ UNCHANGED <<waits, table, worker, holder, ends>>

\* Mutant of Evict: the table is emptied without waiting for the processes
\* that go.
EvictNoWait(s) ==
  /\ req[s] = "evict"
  /\ IF Len(table) >= MaxSessions
       THEN Close(Head(table)) /\ UNCHANGED <<req, waits>>
       ELSE req' = [req EXCEPT ![s] = "wait"] /\ UNCHANGED <<waits, table, worker>>
  /\ UNCHANGED <<holder, ends, arrived>>

\* One round of the handler: close the oldest and await its end, or go on to
\* await every close in flight.
Evict(s) ==
  /\ req[s] = "evict" /\ waits[s] \cap Closing = {}
  /\ IF Len(table) >= MaxSessions
       THEN Close(Head(table)) /\ waits' = [waits EXCEPT ![s] = {Head(table)}] /\ UNCHANGED req
       ELSE /\ req' = [req EXCEPT ![s] = "wait"] /\ waits' = [waits EXCEPT ![s] = Closing]
            /\ UNCHANGED <<table, worker>>
  /\ UNCHANGED <<holder, ends, arrived>>

\* The channel process starts; the session is in the map once it has.
Spawn(s) ==
  /\ req[s] = "wait" /\ waits[s] \cap Closing = {}
  /\ req' = [req EXCEPT ![s] = "spawn"] /\ worker' = [worker EXCEPT ![s] = "run"]
  /\ UNCHANGED <<waits, table, holder, ends, arrived>>

\* The transport answers the client's initialize: the session is in the map.
Open(s) ==
  /\ req[s] = "spawn"
  /\ req' = [req EXCEPT ![s] = "open"] /\ table' = Append(table, s)
  /\ UNCHANGED <<waits, worker, holder, ends, arrived>>

\* The process asks for the lock, and exits when another holds it: its
\* session is closed with it.
Lock(s) ==
  /\ worker[s] = "run"
  /\ IF holder = {}
       THEN worker' = [worker EXCEPT ![s] = "held"] /\ holder' = {s} /\ UNCHANGED table
       ELSE Close(s) /\ UNCHANGED holder
  /\ UNCHANGED <<req, waits, ends, arrived>>

\* The client deletes its session, it idles out, or its channel dies.
End(s) ==
  /\ InTable(s) /\ ends < MaxEnds /\ ends' = ends + 1 /\ Close(s)
  /\ UNCHANGED <<req, waits, holder, arrived>>

Exited(s) ==
  /\ worker[s] = "closing" /\ worker' = [worker EXCEPT ![s] = "gone"] /\ holder' = holder \ {s}
  /\ UNCHANGED <<req, waits, table, ends, arrived>>

DoorNext == \E s \in Sess : Arrive(s) \/ Evict(s) \/ Spawn(s) \/ Open(s) \/ Lock(s) \/ End(s) \/ Exited(s)

DoorFairness == \A s \in Sess : WF_doorVars(Evict(s) \/ Spawn(s) \/ Open(s) \/ Lock(s) \/ Exited(s))
DoorSpec == DoorInit /\ [][DoorNext]_doorVars /\ DoorFairness

-----------------------------------------------------------------------------
\* "the newest session wins": once every process has settled, unless sessions
\* were ended, the last client to come has the lock (openSession).
NewestWins ==
  ends = 0 /\ arrived # <<>> /\ Handling = {} /\ (\A s \in Sess : worker[s] \in {"none", "held", "gone"})
    => worker[arrived[Len(arrived)]] = "held"

=============================================================================
