-------------------------------- MODULE Locks --------------------------------
(***************************************************************************)
(* The three lock files that keep one process at a time on one state root, *)
(* in mcp/tools.  A behaviour follows one of them (variable kind):          *)
(*   pid     pid_lock.mjs: channel, feed, notifier and status locks;        *)
(*   broker  broker_lock.mjs: the keyed deliver paths of an instance;       *)
(*   store   acquireStoreLock of hive_memory_store.mjs: daemon and tools.   *)
(* All three create the file exclusively, judge one that exists by the pid *)
(* it names and unlink a stale one by its path.  A file that was unlinked   *)
(* can still be written by the process that made it, so the path is         *)
(* modelled by whose file it names, apart from what that file says.         *)
(***************************************************************************)
EXTENDS Naturals, FiniteSets

CONSTANTS
  Pids,      \* process ids; a restarted container reuses them
  NoFile,    \* the path names no file
  MaxKills   \* bound on processes that end without their exit handler

VARIABLES
  kind,      \* the protocol this behaviour follows
  path,      \* the pid whose file the path names, or NoFile
  written,   \* pids whose newest lock file says its pid
  pc,        \* "off", "make", "made", "found", "stale", "holds" of each pid
  tries,     \* lock files this attempt has removed (the store stops at two)
  strangers, \* pids an unrelated live process has
  kills

lockVars == <<kind, path, written, pc, tries, strangers, kills>>

Init ==
  /\ kind \in {"pid", "broker", "store"}
  /\ path = NoFile /\ written = {} /\ strangers = {} /\ kills = 0
  /\ pc = [p \in Pids |-> "off"] /\ tries = [p \in Pids |-> 0]

To(p, s) == pc' = [pc EXCEPT ![p] = s]
Refuse(p) == To(p, "off")

\* openSync(path, 'wx').
Make(p) ==
  /\ \/ pc[p] = "off" /\ p \notin strangers /\ tries' = [tries EXCEPT ![p] = 0]
     \/ pc[p] = "make" /\ UNCHANGED tries
  /\ IF path = NoFile THEN path' = p /\ written' = written \ {p} /\ To(p, "made")
                      ELSE To(p, "found") /\ UNCHANGED <<path, written>>
  /\ UNCHANGED <<kind, strangers, kills>>

Write(p) ==
  /\ pc[p] = "made" /\ To(p, "holds") /\ written' = written \cup {p}
  /\ UNCHANGED <<kind, path, tries, strangers, kills>>

\* Whether the pid a lock names is taken for its holder.  pid_lock knows its
\* own pid for stale and a stranger that inherited one by what it runs.
Alive(p, q) ==
  IF kind = "pid" THEN q # p /\ pc[q] # "off" ELSE pc[q] # "off" \/ q \in strangers

\* The lock found is stale: it names a pid that is gone.  One that says
\* nothing yet reads as pid 0 to the store and is malformed to the others.
Stale(p) ==
  /\ path # NoFile
  /\ IF path \in written THEN ~Alive(p, path) ELSE kind = "store"

Judge(p) ==
  /\ pc[p] = "found"
  /\ IF Stale(p) THEN To(p, "stale") ELSE Refuse(p)
  /\ UNCHANGED <<kind, path, written, tries, strangers, kills>>

\* Unlinking by name: whatever file is there now.  A file already gone is an
\* error to all but the store.
Reclaim(p) ==
  /\ pc[p] = "stale" /\ path' = NoFile
  /\ tries' = [tries EXCEPT ![p] = IF kind = "store" THEN @ + 1 ELSE @]
  /\ IF (kind # "store" /\ path = NoFile) \/ tries'[p] = 2 THEN Refuse(p) ELSE To(p, "make")
  /\ UNCHANGED <<kind, written, strangers, kills>>

\* The exit handler: the broker's removes the file whoever made it.
Release(p) ==
  /\ pc[p] = "holds" /\ Refuse(p)
  /\ path' = IF kind = "broker" \/ path = p THEN NoFile ELSE path
  /\ UNCHANGED <<kind, written, tries, strangers, kills>>

Kill(p) ==
  /\ pc[p] # "off" /\ kills < MaxKills /\ kills' = kills + 1 /\ Refuse(p)
  /\ UNCHANGED <<kind, path, written, tries, strangers>>

\* The pid of a process that ended goes to an unrelated one, which ends too.
Reuse(p) ==
  /\ pc[p] = "off"
  /\ strangers' = IF p \in strangers THEN strangers \ {p} ELSE strangers \cup {p}
  /\ UNCHANGED <<kind, path, written, pc, tries, kills>>

Next ==
  \E p \in Pids : Make(p) \/ Write(p) \/ Judge(p) \/ Reclaim(p) \/ Release(p) \/ Kill(p) \/ Reuse(p)

Spec == Init /\ [][Next]_lockVars

-----------------------------------------------------------------------------
Holders == {p \in Pids : pc[p] = "holds"}


=============================================================================
