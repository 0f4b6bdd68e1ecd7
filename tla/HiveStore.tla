------------------------------ MODULE HiveStore ------------------------------
(***************************************************************************)
(* The private Hive memory store of mcp/tools/hive_memory_store.mjs and    *)
(* the tools of bin/ that maintain it.  Signed claims live in a SQLite     *)
(* database beside an append-only ledger of accepted writes.  A write      *)
(* commits in SQLite with its exact ledger line staged, then appends the   *)
(* line and syncs it, then answers; whoever opens the store reconciles the *)
(* two and serves nothing until they agree.  One process at a time holds   *)
(* the store lock (daemon, purge, restore, genesis); the backup tool reads *)
(* both files without it.  Any holder may stop between two of its steps.   *)
(*                                                                         *)
(* A claim is a record: what the store reads of a signed event.  One clock *)
(* tick stands for the rate window, the age a backup may have and the      *)
(* retention time: only their order matters here.                          *)
(***************************************************************************)
EXTENDS Integers, Sequences, FiniteSets, TLC

CONSTANTS
  Claims,       \* the events writers may sign
  Imports,      \* those a migrated store.json holds
  PerHour,      \* a writer's accepted writes per tick
  MaxUnbacked,  \* ticks a verified backup may be old before writes are fenced
  Retention,    \* ticks a dead row stays before it is due for purging
  Losses,       \* kinds of loss: subset of {"db", "ledger", "host", "copy"}
  Overlap,      \* whether a restore may run while a backup is in progress
  MaxSeq, MaxNow, MaxLosses, MaxBackups   \* bounds of the model

\* A writer's key and the d tag make the fact key a claim is the head of.
ClaimType == [n: Nat, writer: STRING, d: STRING, created: Nat,
              status: {"active", "withdrawn"}, exp: Nat]

\* Claims of different numbers, of type ClaimType; Imports are among them; Losses
\* are of "db", "ledger", "host" and "copy".

VARIABLES
  db,       \* the database: Absent or [rows, seq, pend, pseq]
  ledger,   \* [lines, torn]: the complete lines, and whether half a line follows
  receipt,  \* the verified-backup receipt: [at, seq], seq 0 when there is none
  repo,     \* the verified backups off the host, newest last: [db, cut, purge]
  holder,   \* who holds the store lock: "none", "daemon", "purge", ...
  state,    \* HiveMemoryStore.state of the holder
  max,      \* its ledgerMaxSeq
  barred,   \* its purgedIds
  todo,     \* the staged lines of a commit it has not appended yet
  backup,   \* the snapshot in progress: [pc, at, db, cut, purge]
  now,      \* the clock
  lost,     \* losses so far
  hurt,     \* a loss happened that no reconciliation has seen mended
  told      \* claims whose writer was told "accepted", still owed to it

store == <<db, ledger, receipt, repo>>
proc == <<holder, state, max, barred, todo>>
hist == <<lost, hurt, told>>
vars == <<store, proc, backup, now, hist>>

-----------------------------------------------------------------------------
(* The ledger *)

Ops == {"init", "cutover", "submit", "purge", "gap"}
Line == [op: Ops, seq: Nat, ids: SUBSET Claims]

\* ledgerShapeError: the numbering, and the genesis record first and only first.
WellShaped(L) ==
  \A i \in DOMAIN L : /\ L[i].seq = i
                      /\ (i = 1) = (L[i].op \in {"init", "cutover"})

Adds(l, c) == l.op \in {"submit", "cutover"} /\ c \in l.ids
Drops(l, c) == l.op \in {"purge", "gap"} /\ c \in l.ids

\* foldLedger: the events the database must hold, and those it never may.
Expected(L) == {c \in Claims : \E i \in DOMAIN L :
                  /\ Adds(L[i], c)
                  /\ \A j \in DOMAIN L : j > i => ~Drops(L[j], c)}
Purged(L) == UNION {L[i].ids : i \in {j \in DOMAIN L : L[j].op = "purge"}}
PurgeSeqs(L) == {0} \cup {i \in DOMAIN L : L[i].op = "purge"}
LastPurgeSeq(L) == CHOOSE i \in PurgeSeqs(L) : \A j \in PurgeSeqs(L) : j <= i

IsPrefixOf(s, t) == Len(s) <= Len(t) /\ s = SubSeq(t, 1, Len(s))

-----------------------------------------------------------------------------
(* The database *)

Absent == [rows |-> <<>>, seq |-> 0, pend |-> <<>>, pseq |-> 0]
Ids(D) == DOMAIN D.rows

\* nip01Newer: later, or as late with the lower event id.
Newer(a, b) == a.created > b.created \/ (a.created = b.created /\ a.n < b.n)
SameKey(a, b) == a.writer = b.writer /\ a.d = b.d
Heads(D, c) == {h \in Ids(D) : SameKey(h, c) /\ D.rows[h].cur}

\* Superseded, withdrawn and expired rows whose end of life is long past: the
\* end of a superseded row is the first event that is as late at its key.
RetentionDue(rows, t) ==
  {c \in DOMAIN rows :
     LET later == {l \in DOMAIN rows \ {c} : SameKey(l, c) /\ l.created >= c.created}
         ends  == IF later = {} THEN {c} ELSE later
     IN  \/ ~rows[c].cur /\ \E l \in ends : l.created + Retention <= t
         \/ rows[c].cur /\ c.status = "withdrawn" /\ c.created + Retention <= t
         \/ rows[c].cur /\ c.status = "active" /\ c.exp > 0 /\ c.exp + Retention <= t}

Without(rows, S) == [c \in DOMAIN rows \ S |-> rows[c]]
Used(D, w) == Cardinality({c \in Ids(D) : c.writer = w /\ D.rows[c].at = now})

Staged(D, op, ids) ==
  <<[op |-> op, seq |-> D.seq + 1, ids |-> ids]>>

-----------------------------------------------------------------------------
(* Reconciliation: what HiveMemoryStore.reconcile finds *)

\* The staged lines the ledger does not have yet, when they continue it and
\* lead exactly to the stored events (#genesisReplayError, #pendingReplay).
Replay(D, L) ==
  LET ahead  == D.seq - Len(L)
      landed == Len(D.pend) - ahead
      rest   == SubSeq(D.pend, landed + 1, Len(D.pend))
      after  == L \o rest
  IN  IF /\ ahead > 0 /\ landed >= 0 /\ landed <= Len(L)
         /\ SubSeq(L, Len(L) - landed + 1, Len(L)) = SubSeq(D.pend, 1, landed)
         /\ WellShaped(after)
         /\ Expected(after) = Ids(D)
         /\ Ids(D) \cap Purged(after) = {}
        THEN rest ELSE <<>>

\* The state reconcile ends in, checked in this order.
Verdict(D, L) ==
  LET full == L \o Replay(D, L) IN
  IF D = Absent THEN "DB_MISSING_OR_UNINITIALIZED"
  ELSE IF ~WellShaped(L) THEN "LEDGER_CORRUPT"
  ELSE IF L = <<>> /\ D.seq > 1 THEN "LEDGER_MISSING_FOR_ESTABLISHED_STORE"
  ELSE IF full = <<>> THEN "GENESIS_REPLAY_INVALID"
  ELSE IF Ids(D) \cap Purged(L) # {} THEN "DB_HAS_UNEXPECTED_OR_PURGED_EVENTS"
  ELSE IF D.seq > Len(full) THEN "DB_AHEAD_OF_LEDGER"
  ELSE IF D.seq < Len(full) \/ Expected(full) \ Ids(D) # {} THEN "DB_BEHIND_LEDGER"
  ELSE IF Ids(D) \ Expected(full) # {} THEN "DB_HAS_UNEXPECTED_OR_PURGED_EVENTS"
  ELSE IF D.pseq # LastPurgeSeq(full) THEN "PURGE_SEQ_MISMATCH"
  ELSE "READY"

-----------------------------------------------------------------------------
(* Whoever holds the store *)

Unheld == /\ holder' = "none" /\ state' = "OFF"
          /\ max' = 0 /\ barred' = {} /\ todo' = <<>>

\* A line appended after half a line is glued to it and cannot be read: it is
\* cut when it is last, and leaves a gap in the numbers when it is not.
Appended(file, todos) ==
  [lines |-> file.lines \o IF file.torn THEN Tail(todos) ELSE todos,
   torn  |-> FALSE]

\* The claims a landed line releases from the promise made to their writers.
Released(todos) ==
  UNION {todos[i].ids : i \in {j \in DOMAIN todos : todos[j].op \in {"purge", "gap"}}}

\* appendLedgerLine that fails, or is cut short by a crash: some whole lines
\* are down and perhaps half of the next; all of them when only the sync fails.
LandsPartly(file, todos) ==
  \E k \in 0..Len(todos), t \in BOOLEAN :
     LET down == SubSeq(todos, 1, k)
     IN  /\ k = Len(todos) => ~t
         /\ ledger' = IF k = 0 THEN [file EXCEPT !.torn = @ \/ t]
                               ELSE [Appended(file, down) EXCEPT !.torn = t]
         /\ told' = told \ Released(down)

\* Mutant of Barred: a restart forgets what was purged.
NoneBarred(L) == {}

\* purgedIds, folded from the ledger at every reconciliation.
Barred(L) == Purged(L)

\* reconcile: cut the torn tail, append the staged lines the ledger lacks,
\* and serve only when the two agree.
Reconcile ==
  LET rest == Replay(db, ledger.lines)
      v    == Verdict(db, ledger.lines)
      full == ledger.lines \o rest
      mended == [ledger EXCEPT !.torn = FALSE]
      read == v \notin {"DB_MISSING_OR_UNINITIALIZED", "LEDGER_CORRUPT"}
  IN  \/ /\ state' = v
         /\ ledger' = IF read THEN [lines |-> full, torn |-> FALSE] ELSE ledger
         /\ told' = told \ Released(rest)
         /\ max' = IF v = "READY" THEN Len(full) ELSE 0
         /\ barred' = IF v = "READY" THEN Barred(full) ELSE {}
         /\ hurt' = (hurt /\ v # "READY")
      \/ /\ read /\ rest # <<>>
         /\ state' = "LEDGER_IO_ERROR"
         /\ LandsPartly(mended, rest)
         /\ max' = 0 /\ barred' = {}
         /\ UNCHANGED hurt

\* The daemon, or the purge tool, takes the lock and opens the store.
Start(h) == /\ holder = "none"
            /\ holder' = h
            /\ Reconcile
            /\ UNCHANGED <<db, receipt, repo, todo, backup, now, lost>>

\* SIGHUP with an invalid config closes the store; with a valid one it
\* reconciles again unless the store is open.
BadConfig == /\ holder = "daemon" /\ todo = <<>>
             /\ state' = "CONFIG_INVALID"
             /\ UNCHANGED <<store, holder, max, barred, todo, backup, now, hist>>

GoodConfig == /\ holder = "daemon" /\ todo = <<>> /\ state # "READY"
              /\ Reconcile
              /\ UNCHANGED <<db, receipt, repo, holder, todo, backup, now, lost>>

\* A stop between two steps, a kill, or a tool that is done.
Stop == /\ holder # "none"
        /\ Unheld
        /\ UNCHANGED <<store, backup, now, hist>>


-----------------------------------------------------------------------------
(* Writes *)

Open(h) == holder = h /\ state = "READY" /\ todo = <<>>

\* purgeFence and backupFence: no write until a verified backup covers the
\* last purge, and none when the last verified backup is too old.
PurgeBacked == db.pseq = 0 \/ receipt.seq >= db.pseq
BackupFresh == /\ receipt.seq > 0 /\ receipt.seq <= db.seq
               /\ now - receipt.at <= MaxUnbacked

\* Mutant of Submit: the writer is answered before the ledger has the line.
SubmitAnsweredAtCommit(c, prior) ==
  /\ Open("daemon") /\ PurgeBacked /\ BackupFresh
  /\ c \notin Ids(db) \cup barred /\ Heads(db, c) = {} /\ prior = {}
  /\ c.status = "active" /\ c.created <= now /\ db.seq < MaxSeq
  /\ db' = [db EXCEPT !.rows = @ @@ (c :> [cur |-> TRUE, at |-> now]),
                      !.seq = @ + 1, !.pend = Staged(db, "submit", {c})]
  /\ todo' = Staged(db, "submit", {c})
  /\ told' = told \cup {c}
  /\ UNCHANGED <<ledger, receipt, repo, holder, state, max, barred, backup, now, lost, hurt>>

\* Phase 1 of submit: the new head and its staged line in one transaction.
\* prior is the head the writer expects.
Submit(c, prior) ==
  /\ Open("daemon")
  /\ PurgeBacked /\ BackupFresh
  /\ c \notin barred
  /\ c \notin Ids(db)
  /\ Heads(db, c) = prior
  /\ \A h \in prior : Newer(c, h)
  /\ c.status = "withdrawn" => \E h \in prior : h.status = "active"
  /\ Used(db, c.writer) < PerHour
  /\ c.created <= now       \* it has been signed
  /\ db.seq < MaxSeq
  /\ LET line == Staged(db, "submit", {c}) IN
       /\ db' = [db EXCEPT
                   !.rows = [r \in Ids(db) \cup {c} |->
                               IF r = c THEN [cur |-> TRUE, at |-> now]
                               ELSE [db.rows[r] EXCEPT !.cur = @ /\ r \notin prior]],
                   !.seq = @ + 1,
                   !.pend = line]
       /\ todo' = line
  /\ UNCHANGED <<ledger, receipt, repo, holder, state, max, barred, backup, now, hist>>

\* A repeated submit of a stored event answers "accepted" again, whatever
\* prior it names, once no staged line is waiting (#flushPendingIfAhead).
Resubmit(c) ==
  /\ Open("daemon")
  /\ PurgeBacked /\ BackupFresh
  /\ c \notin barred
  /\ c \in Ids(db)
  /\ db.seq = max
  /\ told' = told \cup {c}
  /\ UNCHANGED <<store, proc, backup, now, lost, hurt>>

\* #purge: the rows go and the ledger line is staged in one transaction.
Purge(S, reason) ==
  /\ Open("purge")
  /\ S # {} /\ S \subseteq Ids(db)
  /\ CASE reason = "retention" -> S = RetentionDue(db.rows, now)
       [] reason = "d"         -> \E c \in S : S = {r \in Ids(db) : r.d = c.d}
       [] reason = "id"        -> Cardinality(S) = 1
  /\ db.seq < MaxSeq
  /\ LET line == Staged(db, "purge", S)
     IN  /\ db' = [rows |-> Without(db.rows, S), seq |-> db.seq + 1,
                   pend |-> line, pseq |-> db.seq + 1]
         /\ todo' = line
  /\ UNCHANGED <<ledger, receipt, repo, holder, state, max, barred, backup, now, hist>>

\* --init-empty and --migrate-store-json, once, before any backup exists: on
\* no database and no byte of ledger.
Genesis(S) ==
  /\ holder = "none" /\ repo = <<>>
  /\ db = Absent /\ ledger.lines = <<>> /\ ~ledger.torn
  /\ LET line == <<[op |-> IF S = {} THEN "init" ELSE "cutover", seq |-> 1, ids |-> S]>>
     IN  /\ db' = [rows |-> [c \in S |->
                               [cur |-> \A o \in S \ {c} : SameKey(o, c) => Newer(c, o),
                                at |-> 0]],
                   seq |-> 1, pend |-> line, pseq |-> 0]
         /\ todo' = line
  /\ holder' = "genesis"
  /\ UNCHANGED <<ledger, receipt, repo, state, max, barred, backup, now, hist>>

\* Phase 2: the staged lines go to the ledger, are synced, and the caller is
\* answered.  Tools are done then; the daemon serves on.
AppendLine ==
  /\ todo # <<>>
  /\ ledger' = Appended(ledger, todo)
  /\ told' = (told \ Released(todo)) \cup
             (IF holder \in {"daemon", "genesis"} THEN todo[1].ids ELSE {})
  /\ IF holder = "daemon"
       THEN /\ max' = db.seq /\ todo' = <<>>
            /\ UNCHANGED <<holder, state, barred>>
       ELSE Unheld
  /\ UNCHANGED <<db, receipt, repo, backup, now, lost, hurt>>

\* The append or its sync fails: the writer hears LEDGER_IO_ERROR, the daemon
\* serves nothing until it reconciles.
AppendFails ==
  /\ todo # <<>>
  /\ LandsPartly(ledger, todo)
  /\ IF holder = "daemon"
       THEN /\ state' = "LEDGER_IO_ERROR" /\ todo' = <<>>
            /\ UNCHANGED <<holder, max, barred>>
       ELSE Unheld
  /\ UNCHANGED <<db, receipt, repo, backup, now, lost, hurt>>

-----------------------------------------------------------------------------
(* Backup and restore *)

\* bin/hive-memory-backup.mjs, beside whoever holds the store: the time is
\* taken, then the database copied, then the ledger cut at the copy's number
\* (refused while the ledger is behind it), then the pair verified off the
\* host, then the receipt replaced.
NoBackup == [pc |-> "idle", at |-> 0, db |-> Absent, cut |-> <<>>, purge |-> FALSE]

BackupStart == /\ backup.pc = "idle" /\ db # Absent /\ Len(repo) < MaxBackups
               /\ backup' = [NoBackup EXCEPT !.pc = "copy", !.at = now]
               /\ UNCHANGED <<store, proc, now, hist>>

BackupCopy == /\ backup.pc = "copy"
              /\ backup' = [backup EXCEPT !.pc = "cut", !.db = db]
              /\ UNCHANGED <<store, proc, now, hist>>

BackupCut ==
  /\ backup.pc = "cut"
  /\ WellShaped(ledger.lines)
  /\ IF Len(ledger.lines) < backup.db.seq
       THEN backup' = NoBackup
       ELSE LET cut == SubSeq(ledger.lines, 1, backup.db.seq)
            IN  backup' = [backup EXCEPT !.pc = "verify", !.cut = cut,
                             !.purge = LastPurgeSeq(cut) > receipt.seq]
  /\ UNCHANGED <<store, proc, now, hist>>

BackupVerify == /\ backup.pc = "verify"
                /\ repo' = Append(repo, [db |-> backup.db, cut |-> backup.cut,
                                          purge |-> backup.purge])
                /\ backup' = [backup EXCEPT !.pc = "record"]
                /\ UNCHANGED <<db, ledger, receipt, proc, now, hist>>

RecordVerified == /\ backup.pc = "record"
                  /\ receipt' = [at |-> backup.at, seq |-> backup.db.seq]
                  /\ backup' = NoBackup
                  /\ UNCHANGED <<db, ledger, repo, proc, now, hist>>

BackupFails == /\ backup.pc # "idle"
               /\ backup' = NoBackup
               /\ UNCHANGED <<store, proc, now, hist>>

\* The restore authority: the ledger of the newest verified backup, which the
\* ledger of every backup tagged for a purge must be a prefix of.
Authority == IF repo = <<>> THEN <<>> ELSE repo[Len(repo)].cut
AuthorityHolds ==
  /\ repo # <<>>
  /\ \A i \in DOMAIN repo : repo[i].purge => IsPrefixOf(repo[i].cut, Authority)

\* --with-ledger after a loss of the host: the authority becomes the ledger,
\* before the candidate is judged, and never over a ledger that is there.
InstallLedger == /\ holder = "none" /\ AuthorityHolds
                 /\ ledger.lines = <<>> /\ ~ledger.torn
                 /\ ledger' = [lines |-> Authority, torn |-> FALSE]
                 /\ UNCHANGED <<db, receipt, repo, proc, backup, now, hist>>

\* restoreSnapshot of the verified backup b: refused unless it agrees with the
\* ledger up to purges it is told to apply again and a gap the operator names.
Restore(b, reapply, ack) ==
  LET L       == ledger.lines
      extra   == Ids(b.db) \ Expected(L)
      gap     == Expected(L) \ Ids(b.db)
      rows    == IF reapply THEN Without(b.db.rows, Purged(L)) ELSE b.db.rows
      due     == RetentionDue(rows, now)
      acked   == IF gap = {} THEN <<>>
                 ELSE <<[op |-> "gap", seq |-> Len(L) + 1, ids |-> gap]>>
      staged  == IF due = {} THEN acked
                 ELSE Append(acked, [op |-> "purge", seq |-> Len(L) + Len(acked) + 1,
                                     ids |-> due])
      base    == IF ~reapply THEN b.db
                 ELSE [b.db EXCEPT !.pseq = LastPurgeSeq(L),
                         !.seq  = IF gap = {} THEN Len(L) ELSE @,
                         !.pend = IF gap = {} THEN SubSeq(L, Len(L), Len(L)) ELSE @]
      whole   == IF staged = <<>> THEN [base EXCEPT !.rows = rows]
                 ELSE [rows |-> Without(rows, due), seq |-> Len(L) + Len(staged),
                       pend |-> staged,
                       pseq |-> IF due = {} THEN LastPurgeSeq(L) ELSE Len(L) + Len(staged)]
  IN  /\ holder = "none" /\ AuthorityHolds
      /\ Overlap \/ backup.pc = "idle"
      /\ L # <<>> /\ WellShaped(L) /\ IsPrefixOf(Authority, L)
      /\ b.db.seq <= Len(L)
      /\ extra \subseteq Purged(L)
      /\ reapply \/ (extra = {} /\ (gap # {} \/ b.db.seq = Len(L)) /\ due = {})
      /\ gap # {} => ack = Len(L)
      /\ whole.seq = Len(L) + Len(staged)
      /\ whole.seq <= MaxSeq
      /\ db' = whole
      /\ ledger' = [ledger EXCEPT !.torn = FALSE]
      /\ todo' = staged
      /\ holder' = IF staged = <<>> THEN "none" ELSE "restore"
      /\ UNCHANGED <<receipt, repo, state, max, barred, backup, now, hist>>

-----------------------------------------------------------------------------
(* The world *)

\* A file or the host is gone, or an old database was copied in by hand; an
\* operator stops the backup before mending it.
Lose(kind) ==
  /\ lost < MaxLosses
  /\ kind = "host" \/ holder = "none"
  /\ lost' = lost + 1 /\ hurt' = TRUE
  /\ Unheld
  /\ backup' = NoBackup
  /\ CASE kind = "ledger" -> db' = db
       [] kind = "copy"   -> \E i \in DOMAIN repo : db' = repo[i].db
       [] OTHER           -> db' = Absent
  /\ ledger' = IF kind \in {"db", "copy"} THEN ledger ELSE [lines |-> <<>>, torn |-> FALSE]
  /\ receipt' = IF kind = "host" THEN [at |-> 0, seq |-> 0] ELSE receipt
  /\ told' = IF kind \in {"db", "copy"} THEN told ELSE told \cap Expected(Authority)
  /\ UNCHANGED <<repo, now>>

Tick == now < MaxNow /\ now' = now + 1 /\ UNCHANGED <<store, proc, backup, hist>>

Init == /\ db = Absent
        /\ ledger = [lines |-> <<>>, torn |-> FALSE]
        /\ receipt = [at |-> 0, seq |-> 0]
        /\ repo = <<>>
        /\ holder = "none" /\ state = "OFF" /\ max = 0 /\ barred = {} /\ todo = <<>>
        /\ backup = NoBackup
        /\ now = 1
        /\ lost = 0 /\ hurt = FALSE /\ told = {}

Next ==
  \/ \E h \in {"daemon", "purge"} : Start(h)
  \/ BadConfig \/ GoodConfig \/ Stop
  \/ \E c \in Claims, prior \in SUBSET Claims : Submit(c, prior)
  \/ \E c \in Claims : Resubmit(c)
  \/ \E S \in SUBSET Claims, r \in {"retention", "d", "id"} : Purge(S, r)
  \/ \E S \in {{}, Imports} : Genesis(S)
  \/ AppendLine \/ AppendFails
  \/ BackupStart \/ BackupCopy \/ BackupCut \/ BackupVerify \/ RecordVerified \/ BackupFails
  \/ InstallLedger
  \/ \E i \in DOMAIN repo, reapply \in BOOLEAN, ack \in 0..MaxSeq : Restore(repo[i], reapply, ack)
  \/ \E k \in Losses : Lose(k)
  \/ Tick

Spec == Init /\ [][Next]_vars

-----------------------------------------------------------------------------
(* Properties *)


\* A writer that was told "accepted" is owed its claim until a purge, a gap
\* the operator named or a loss newer than the last verified backup.
ToldIsKept == told \subseteq Expected(IF ledger.lines = <<>> THEN Authority ELSE ledger.lines)

Kept == IF ledger.lines = <<>> THEN Authority ELSE ledger.lines
Memory == INSTANCE StableMemory WITH
            kept    <- Expected(Kept),
            erased  <- Purged(Kept),
            saved   <- [kept |-> Expected(Authority), erased |-> Purged(Authority)],
            serving <- IF Open("daemon") THEN {Ids(db)} ELSE {}

\* The store is the memory it promises to be.
KeepsTheMemory == Memory!Spec

=============================================================================
