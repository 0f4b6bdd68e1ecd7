---------------------------- MODULE HiveService -----------------------------
(***************************************************************************)
(* The Hive memory service of mcp/tools/memory-daemon.mjs: readers and     *)
(* writers connected to sockets whose name decides who they are, claims    *)
(* built (memory.mjs), checked, stored and read under the room ACL of the  *)
(* configuration, and a SIGHUP that replaces it.  How the store keeps what *)
(* it accepted is HiveStore; here it is ready or not.                      *)
(*                                                                         *)
(* A stored claim is known by its place in the order of acceptance.        *)
(***************************************************************************)
EXTENDS Integers, Sequences, FiniteSets

CONSTANTS
  Conns,      \* connections a client may hold open at once
  Bindings,   \* the sockets: [kind: {"reader", "writer"}, name]
  Configs,    \* the configuration files an operator may write, valid or not
  FirstConfig, \* the one the service starts with
  Scopes,     \* [type: {"canon", "ops", "room"}, room]
  Slugs,      \* fact identifiers within a scope
  Workflows,  \* those that name a workflow checkpoint (isWorkflowSlug)
  Ttls,       \* lifetimes a claim may ask for; 0 is a durable decision
  WakeLimit,  \* index cards in a wake digest
  MaxTtl, MaxWorkflowTtl, \* the longest a claim, a checkpoint may live
  Keyless,    \* the key of a reader that has none
  MaxRows, MaxTime, MaxReloads   \* bounds of the model

VARIABLES
  config,  \* the configuration in force, or Invalid
  ready,   \* the store is READY
  rows,    \* the stored claims, oldest first
  conns,   \* the open connections
  time,
  reloads

serviceVars == <<config, ready, rows, conns, time, reloads>>

Invalid == [readers |-> <<>>]
Closed == [open |-> FALSE]
NoLookup == [scope |-> "none"]

-----------------------------------------------------------------------------
(* The configuration *)

Members(r) == IF r \in DOMAIN config.rooms THEN config.rooms[r].members ELSE {}
Writing(r) == IF r \in DOMAIN config.rooms THEN config.rooms[r].writers ELSE {}

\* validateAndResolveConfig: no two writers share a key, who writes to a room
\* is a member of it.
ValidConfig(c) ==
  /\ \A v, w \in DOMAIN c.writers : c.writers[v].pk = c.writers[w].pk => v = w
  /\ \A r \in DOMAIN c.rooms : c.rooms[r].writers \subseteq c.rooms[r].members

\* bindingSignature: what a connection was given when it connected.
Signature(c, b) ==
  CASE c = Invalid -> <<"config-invalid">>
    [] c # Invalid /\ b.kind = "reader" /\ b.name \in DOMAIN c.readers ->
         <<c.readers[b.name], {r \in DOMAIN c.rooms : c.readers[b.name] \in c.rooms[r].members}>>
    [] c # Invalid /\ b.kind = "writer" /\ b.name \in DOMAIN c.writers ->
         LET w == c.writers[b.name]
         IN <<w, {r \in DOMAIN c.rooms : w.pk \in c.rooms[r].writers}, c.owner = w.pk,
              w.pk \in c.globals, w.pk \in c.canons>>
    [] OTHER -> <<"absent">>

\* canRead: the read predicate, for the reader's key and a claim.
CanRead(pk, x) ==
  /\ config # Invalid
  /\ CASE x.scope.type = "canon" -> x.by = config.owner \/ x.by \in config.canons
       [] x.scope.type = "ops" -> x.by = config.owner \/ x.by \in config.globals
       [] x.scope.type = "room" -> pk # Keyless /\ {pk, x.by} \subseteq Members(x.scope.room)

\* writeRefusal: the scopes a key may write.
MayWrite(pk, s) ==
  CASE s.type = "canon" -> pk = config.owner \/ pk \in config.canons
    [] s.type = "ops" -> pk = config.owner \/ pk \in config.globals
    [] s.type = "room" -> pk \in Writing(s.room)

-----------------------------------------------------------------------------
(* Claims: memory.mjs *)

Checkpoint(x) == x.slug \in Workflows /\ x.scope.type # "canon"

\* buildClaimTemplate, buildWithdrawalTemplate: dated by the writer's clock t,
\* and always later than the event it replaces.
Built(pk, saw, status, t, ttl, sup) ==
  LET made == IF t > saw.made THEN t ELSE saw.made + 1
      wf == saw.slug \in Workflows /\ saw.scope.type # "canon"
      life == IF wf /\ ttl > MaxWorkflowTtl THEN MaxWorkflowTtl ELSE ttl
  IN [by |-> pk, scope |-> saw.scope, slug |-> saw.slug, made |-> made, status |-> status, sup |-> sup,
      exp |-> IF status = "withdrawn" \/ life = 0 THEN 0 ELSE made + life]

\* validateMemoryEvent: what lives is later than it was made, and not for long.
Valid(x) == x.exp # 0 => x.exp > x.made /\ x.exp <= x.made + MaxTtl

\* memoryWritePolicy: a checkpoint expires, and soon.
WithinPolicy(x) ==
  x.status = "active" /\ Checkpoint(x) => x.exp # 0 /\ x.exp <= x.made + MaxWorkflowTtl

-----------------------------------------------------------------------------
(* The store, as it is read and written *)

SameFact(x, y) == x.by = y.by /\ x.scope = y.scope /\ x.slug = y.slug
\* The places of the current claims, and of the ones in force.
Current(by, s, slug) == {i \in DOMAIN rows : rows[i].cur /\ rows[i].by = by
                                             /\ rows[i].scope = s /\ rows[i].slug = slug}
Live(i) == rows[i].cur /\ rows[i].status = "active" /\ (rows[i].exp = 0 \/ rows[i].exp > time)

\* #consolidatedBy: the live claims of the same scope that name claim i as
\* superseded hide it, when it is a checkpoint.
Replacing(i) ==
  {j \in DOMAIN rows : /\ i \in rows[j].sup /\ j # i /\ rows[j].scope = rows[i].scope
                       /\ rows[j].made >= rows[i].made /\ rows[i].scope.type # "canon" /\ Live(j)}
Consolidated(i) == Checkpoint(rows[i]) /\ Replacing(i) # {}

\* What memory_query and memory_wake tell a reader: the live claims it may
\* read that nothing has consolidated.
View(pk) == {i \in DOMAIN rows : Live(i) /\ CanRead(pk, rows[i]) /\ ~Consolidated(i)}

\* memory_wake's digest: every canon claim, and the newest of the others as
\* cards, up to a limit (its byte budget only shortens the cards).
Digest(pk) ==
  {i \in View(pk) : \/ rows[i].scope.type = "canon"
                    \/ Cardinality({j \in View(pk) : rows[j].scope.type # "canon" /\ rows[j].made > rows[i].made})
                         < WakeLimit}

\* #lineage: what came of claim i along supersedes, three hops at most, every
\* one readable.
Successors(pk, S) == {j \in DOMAIN rows : CanRead(pk, rows[j]) /\ rows[j].sup \cap S # {}}
Lineage(pk, i) ==
  IF ~CanRead(pk, rows[i]) THEN {}
  ELSE LET one == Successors(pk, {i})
           two == one \cup Successors(pk, one)
       IN two \cup Successors(pk, two)

-----------------------------------------------------------------------------
(* Connections *)

ServiceInit ==
  /\ config = FirstConfig /\ ready = TRUE /\ rows = <<>>
  /\ conns = [k \in Conns |-> Closed] /\ time = 1 /\ reloads = 0

Connect(k) ==
  /\ ~conns[k].open
  /\ \E b \in Bindings : conns' = [conns EXCEPT ![k] =
       [open |-> TRUE, bind |-> b, sig |-> Signature(config, b), saw |-> NoLookup, ans |-> "none"]]
  /\ UNCHANGED <<config, ready, rows, time, reloads>>

Leave(k) ==
  /\ conns[k].open /\ conns' = [conns EXCEPT ![k] = Closed]
  /\ UNCHANGED <<config, ready, rows, time, reloads>>

Says(k, ans) == conns' = [conns EXCEPT ![k].ans = ans, ![k].saw = NoLookup]

\* The writer a connection is bound to, if the configuration still has it.
Writer(k) == conns[k].bind.name
IsWriter(k) == config # Invalid /\ Writer(k) \in DOMAIN config.writers
WriterKey(k) == config.writers[Writer(k)].pk

\* memory_lookup_prior: the head of the writer's own fact key.
Lookup(k, s, slug) ==
  /\ conns[k].open /\ conns[k].bind.kind = "writer"
  /\ IF ~ready \/ ~IsWriter(k) \/ ~MayWrite(WriterKey(k), s)
       THEN Says(k, "refused")
       ELSE LET heads == Current(WriterKey(k), s, slug)
                p == IF heads = {} THEN 0 ELSE CHOOSE i \in heads : TRUE
            IN conns' = [conns EXCEPT ![k].saw =
                 [scope |-> s, slug |-> slug, prior |-> p, made |-> IF p = 0 THEN 0 ELSE rows[p].made]]
  /\ UNCHANGED <<config, ready, rows, time, reloads>>

Accepted(pk) == Cardinality({i \in DOMAIN rows : rows[i].by = pk /\ rows[i].at = time})
Stored(x, prior, heads) ==
  Append([i \in DOMAIN rows |-> [rows[i] EXCEPT !.cur = @ /\ i \notin heads]],
         [by |-> x.by, scope |-> x.scope, slug |-> x.slug, made |-> x.made, status |-> x.status,
          sup |-> x.sup, exp |-> x.exp, cur |-> TRUE, at |-> time, saw |-> prior, over |-> heads])

\* Mutant of MemorySubmit: the prior the writer saw is not compared.
MemorySubmitOver(k, x, prior) ==
  LET heads == Current(x.by, x.scope, x.slug)
  IN IF Len(rows) < MaxRows
       THEN rows' = Stored(x, prior, heads) /\ Says(k, "accepted")
       ELSE Says(k, "refused") /\ UNCHANGED rows

\* memory_submit: the checks in their order, then the row replaces the head.
MemorySubmit(k, x, prior) ==
  LET heads == Current(x.by, x.scope, x.slug)
      refuse(why) == Says(k, why) /\ UNCHANGED rows
  IN CASE ~ready \/ ~IsWriter(k) -> refuse("refused")
       [] OTHER ->
     CASE WriterKey(k) # x.by -> refuse("mismatch")
       [] ~MayWrite(x.by, x.scope) -> refuse("not authorized")
       [] ~Valid(x) \/ ~WithinPolicy(x) -> refuse("invalid")
       [] heads # (IF prior = 0 THEN {} ELSE {prior}) -> refuse("prior mismatch")
       [] \E h \in heads : rows[h].made >= x.made -> refuse("not newer")
       [] x.status = "withdrawn" /\ \A h \in heads : rows[h].status = "withdrawn" -> refuse("nothing")
       [] Accepted(x.by) >= config.writers[Writer(k)].cap \/ Len(rows) >= MaxRows -> refuse("rate")
       [] OTHER -> rows' = Stored(x, prior, heads) /\ Says(k, "accepted")

\* The writer builds what it looked up, by a clock that may be behind, and
\* submits it on the connection it looked it up on.
Write(k) ==
  /\ conns[k].open /\ conns[k].bind.kind = "writer" /\ conns[k].saw # NoLookup
  /\ \E t \in {time, time - 1}, ttl \in Ttls, status \in {"active", "withdrawn"}, sup \in SUBSET DOMAIN rows :
       /\ Cardinality(sup) <= 1 /\ (status = "withdrawn" => sup = {} /\ ttl = 0)
       /\ ~(conns[k].saw.slug \in Workflows /\ status = "active" /\ ttl = 0)
       /\ MemorySubmit(k, Built(conns[k].sig[1].pk, conns[k].saw, status, t, ttl, sup), conns[k].saw.prior)
  /\ UNCHANGED <<config, ready, time, reloads>>

\* memory_query, memory_wake: what the reader may read now, all of it or what
\* came of one claim; or that it is not known.
Read(k) ==
  /\ conns[k].open /\ conns[k].bind.kind = "reader"
  /\ IF ~ready \/ config = Invalid \/ conns[k].bind.name \notin DOMAIN config.readers
       THEN Says(k, "unknown")
       ELSE LET pk == config.readers[conns[k].bind.name]
            IN \E S \in {View(pk), Digest(pk)} \cup {View(pk) \cap Lineage(pk, i) : i \in DOMAIN rows} :
                  Says(k, IF S = {} THEN "none" ELSE "found")
  /\ UNCHANGED <<config, ready, rows, time, reloads>>

\* SIGHUP: an invalid file fails closed; a valid one reconciles the store and
\* drops every connection whose binding changed.
Reload(c) ==
  /\ config' = (IF ValidConfig(c) THEN c ELSE Invalid)
  /\ ready' = ValidConfig(c)
  /\ conns' = [k \in Conns |->
       IF conns[k].open /\ (~ValidConfig(c) \/ Signature(c, conns[k].bind) # conns[k].sig)
         THEN Closed ELSE conns[k]]

Sighup ==
  /\ reloads < MaxReloads /\ reloads' = reloads + 1
  /\ \E c \in Configs : Reload(c)
  /\ UNCHANGED <<rows, time>>

\* The ledger could not be appended: nothing is served until a reload mends it.
Trouble == ready /\ ready' = FALSE /\ UNCHANGED <<config, rows, conns, time, reloads>>

TimePasses == time < MaxTime /\ time' = time + 1 /\ UNCHANGED <<config, ready, rows, conns, reloads>>

Serve(k) == Read(k) \/ Write(k) \/ \E s \in Scopes, slug \in Slugs : Lookup(k, s, slug)
ServiceNext == Sighup \/ Trouble \/ TimePasses \/ \E k \in Conns : Connect(k) \/ Leave(k) \/ Serve(k)
ServiceSpec == ServiceInit /\ [][ServiceNext]_serviceVars

-----------------------------------------------------------------------------
\* No update is lost: what an accepted claim replaced is what its writer had
\* looked up, although two sessions of a writer interleave (submit, lookupPrior).
NoLostUpdate ==
  \A i \in DOMAIN rows : rows[i].over = (IF rows[i].saw = 0 THEN {} ELSE {rows[i].saw})

=============================================================================
