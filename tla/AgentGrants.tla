---------------------------- MODULE AgentGrants ----------------------------
(***************************************************************************)
(* The agent's side of a delegation: the grants it holds (GrantStore), the *)
(* plaintext it caches (ScopeCache), and the tool calls and sweeps of      *)
(* app.ts that use both.  Calls run concurrently in one event loop: each   *)
(* action below is the code between two awaits of one call.                *)
(*                                                                         *)
(* A scope is one (publisher, d) address.  The delegator and the relays    *)
(* are the environment: they publish versions of a scope event, rotate its *)
(* key by publishing the next generation, and deliver grants and notices   *)
(* that never leave the relay.  The key of a generation is identified with *)
(* the generation, so a version decrypts under a grant exactly when the    *)
(* generations agree and the grant's key bytes are still there.            *)
(***************************************************************************)
EXTENDS Naturals, Sequences

CONSTANTS
  Scopes,        \* the scope addresses the agent can be granted
  Calls,         \* slots for concurrent tool calls, resource reads and sweeps
  CallOps,       \* CallOps[c]: the operations slot c may run
  AutoScopes,    \* scopes whose terms carry auto_relinquish
  RelayFaults,   \* what a query may do: "miss", "lag" and "throw"
  MaxGen,        \* bound on the delegator's rotations
  MaxPubs,       \* bound on the delegator's publications
  MaxRestarts    \* bound on restarts of the agent's process

Ops == {"read", "resource", "relinquish", "sweep", "list"}

ASSUME ScopesAssumption == Scopes # {} /\ AutoScopes \subseteq Scopes
ASSUME CallsAssumption  == CallOps \in [Calls -> SUBSET Ops]
ASSUME BoundsAssumption ==
  /\ MaxGen \in Nat \ {0} /\ MaxPubs \in Nat \ {0} /\ MaxRestarts \in Nat
  /\ RelayFaults \subseteq {"miss", "lag", "throw"}

VARIABLES
  \* The relays, written by the delegator.
  pubs,      \* pubs[s][n]: generation of the n-th version of scope s
  wraps,     \* wraps[s]: generations of s granted to this agent
  notices,   \* scopes a kind-441 notice was sent for
  lapsed,    \* lapsed[s]: generations whose grant is past its expires_at
  \* The agent's memory.
  store,     \* GrantStore.cache, per scope; NoGrant when it holds none
  index,     \* GrantStore.cache as a whole: "none", "fresh", "aged" (TTL)
  revGen,    \* GrantStore.revocations: generation revoked, 0 for none
  relGen,    \* GrantStore.relinquishments, likewise
  entry,     \* ScopeCache.entries
  calls,     \* the calls in flight
  runs,      \* restarts so far
  destroyed  \* history: highest generation ever relinquished, in any run

env   == <<pubs, wraps, notices, lapsed>>
marks == <<revGen, relGen>>
vars  == <<pubs, wraps, notices, lapsed, store, index, revGen, relGen,
           entry, calls, runs, destroyed>>

---------------------------------------------------------------------------
Gens  == 1..MaxGen
Gens0 == 0..MaxGen
Vers0 == 0..MaxPubs

\* A HeldGrant: generation 0 stands for no grant.
Held == [gen : Gens0, revoked : BOOLEAN, relinquished : BOOLEAN,
         keyed : BOOLEAN]
NoGrant == [gen |-> 0, revoked |-> FALSE, relinquished |-> FALSE,
            keyed |-> FALSE]

\* A CacheEntry: the version it holds (0 for none) and whether it is past TTL.
Entry   == [n : Vers0, old : BOOLEAN]
NoEntry == [n |-> 0, old |-> FALSE]

Pcs == {"idle", "listing", "unwrapping", "held", "fetching", "fetched",
        "got", "missing", "severance", "detecting", "cascading", "notifying"}

\* A call.  While cur holds, its grant is the very object in the store;
\* afterwards held is its private copy, which no later mark reaches.  shared
\* and data: its result is the object in the cache, and still has its payload.
Call == [pc : Pcs, op : Ops, s : Scopes, held : Held, cur : BOOLEAN,
         forced : BOOLEAN, wrapped : [Scopes -> Gens0], n : Vers0,
         shared : BOOLEAN, data : BOOLEAN, floor : Gens0]

IdleCall == [pc |-> "idle", op |-> "list", s |-> CHOOSE s \in Scopes : TRUE,
             held |-> NoGrant, cur |-> FALSE, forced |-> FALSE,
             wrapped |-> [s \in Scopes |-> 0], n |-> 0,
             shared |-> FALSE, data |-> FALSE, floor |-> 0]

Greater(a, b) == IF a >= b THEN a ELSE b

\* latestGrants: the newest generation of a set of grants, 0 when empty.
Latest(gens) ==
  IF gens = {} THEN 0 ELSE CHOOSE g \in gens : \A h \in gens : h <= g

\* Mutant of Marked: a record spares the very generation it names.
MarkedBelow(s, g, rev, rel) ==
  [g EXCEPT !.revoked      = @ \/ g.gen < rev[s],
            !.relinquished = @ \/ g.gen < rel[s],
            !.keyed        = @ /\ g.gen >= rev[s] /\ g.gen >= rel[s]]

\* GrantStore.applyRevocation: marks accumulate on an object, and its key
\* bytes are zeroed the moment a record covers its generation.
Marked(s, g, rev, rel) ==
  [g EXCEPT !.revoked      = @ \/ (g.gen > 0 /\ g.gen <= rev[s]),
            !.relinquished = @ \/ (g.gen > 0 /\ g.gen <= rel[s]),
            !.keyed        = @ /\ g.gen > rev[s] /\ g.gen > rel[s]]

\* A grant just unwrapped, its key bytes present (none for generation 0).
Unwrapped(g) ==
  [gen |-> g, revoked |-> FALSE, relinquished |-> FALSE, keyed |-> g > 0]

\* Mutant of Refreshed: a refresh forgets the records.
RefreshedBare(answer) == [s \in Scopes |-> Unwrapped(answer[s])]

\* The array a list() installs for the relay's answer, marks re-applied.
Refreshed(answer) ==
  [s \in Scopes |-> Marked(s, Unwrapped(answer[s]), revGen, relGen)]

MarkedStore(rev, rel) == [s \in Scopes |-> Marked(s, store[s], rev, rel)]

\* The grant object call c works with.
Obj(c) == IF calls[c].cur THEN store[calls[c].s] ELSE calls[c].held

\* What relay.query may answer for a scope event and for the agent's wraps.
EventAnswers(s) ==
  {Len(pubs[s])}
    \cup (IF "miss" \in RelayFaults THEN {0} ELSE {})
    \cup (IF "lag" \in RelayFaults THEN 1..Len(pubs[s]) ELSE {})
WrapAnswers(s) ==
  {Latest(wraps[s])}
    \cup (IF "miss" \in RelayFaults THEN {0} ELSE {})
    \cup (IF "lag" \in RelayFaults THEN wraps[s] ELSE {})

Expired(s, g) == g.gen \in lapsed[s]
Active(s, g)  == ~g.revoked /\ ~g.relinquished /\ ~Expired(s, g)

\* Mutant of SweepDue: the status test of the sweep the wrong way round.
SweepDueActive(s, g) == s \in AutoScopes /\ Active(s, g)

\* sweepAutoRelinquish's test of one held grant.
SweepDue(s, g) ==
  s \in AutoScopes /\ ~g.revoked /\ ~g.relinquished /\ Expired(s, g)

\* Both record maps at once: at or below this generation a grant is dead.
Dead(s) == Greater(revGen[s], relGen[s])

---------------------------------------------------------------------------
\* Effects on the calls in flight of what one call does to shared objects.

\* A result that shares the cache's object loses its payload when the object
\* is scrubbed; when the entry is only replaced the result keeps it.
Scrubbed(s) ==
  [d \in Calls |-> IF calls[d].s = s /\ calls[d].shared
                   THEN [calls[d] EXCEPT !.shared = FALSE, !.data = FALSE]
                   ELSE calls[d]]
Unshared(s) ==
  [d \in Calls |-> IF calls[d].s = s /\ calls[d].shared
                   THEN [calls[d] EXCEPT !.shared = FALSE]
                   ELSE calls[d]]

\* A new GrantStore.cache array: calls keep the objects they already took.
Detached ==
  [d \in Calls |-> IF calls[d].cur
                   THEN [calls[d] EXCEPT !.cur = FALSE,
                                         !.held = store[calls[d].s]]
                   ELSE calls[d]]

Finish(c) == calls' = [calls EXCEPT ![c] = IdleCall]

\* How GrantStore.find or list goes on once an array st is at hand: found;
\* or forced once more, unless the array is of this very millisecond.
Resolved(k, st) ==
  IF st[k.s].gen > 0 /\ k.op # "list"
  THEN {[k EXCEPT !.pc = "held", !.cur = TRUE, !.forced = FALSE]}
  ELSE {IdleCall} \cup
       (IF k.forced \/ k.op \in {"list", "sweep"} THEN {}
        ELSE {[k EXCEPT !.pc = "listing", !.forced = TRUE]})

---------------------------------------------------------------------------
Init ==
  /\ pubs    = [s \in Scopes |-> <<1>>]
  /\ wraps   = [s \in Scopes |-> {}]
  /\ notices = {}
  /\ lapsed  = [s \in Scopes |-> {}]
  /\ store   = [s \in Scopes |-> NoGrant]
  /\ index   = "none"
  /\ revGen  = [s \in Scopes |-> 0]
  /\ relGen  = [s \in Scopes |-> 0]
  /\ entry   = [s \in Scopes |-> NoEntry]
  /\ calls   = [c \in Calls |-> IdleCall]
  /\ runs    = 0
  /\ destroyed = relGen

---------------------------------------------------------------------------
(* The delegator and the clock.                                            *)

LastGen(s) == pubs[s][Len(pubs[s])]

\* publishScope: the same generation with a new payload, or a rotation.
Publish(s) ==
  /\ Len(pubs[s]) < MaxPubs
  /\ \E g \in {LastGen(s), LastGen(s) + 1} :
       g <= MaxGen /\ pubs' = [pubs EXCEPT ![s] = Append(@, g)]
  /\ UNCHANGED <<wraps, notices, lapsed, store, index, marks, entry, calls,
                 runs, destroyed>>

\* grantWithTerms: deliver the current generation's key to this agent.
Grant(s) ==
  /\ LastGen(s) \notin wraps[s]
  /\ wraps' = [wraps EXCEPT ![s] = @ \cup {LastGen(s)}]
  /\ UNCHANGED <<pubs, notices, lapsed, store, index, marks, entry, calls,
                 runs, destroyed>>

\* sendRevocationNotice: the console sends it after it rotated.
SendNotice(s) ==
  /\ LastGen(s) > 1 /\ s \notin notices
  /\ notices' = notices \cup {s}
  /\ UNCHANGED <<pubs, wraps, lapsed, store, index, marks, entry, calls,
                 runs, destroyed>>

\* expires_at of a delivered grant passes.
Lapse(s, g) ==
  /\ g \in wraps[s] \ lapsed[s]
  /\ lapsed' = [lapsed EXCEPT ![s] = @ \cup {g}]
  /\ UNCHANGED <<pubs, wraps, notices, store, index, marks, entry, calls,
                 runs, destroyed>>

\* The grant list or a cache entry outlives its 60 second TTL.
AgeIndex ==
  /\ index = "fresh"
  /\ index' = "aged"
  /\ UNCHANGED <<env, store, marks, entry, calls, runs, destroyed>>

AgeEntry(s) ==
  /\ entry[s].n > 0 /\ ~entry[s].old
  /\ entry' = [entry EXCEPT ![s].old = TRUE]
  /\ UNCHANGED <<env, store, index, marks, calls, runs, destroyed>>

\* Mutant of SweepEntry: the cutoff compared the wrong way round.
SweepYoungEntry(s) ==
  /\ entry[s].n > 0 /\ ~entry[s].old
  /\ entry' = [entry EXCEPT ![s] = NoEntry]
  /\ calls' = Scrubbed(s)
  /\ UNCHANGED <<env, store, index, marks, runs, destroyed>>

\* ScopeCache.sweep on its interval: scrub what is past TTL.
SweepEntry(s) ==
  /\ entry[s].n > 0 /\ entry[s].old
  /\ entry' = [entry EXCEPT ![s] = NoEntry]
  /\ calls' = Scrubbed(s)
  /\ UNCHANGED <<env, store, index, marks, runs, destroyed>>

---------------------------------------------------------------------------
(* GrantStore.list and find, the first await of every call.                *)

Begin(c, op, s) ==
  /\ calls[c].pc = "idle"
  /\ op \in CallOps[c]
  /\ LET k == [IdleCall EXCEPT !.op = op, !.s = s, !.floor = Dead(s)] IN
     \E r \in IF index = "fresh" THEN Resolved(k, store)
              ELSE {[k EXCEPT !.pc = "listing"]} :
       /\ r # IdleCall
       /\ calls' = [calls EXCEPT ![c] = r]
  /\ UNCHANGED <<env, store, index, marks, entry, runs, destroyed>>

\* The relay's answer is fixed here; unwrapping it takes further awaits.
ListAnswered(c) ==
  /\ calls[c].pc = "listing"
  /\ \E a \in [Scopes -> Gens0] :
       /\ \A s \in Scopes : a[s] \in WrapAnswers(s)
       /\ calls' = [calls EXCEPT ![c].pc = "unwrapping", ![c].wrapped = a]
  /\ UNCHANGED <<env, store, index, marks, entry, runs, destroyed>>

ListInstalled(c) ==
  /\ calls[c].pc = "unwrapping"
  /\ store' = Refreshed(calls[c].wrapped)
  /\ index' = "fresh"
  /\ \E r \in Resolved([calls[c] EXCEPT !.wrapped = IdleCall.wrapped], store') :
       calls' = [Detached EXCEPT ![c] = r]
  /\ UNCHANGED <<env, marks, entry, runs, destroyed>>

---------------------------------------------------------------------------
(* The handlers, once they hold a grant.                                   *)

\* A status check ends the call: an error answer, or nothing to do.
Refuse(c) ==
  LET k == calls[c]  g == Obj(c) IN
  /\ k.pc = "held"
  /\ \/ k.op = "read" /\ ~Active(k.s, g) /\ (g.relinquished => g.revoked)
     \/ k.op = "resource" /\ ~Active(k.s, g)
     \/ k.op = "relinquish" /\ (g.revoked \/ g.relinquished)
     \/ k.op = "sweep" /\ ~SweepDue(k.s, g)
  /\ Finish(c)
  /\ UNCHANGED <<env, store, index, marks, entry, runs, destroyed>>

\* scope_read of a relinquished grant asks whether the delegator rotated.
AskSeverance(c) ==
  LET g == Obj(c) IN
  /\ calls[c].pc = "held" /\ calls[c].op = "read"
  /\ g.relinquished /\ ~g.revoked
  /\ calls' = [calls EXCEPT ![c].pc = "severance"]
  /\ UNCHANGED <<env, store, index, marks, entry, runs, destroyed>>

SeveranceAnswered(c) ==
  LET k == calls[c] IN
  /\ k.pc = "severance"
  /\ \E n \in EventAnswers(k.s)
              \cup (IF "throw" \in RelayFaults THEN {0} ELSE {}) :
       IF n > 0 /\ pubs[k.s][n] > Obj(c).gen
       THEN calls' = [calls EXCEPT ![c].pc = "detecting"]
       ELSE Finish(c)
  /\ UNCHANGED <<env, store, index, marks, entry, runs, destroyed>>

\* ScopeCache.read: a fresh entry may answer; a max_age may decline it.
ReadHit(c) ==
  LET k == calls[c] IN
  /\ k.pc = "held" /\ k.op \in {"read", "resource"} /\ Active(k.s, Obj(c))
  /\ entry[k.s].n > 0 /\ ~entry[k.s].old
  /\ calls' = [calls EXCEPT ![c].pc = "got", ![c].n = entry[k.s].n,
                            ![c].shared = TRUE, ![c].data = TRUE]
  /\ UNCHANGED <<env, store, index, marks, entry, runs, destroyed>>

ReadFetch(c) ==
  LET k == calls[c] IN
  /\ k.pc = "held" /\ k.op \in {"read", "resource"} /\ Active(k.s, Obj(c))
  /\ k.op = "resource" => entry[k.s].n = 0 \/ entry[k.s].old
  /\ calls' = [calls EXCEPT ![c].pc = "fetching"]
  /\ UNCHANGED <<env, store, index, marks, entry, runs, destroyed>>

FetchAnswered(c) ==
  /\ calls[c].pc = "fetching"
  /\ \E n \in EventAnswers(calls[c].s) :
       calls' = [calls EXCEPT ![c].pc = "fetched", ![c].n = n]
  /\ UNCHANGED <<env, store, index, marks, entry, runs, destroyed>>

\* fetchScope: a version decrypts under its own generation's key only.
Decrypts(s, n, g) == n > 0 /\ g.keyed /\ pubs[s][n] = g.gen

\* fetchScope returns "ok": the plaintext is cached and answered.
FetchOk(c) ==
  LET k == calls[c] IN
  /\ k.pc = "fetched" /\ Decrypts(k.s, k.n, Obj(c))
  /\ entry' = [entry EXCEPT ![k.s] = [n |-> k.n, old |-> FALSE]]
  /\ calls' = [Unshared(k.s) EXCEPT
                 ![c] = [k EXCEPT !.pc = "got", !.shared = TRUE,
                                  !.data = TRUE]]
  /\ UNCHANGED <<env, store, index, marks, runs, destroyed>>

\* Mutant of FetchStale: the call answers without sealing the revocation.
FetchStaleUnsealed(c) ==
  LET k == calls[c] IN
  /\ k.pc = "fetched" /\ k.n > 0 /\ ~Decrypts(k.s, k.n, Obj(c))
  /\ entry' = [entry EXCEPT ![k.s] = NoEntry]
  /\ calls' = [Unshared(k.s) EXCEPT ![c] = IdleCall]
  /\ UNCHANGED <<env, store, index, marks, runs, destroyed>>

\* fetchScope returns "stale": a newer generation, or a MAC failure.
FetchStale(c) ==
  LET k == calls[c] IN
  /\ k.pc = "fetched" /\ k.n > 0 /\ ~Decrypts(k.s, k.n, Obj(c))
  /\ entry' = [entry EXCEPT ![k.s] = NoEntry]
  /\ calls' = [Unshared(k.s) EXCEPT ![c] = [k EXCEPT !.pc = "detecting"]]
  /\ UNCHANGED <<env, store, index, marks, runs, destroyed>>

\* fetchScope returns "missing": only the tool goes on to look for a notice.
FetchMissing(c) ==
  LET k == calls[c] IN
  /\ k.pc = "fetched" /\ k.n = 0
  /\ entry' = [entry EXCEPT ![k.s] = NoEntry]
  /\ calls' = [Unshared(k.s) EXCEPT
                 ![c] = IF k.op = "read" THEN [k EXCEPT !.pc = "missing"]
                        ELSE IdleCall]
  /\ UNCHANGED <<env, store, index, marks, runs, destroyed>>

\* Mutant of MissingResolved: every missing scope is taken for a revocation.
MissingSealed(c) ==
  /\ calls[c].pc = "missing"
  /\ calls' = [calls EXCEPT ![c].pc = "detecting"]
  /\ UNCHANGED <<env, store, index, marks, entry, runs, destroyed>>

\* findRevocationNotice for a missing scope: a notice makes it a revocation.
MissingResolved(c) ==
  LET s == calls[c].s IN
  /\ calls[c].pc = "missing"
  /\ \/ s \in notices /\ calls' = [calls EXCEPT ![c].pc = "detecting"]
     \/ (s \notin notices \/ RelayFaults # {}) /\ Finish(c)
  /\ UNCHANGED <<env, store, index, marks, entry, runs, destroyed>>

\* detectRevocation after its notice lookup: markRevoked and zeroize.
Detect(c) ==
  LET s == calls[c].s
      rev == [revGen EXCEPT ![s] = Greater(@, Obj(c).gen)] IN
  /\ calls[c].pc = "detecting"
  /\ revGen' = rev
  /\ store' = MarkedStore(rev, relGen)
  /\ entry' = [entry EXCEPT ![s] = NoEntry]
  /\ calls' = [Scrubbed(s) EXCEPT ![c].pc = "cascading"]
  /\ UNCHANGED <<env, index, relGen, runs, destroyed>>

\* relinquishGrant up to its notice: zeroize the cache, markRelinquished.
Relinquish(c) ==
  LET k == calls[c]  g == Obj(c)  s == k.s
      rel == [relGen EXCEPT ![s] = Greater(@, g.gen)] IN
  /\ k.pc = "held"
  /\ \/ k.op = "relinquish" /\ ~g.revoked /\ ~g.relinquished
     \/ k.op = "sweep" /\ SweepDue(s, g)
  /\ relGen' = rel
  /\ store' = MarkedStore(revGen, rel)
  /\ entry' = [entry EXCEPT ![s] = NoEntry]
  /\ calls' = [Scrubbed(s) EXCEPT ![c].pc = "notifying"]
  /\ destroyed' = [destroyed EXCEPT ![s] = Greater(@, g.gen)]
  /\ UNCHANGED <<env, index, revGen, runs>>

\* The handler returns: data, the revocation error after the cascade, or the
\* relinquishment once its notice was sent or failed.
Answer(c) ==
  /\ calls[c].pc \in {"got", "cascading", "notifying"}
  /\ Finish(c)
  /\ UNCHANGED <<env, store, index, marks, entry, runs, destroyed>>

\* relay.query rejects: list and read propagate it as the call's failure.
QueryThrows(c) ==
  /\ "throw" \in RelayFaults
  /\ calls[c].pc \in {"listing", "fetching"}
  /\ Finish(c)
  /\ UNCHANGED <<env, store, index, marks, entry, runs, destroyed>>

\* Teardown or a crash, and a new process: everything but the relay is lost.
Restart ==
  /\ runs < MaxRestarts
  /\ runs'   = runs + 1
  /\ store'  = [s \in Scopes |-> NoGrant]
  /\ index'  = "none"
  /\ revGen' = [s \in Scopes |-> 0]
  /\ relGen' = [s \in Scopes |-> 0]
  /\ entry'  = [s \in Scopes |-> NoEntry]
  /\ calls'  = [c \in Calls |-> IdleCall]
  /\ UNCHANGED <<env, destroyed>>

---------------------------------------------------------------------------
Delegator(s) == Publish(s) \/ Grant(s) \/ SendNotice(s)

Clock == \/ AgeIndex
         \/ \E s \in Scopes : AgeEntry(s) \/ SweepEntry(s)
         \/ \E s \in Scopes, g \in Gens : Lapse(s, g)

\* One step of a call between two awaits, whatever the relays do.
Proceed(c) ==
  \/ ListAnswered(c)  \/ ListInstalled(c) \/ Refuse(c)
  \/ AskSeverance(c)  \/ SeveranceAnswered(c)
  \/ ReadHit(c)       \/ ReadFetch(c)     \/ FetchAnswered(c)
  \/ FetchOk(c)       \/ FetchStale(c)    \/ FetchMissing(c)
  \/ MissingResolved(c) \/ Detect(c) \/ Relinquish(c) \/ Answer(c)

Next ==
  \/ \E s \in Scopes : Delegator(s)
  \/ Clock
  \/ \E c \in Calls, op \in Ops, s \in Scopes : Begin(c, op, s)
  \/ \E c \in Calls : Proceed(c) \/ QueryThrows(c)
  \/ Restart

Spec == Init /\ [][Next]_vars

\* The event loop runs every continuation; the relay answers or times out;
\* timers fire; the auto_relinquish interval keeps starting sweeps.
Fairness ==
  /\ \A c \in Calls : WF_vars(Proceed(c))
  /\ \A c \in Calls, s \in Scopes : WF_vars(Begin(c, "sweep", s))
  /\ \A s \in Scopes : WF_vars(AgeEntry(s)) /\ WF_vars(SweepEntry(s))
  /\ WF_vars(AgeIndex)

FairSpec == Spec /\ Fairness
---------------------------------------------------------------------------
(* What the agent's side promises.                                         *)

\* Every variable keeps its type.
TypeOK ==
  /\ pubs      \in [Scopes -> Seq(Gens)]
  /\ wraps     \in [Scopes -> SUBSET Gens]
  /\ notices   \subseteq Scopes
  /\ lapsed    \in [Scopes -> SUBSET Gens]
  /\ store     \in [Scopes -> Held]
  /\ index     \in {"none", "fresh", "aged"}
  /\ revGen    \in [Scopes -> Gens0]
  /\ relGen    \in [Scopes -> Gens0]
  /\ entry     \in [Scopes -> Entry]
  /\ calls     \in [Calls -> Call]
  /\ runs      \in 0..MaxRestarts
  /\ destroyed \in [Scopes -> Gens0]

\* "Re-materialized grants at or below the revoked generation are
\* re-decorated and their scope keys zeroized" (GrantStore): whatever list()
\* calls overlap whatever marks, the store's marks and key bytes agree with
\* the records it keeps.
StoreSealed ==
  \A s \in Scopes :
    LET g == store[s] IN
    g.gen > 0 => /\ g.revoked <=> g.gen <= revGen[s]
                 /\ g.relinquished <=> g.gen <= relGen[s]
                 /\ g.keyed <=> g.gen > Dead(s)

\* "...and never serve it" (GrantStore): a call that began after its
\* generation was recorded revoked or relinquished fetches and answers
\* nothing under it, whichever object it got hold of.
DeadNeverServed ==
  \A c \in Calls :
    calls[c].pc \in {"fetching", "fetched", "got"} => Obj(c).gen > calls[c].floor

\* While the process lives no refresh, however stale the relay's answer,
\* brings back the key of a generation the store knew to be dead.
DeadStaysDead ==
  [][ runs' = runs =>
        \A s \in Scopes :
          /\ Dead(s)' >= Dead(s)
          /\ store[s].gen > 0 /\ ~store[s].keyed /\ store'[s].keyed
               => store'[s].gen > store[s].gen ]_vars

\* The delegator's severance of generation g of scope s, as it really is:
\* a later generation was published.
RotatedPast(s, g) == \E n \in DOMAIN pubs[s] : pubs[s][n] > g

\* "Revocation is a verified fact about the key material" (grantStatus).  What
\* detectRevocation's record does mean: the key was rotated past, or a
\* notice for the scope exists, or this agent zeroed the key bytes itself
\* while a read held them, or a relay answered with an older version.
RevocationExplained ==
  \A s \in Scopes :
    revGen[s] > 0 => \/ RotatedPast(s, revGen[s])
                     \/ s \in notices /\ "miss" \in RelayFaults
                     \/ relGen[s] >= revGen[s]
                     \/ "lag" \in RelayFaults
                          /\ \E n \in DOMAIN pubs[s] : pubs[s][n] < revGen[s]

\* The sweeper's promise: a held grant with auto_relinquish does not keep
\* its key for ever once its term has passed.
LapsedIsRelinquished ==
  \A s \in AutoScopes :
    store[s].keyed /\ store[s].gen \in lapsed[s]
      ~> ~(store[s].keyed /\ store[s].gen \in lapsed[s])

\* What bounds a late write into the cache: the plaintext of a dead
\* generation leaves memory within the cache's TTL and sweep.
DeadPlaintextLeaves ==
  \A s \in Scopes :
    entry[s].n > 0 /\ pubs[s][entry[s].n] <= Dead(s)
      ~> ~(entry[s].n > 0 /\ pubs[s][entry[s].n] <= Dead(s))

\* Some read holds the newest version of s, straight from a relay.
FetchedNewest(s) ==
  \E c \in Calls : calls[c].pc = "fetched" /\ calls[c].s = s
                  /\ calls[c].n = Len(pubs[s])

\* A grant rotated past is found out by an agent that keeps reading the
\* scope, if now and again a relay answers with its newest version.
RotationDetected ==
  \A s \in Scopes :
    []<>FetchedNewest(s) =>
      (store[s].keyed /\ RotatedPast(s, store[s].gen)
         ~> ~(store[s].keyed /\ RotatedPast(s, store[s].gen)))
=============================================================================
