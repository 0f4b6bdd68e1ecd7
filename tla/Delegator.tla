----------------------------- MODULE Delegator -----------------------------
(***************************************************************************)
(* The delegator's side: console pages and the nvoy-ttl daemon, each with  *)
(* its own in-memory copy of the one replaceable Grant Index, issuing,     *)
(* widening, re-delivering and rotating scopes.  Every await of a flow is  *)
(* a step; publishes fail, loads miss, pages close between two steps.      *)
(*                                                                         *)
(* A writer runs one flow at a time: two flows of a page are two writers,  *)
(* except for the reload that can replace the index addGrantee is using.   *)
(* Keys are numbered as they are made; 0 stands for no key.                *)
(***************************************************************************)
EXTENDS Naturals, FiniteSets

CONSTANTS
  Scopes,      \* opaque scope ids
  Agents,      \* grantees
  Consoles,    \* console pages
  Daemons,     \* nvoy-ttl processes
  NoScope,     \* the scope of no flow
  Faults,      \* what relays may do: "refuse", "lost", "miss"
  LedgerFull,  \* whether the ledger is at LEDGER_CAP
  MaxKeys,     \* bound on scope keys ever made
  MaxOps,      \* bound on the delegator's clicks
  MaxCrashes   \* bound on closed pages and killed daemons

ASSUME FaultsAssumption ==
  Faults \subseteq {"refuse", "lost", "miss"} /\ LedgerFull \in BOOLEAN
ASSUME BoundsAssumption ==
  MaxKeys \in Nat /\ MaxOps \in Nat /\ MaxCrashes \in Nat
ASSUME ScopesAssumption == NoScope \notin Scopes

VARIABLES
  index,    \* index[s]: the issued entry of s in the relays' Grant Index
  scope,    \* scope[s]: the 30440 event of s on the relays
  wraps,    \* wraps[s][a]: scope keys delivered to a in kind-440 grants
  handed,   \* handed[s]: agents whose relinquish notice is on the relays
  due,      \* scopes whose granted expires_at has passed
  mem,      \* mem[w]: the index object writer w works on
  phase,    \* phase[w]: "down", "sweep" (in load), "open"
  plan,     \* plan[w][s]: grantees the current load still has to drop
  job,      \* job[w]: the flow w is in
  nextKey,  \* keys made so far, plus one
  ops,      \* clicks so far
  crashes,  \* crashes so far
  cut,      \* history: pairs dropped by a rotation that was saved while its
            \* event stood, and not granted since
  told,     \* history: pairs sent a 441 notice, not granted since
  fresh     \* history: pairs whose notice is newer than their last grant

vars == <<index, scope, wraps, handed, due, mem, phase, plan, job, nextKey,
          ops, crashes, cut, told, fresh>>
relays  == <<index, scope, wraps>>
history == <<cut, told, fresh>>
world   == <<handed, due, crashes>>
---------------------------------------------------------------------------
Writers == Consoles \cup Daemons
Keys    == 1..MaxKeys
Gens    == 0..MaxKeys

\* An issued entry, with the grantees whose granted event carries a deadline.
Record   == [gen : Gens, key : Keys \cup {0},
             grantees : SUBSET Agents, ttl : SUBSET Agents]
NoRecord == [gen |-> 0, key |-> 0, grantees |-> {}, ttl |-> {}]
Empty    == [s \in Scopes |-> NoRecord]

Job  == [pc : {"idle", "rotate", "grant", "tell"},
         why : {"none", "issue", "add", "redeliver", "expire", "revoke", "relinquish"},
         s : Scopes \cup {NoScope}, gen : Gens, key : Keys \cup {0},
         drop : SUBSET Agents, keep : SUBSET Agents, todo : SUBSET Agents,
         ttl : BOOLEAN, loose : BOOLEAN]
Idle == [pc |-> "idle", why |-> "none", s |-> NoScope, gen |-> 0, key |-> 0,
         drop |-> {}, keep |-> {}, todo |-> {}, ttl |-> FALSE, loose |-> FALSE]

\* What a publish may do: whether the event is stored, whether the call returns.
Outcome  == [stored : BOOLEAN, ok : BOOLEAN]
Outcomes == {[stored |-> TRUE, ok |-> TRUE]}
              \cup {[stored |-> FALSE, ok |-> FALSE] : f \in Faults \cap {"refuse"}}
              \cup {[stored |-> TRUE,  ok |-> FALSE] : f \in Faults \cap {"lost"}}

\* What loadGrantIndex may return: a query without an event is an empty index.
Loads == {index} \cup {Empty : f \in Faults \cap {"miss"}}

\* The grantees of s, in copy x, whose deadline has passed.
Lapsed(x, s) == IF s \in due THEN x[s].grantees \cap x[s].ttl ELSE {}

\* The grantee of s to drop at once: the only one, and it relinquished.
Handed(x, s) == IF \E a \in handed[s] : x[s].grantees = {a}
                THEN x[s].grantees ELSE {}

\* Mutant of Readable: a rotation over a copy older than the relay's.
ReadableIfOlder(x, s)  == /\ scope[s].gen # 0
                          /\ scope[s].gen < x[s].gen
                          /\ scope[s].key = x[s].key

\* Whether the key of copy x opens the event of s that the relays hold.
Readable(x, s) == /\ scope[s].gen # 0
                  /\ scope[s].gen <= x[s].gen
                  /\ scope[s].key = x[s].key

\* appendLedger: at the cap the oldest event goes, which may be the granted
\* event that held a grantee's terms.
Trimmed(ttl) == {ttl} \cup {ttl \ {a} : a \in IF LedgerFull THEN ttl ELSE {}}

Init ==
  /\ index   = Empty
  /\ scope   = [s \in Scopes |-> [gen |-> 0, key |-> 0]]
  /\ wraps   = [s \in Scopes |-> [a \in Agents |-> {}]]
  /\ handed  = [s \in Scopes |-> {}]
  /\ due     = {}
  /\ mem     = [w \in Writers |-> Empty]
  /\ phase   = [w \in Writers |-> "down"]
  /\ plan    = [w \in Writers |-> [s \in Scopes |-> {}]]
  /\ job     = [w \in Writers |-> Idle]
  /\ nextKey = 1
  /\ ops     = 0
  /\ crashes = 0
  /\ cut     = {}
  /\ told    = {}
  /\ fresh   = {}

---------------------------------------------------------------------------
(* Loading and sweeping: load() of main.mjs, sweep() of nvoy-ttl.mjs.      *)

Free(w) == job[w].pc = "idle"
Done(w) == plan[w] = [s \in Scopes |-> {}]

\* The index is fetched and the expiry plan is made from it at once.
Load(w) ==
  /\ Free(w) /\ Done(w) /\ phase[w] # "sweep"
  /\ \E x \in Loads :
       /\ mem'  = [mem EXCEPT ![w] = x]
       /\ plan' = [plan EXCEPT ![w] = [s \in Scopes |-> Lapsed(x, s)]]
  /\ phase' = [phase EXCEPT ![w] = "sweep"]
  /\ UNCHANGED <<relays, world, history, job, nextKey, ops>>

\* The expiry sweep is over: a console reads its notices and plans for sole
\* grantees that relinquished (or finds no notices); a daemon forgets all.
Swept(w) ==
  /\ Free(w) /\ Done(w) /\ phase[w] = "sweep"
  /\ \/ /\ w \in Consoles
        /\ phase' = [phase EXCEPT ![w] = "open"]
        /\ \/ plan' = [plan EXCEPT ![w] = [s \in Scopes |-> Handed(mem[w], s)]]
           \/ "miss" \in Faults /\ UNCHANGED plan
        /\ UNCHANGED mem
     \/ /\ w \in Daemons
        /\ phase' = [phase EXCEPT ![w] = "down"]
        /\ mem'   = [mem EXCEPT ![w] = Empty]
        /\ UNCHANGED plan
  /\ UNCHANGED <<relays, world, history, job, nextKey, ops>>

\* Mutant of Rotation: the dropped are granted the new key too.
RotationForAll(w, s, drop, why) ==
  /\ mem[w][s].gen # 0 /\ Readable(mem[w], s)
  /\ job' = [job EXCEPT ![w] =
       [Idle EXCEPT !.pc = "rotate", !.why = why, !.s = s,
          !.gen = mem[w][s].gen, !.drop = drop,
          !.keep = mem[w][s].grantees \ drop, !.todo = mem[w][s].grantees]]

\* rotateDropping up to its read-back: blind rotation is refused.
Rotation(w, s, drop, why) ==
  /\ mem[w][s].gen # 0
  /\ \/ /\ Readable(mem[w], s)
        /\ job' = [job EXCEPT ![w] =
             [Idle EXCEPT !.pc = "rotate", !.why = why, !.s = s,
                !.gen = mem[w][s].gen, !.drop = drop,
                !.keep = mem[w][s].grantees \ drop,
                !.todo = mem[w][s].grantees \ drop]]
     \/ /\ ~Readable(mem[w], s) \/ "miss" \in Faults
        /\ UNCHANGED job

\* The next item of the plan; one that cannot be read back is skipped.
SweepItem(w, s) ==
  /\ Free(w) /\ plan[w][s] # {}
  /\ Rotation(w, s, plan[w][s], IF phase[w] = "sweep" THEN "expire" ELSE "relinquish")
  /\ plan' = [plan EXCEPT ![w][s] = {}]
  /\ UNCHANGED <<relays, world, history, mem, phase, nextKey, ops>>
---------------------------------------------------------------------------
(* The delegator's clicks on an open page.                                 *)

Click(w) ==
  /\ w \in Consoles /\ phase[w] = "open" /\ Done(w) /\ Free(w)
  /\ ops < MaxOps /\ ops' = ops + 1

Begins(w) == UNCHANGED <<relays, world, history, mem, phase, plan, nextKey>>

\* dg-issue: a new opaque scope id, a first grantee, with or without a deadline.
Issue(w, s, a) ==
  /\ Click(w) /\ Begins(w)
  /\ scope[s].gen = 0 /\ \A v \in Writers : job[v].s # s
  /\ \E t \in BOOLEAN :
       job' = [job EXCEPT ![w] = [Idle EXCEPT !.pc = "rotate", !.why = "issue", !.s = s,
                                    !.keep = {a}, !.todo = {a}, !.ttl = t]]

\* addGrantee: the same key to one more agent, on the terms of row d.
AddGrantee(w, s, a, d) ==
  /\ Click(w) /\ Begins(w)
  /\ mem[w][s].gen # 0 /\ a \notin mem[w][s].grantees
  /\ d \in mem[w][s].grantees \cup mem[w][s].ttl
  /\ job' = [job EXCEPT ![w] =
       [Idle EXCEPT !.pc = "grant", !.why = "add", !.s = s,
          !.gen = mem[w][s].gen, !.key = mem[w][s].key,
          !.keep = {a}, !.todo = {a}, !.ttl = d \in mem[w][s].ttl]]

\* redeliver: only what the relays hold under the key of the index.  The
\* signed event that is rebroadcast is the one they have.
Redeliver(w, s, a) ==
  /\ Click(w) /\ Begins(w)
  /\ a \in mem[w][s].grantees /\ Readable(mem[w], s)
  /\ job' = [job EXCEPT ![w] =
       [Idle EXCEPT !.pc = "grant", !.why = "redeliver", !.s = s,
          !.gen = mem[w][s].gen, !.key = mem[w][s].key, !.todo = {a}]]

\* revoke: rotate past one grantee.
Revoke(w, s, a) ==
  /\ Click(w) /\ Begins(w)
  /\ a \in mem[w][s].grantees
  /\ Rotation(w, s, {a}, "revoke")

\* confirmRelinquish: the queued tap for a grantee that has company.
ConfirmRelinquish(w, s, a) ==
  /\ Click(w) /\ Begins(w)
  /\ a \in handed[s] /\ a \in mem[w][s].grantees
  /\ Rotation(w, s, {a}, "relinquish")

\* Enrolling or removing an agent saves whatever index the page holds.
Enrol(w) ==
  /\ Click(w)
  /\ \E o \in Outcomes : index' = IF o.stored THEN mem[w] ELSE index
  /\ UNCHANGED <<scope, wraps, world, history, mem, phase, plan, job, nextKey>>

\* load() from the expiry timer replaces the index under an issue or an add;
\* the entry addGrantee captured is then part of nothing.  (Only with an empty
\* plan: its sweep is otherwise a second flow, hence a second writer.)
Reload(w) ==
  /\ job[w].pc = "grant" /\ job[w].why \in {"issue", "add"}
  /\ \A s \in Scopes : Lapsed(index, s) = {} /\ Handed(index, s) = {}
  /\ mem' = [mem EXCEPT ![w] = index]
  /\ job' = [job EXCEPT ![w].loose = TRUE]
  /\ UNCHANGED <<relays, world, history, phase, plan, nextKey, ops>>
---------------------------------------------------------------------------
(* The steps of a flow.  A publish that throws ends it.                    *)

Proceeds(w, o, next) == job' = [job EXCEPT ![w] = IF o.ok THEN next ELSE Idle]

\* publishScope under a new key: the first publish of an issue or a rotation.
Rotate(w) ==
  LET j == job[w] IN
  /\ j.pc = "rotate" /\ nextKey <= MaxKeys
  /\ nextKey' = nextKey + 1
  /\ \E o \in Outcomes :
       /\ scope' = IF o.stored
                   THEN [scope EXCEPT ![j.s] = [gen |-> j.gen + 1, key |-> nextKey]]
                   ELSE scope
       /\ Proceeds(w, o, [j EXCEPT !.pc = "grant", !.gen = j.gen + 1, !.key = nextKey])
  /\ UNCHANGED <<index, wraps, world, history, mem, phase, plan, ops>>

\* grantWithTerms to one grantee; redeliver has nothing left to do after it.
GrantNext(w, a) ==
  LET j == job[w]
      anew == IF j.why \in {"issue", "add"} THEN {<<j.s, a>>} ELSE {} IN
  /\ j.pc = "grant" /\ a \in j.todo
  /\ \E o \in Outcomes :
       /\ wraps' = IF o.stored THEN [wraps EXCEPT ![j.s][a] = @ \cup {j.key}] ELSE wraps
       /\ Proceeds(w, o, IF j.why = "redeliver" THEN Idle ELSE [j EXCEPT !.todo = @ \ {a}])
       /\ cut'   = IF o.stored THEN cut \ anew ELSE cut
       /\ told'  = IF o.stored THEN told \ anew ELSE told
       /\ fresh' = IF o.stored THEN fresh \ anew ELSE fresh
  /\ UNCHANGED <<index, scope, world, mem, phase, plan, nextKey, ops>>

\* Mutants of Recorded: the dropped stay in the entry, and new terms replace
\* those of the others.
RecordedWithDropped(j, r, ttl) ==
  [gen |-> j.gen, key |-> j.key, grantees |-> r.grantees \cup j.keep, ttl |-> ttl]

RecordedTermsOfLast(j, r, ttl) ==
  [gen |-> j.gen, key |-> j.key,
   grantees |-> IF j.why = "add" THEN r.grantees \cup j.keep ELSE j.keep,
   ttl |-> IF j.ttl THEN j.keep ELSE IF j.why = "add" THEN {} ELSE ttl]

\* The entry the flow records, given what the index object has for its scope.
Recorded(j, r, ttl) ==
  CASE j.why = "add" /\ j.loose ->
         [r EXCEPT !.ttl = IF j.ttl THEN ttl \cup j.keep ELSE ttl \ j.keep]
    [] j.why = "add" /\ ~j.loose ->
         [r EXCEPT !.grantees = @ \cup j.keep,
                   !.ttl = IF j.ttl THEN ttl \cup j.keep ELSE ttl \ j.keep]
    [] OTHER ->
         [gen |-> j.gen, key |-> j.key, grantees |-> j.keep,
          ttl |-> IF j.ttl THEN ttl \cup j.keep ELSE ttl]

\* saveGrantIndex: the index object is changed before the publish is tried.
Save(w) ==
  LET j == job[w] IN
  /\ j.pc = "grant" /\ j.todo = {}
  /\ \E ttl \in Trimmed(mem[w][j.s].ttl) :
       mem' = [mem EXCEPT ![w][j.s] = Recorded(j, @, ttl)]
  /\ \E o \in Outcomes :
       /\ index' = IF o.stored THEN mem'[w] ELSE index
       /\ cut'   = IF o.ok /\ scope[j.s].key = j.key
                   THEN cut \cup {<<j.s, a>> : a \in j.drop} ELSE cut
       /\ \/ Proceeds(w, o, Idle)
          \/ j.why = "revoke" /\ Proceeds(w, o, [j EXCEPT !.pc = "tell"])
  /\ UNCHANGED <<scope, wraps, world, phase, plan, nextKey, ops, told, fresh>>

\* sendRevocationNotice, when the delegator gave a reason.
Tell(w) ==
  LET j == job[w] IN
  /\ j.pc = "tell"
  /\ job' = [job EXCEPT ![w] = Idle]
  /\ \E o \in Outcomes :
       told' = IF o.stored THEN told \cup {<<j.s, a>> : a \in j.drop} ELSE told
  /\ UNCHANGED <<relays, world, mem, phase, plan, nextKey, ops, cut, fresh>>

---------------------------------------------------------------------------
(* What happens around the writers.                                        *)

\* The page is closed or the process ends: nothing of it is kept.
Crash(w) ==
  /\ crashes < MaxCrashes /\ phase[w] # "down"
  /\ crashes' = crashes + 1
  /\ mem'   = [mem EXCEPT ![w] = Empty]
  /\ phase' = [phase EXCEPT ![w] = "down"]
  /\ plan'  = [plan EXCEPT ![w] = [s \in Scopes |-> {}]]
  /\ job'   = [job EXCEPT ![w] = Idle]
  /\ UNCHANGED <<relays, history, handed, due, nextKey, ops>>

\* The deadline of the grants of s passes.
Lapse(s) ==
  /\ s \notin due /\ scope[s].gen # 0
  /\ due' = due \cup {s}
  /\ UNCHANGED <<relays, history, handed, crashes, mem, phase, plan, job, nextKey, ops>>

\* An agent holding a grant relinquishes it: a notice to the delegator.
Relinquish(s, a) ==
  /\ wraps[s][a] # {} /\ <<s, a>> \notin fresh
  /\ handed' = [handed EXCEPT ![s] = @ \cup {a}]
  /\ fresh'  = fresh \cup {<<s, a>>}
  /\ UNCHANGED <<relays, due, crashes, mem, phase, plan, job, nextKey, ops, cut, told>>

Sweeping(w) == Load(w) \/ Swept(w) \/ \E s \in Scopes : SweepItem(w, s)
Working(w)  == \/ Rotate(w) \/ Save(w) \/ Tell(w)
               \/ \E a \in Agents : GrantNext(w, a)
Clicking(w) ==
  \/ Enrol(w)
  \/ \E s \in Scopes, a \in Agents :
       \/ Issue(w, s, a) \/ Redeliver(w, s, a)
       \/ Revoke(w, s, a) \/ ConfirmRelinquish(w, s, a)
       \/ \E d \in Agents : AddGrantee(w, s, a, d)

Next ==
  \/ \E w \in Writers : Sweeping(w) \/ Working(w) \/ Clicking(w) \/ Reload(w) \/ Crash(w)
  \/ \E s \in Scopes : Lapse(s) \/ \E a \in Agents : Relinquish(s, a)

Spec == Init /\ [][Next]_vars

\* Every page reloads at deadlines and after clicks, the daemon by interval,
\* and every await is answered or times out.
FairSpec == Spec /\ \A w \in Writers : WF_vars(Sweeping(w)) /\ WF_vars(Working(w))

---------------------------------------------------------------------------
(* Properties.                                                             *)

\* Every variable keeps its type; flows, plans and copies are well formed.
TypeOK ==
  /\ index  \in [Scopes -> Record]
  /\ scope  \in [Scopes -> [gen : Gens, key : Keys \cup {0}]]
  /\ wraps  \in [Scopes -> [Agents -> SUBSET (Keys \cup {0})]]
  /\ handed \in [Scopes -> SUBSET Agents]
  /\ due \subseteq Scopes
  /\ mem   \in [Writers -> [Scopes -> Record]]
  /\ phase \in [Writers -> {"down", "sweep", "open"}]
  /\ plan  \in [Writers -> [Scopes -> SUBSET Agents]]
  /\ job   \in [Writers -> Job]
  /\ nextKey \in 1..MaxKeys + 1
  /\ ops \in 0..MaxOps /\ crashes \in 0..MaxCrashes
  /\ cut \subseteq Scopes \X Agents
  /\ told \subseteq Scopes \X Agents
  /\ fresh \subseteq Scopes \X Agents

Severed(s, a) == scope[s].key \notin wraps[s][a]

\* The order of rotateWithTerms, addGrantee and their saves: an entry never
\* names a grantee that was not sent the entry's key, whatever failed half way
\* and however many pages and daemons work at once.
RecordedServed ==
  \A s \in Scopes :
    \A x \in {index} \cup {mem[w] : w \in Writers} :
      \A a \in x[s].grantees : x[s].key \in wraps[s][a]

\* revoke, expiry and relinquish through rotateDropping: an agent dropped by a
\* rotation that was saved cannot open the scope again until it is granted anew.
CutStaysCut == \A p \in cut : Severed(p[1], p[2])

\* A grantee that stays keeps its recorded deadline, as long as the ledger
\* that holds it is not full.
DeadlinesKept ==
  [][\A s \in Scopes : \A a \in index[s].grantees \cap index'[s].grantees :
       a \in index[s].ttl => a \in index'[s].ttl]_vars

\* expiryRotationPlan and the sweeps: a grantee past its deadline is cut.
LapsedIsCut ==
  \A s \in Scopes, a \in Agents :
    (a \in Lapsed(index, s)) ~> Severed(s, a)

=============================================================================
