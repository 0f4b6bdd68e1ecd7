-------------------------- MODULE Delegator_proofs --------------------------
(***************************************************************************)
(* Theorems of Delegator for every set of scopes, agents, pages and        *)
(* daemons, whatever the relays do and wherever a flow is cut short: its   *)
(* types, that an entry of the Grant Index never names a grantee that was  *)
(* not sent the entry's key, that those that stay keep their deadlines     *)
(* while the ledger is not full, and, for one writer at a time, that a     *)
(* grantee a saved rotation dropped stays dropped.                         *)
(***************************************************************************)
EXTENDS Delegator, TLAPS

\* Generations are counted by keys: each is below the next key.
GensBelow ==
  /\ \A s \in Scopes : scope[s].gen < nextKey /\ index[s].gen < nextKey
  /\ \A w \in Writers, s \in Scopes : mem[w][s].gen < nextKey
  /\ \A w \in Writers : job[w].gen < nextKey

\* A flow at work has a scope.
FlowsPlaced == \A w \in Writers : job[w].pc # "idle" => job[w].s \in Scopes

TypeInv == TypeOK /\ GensBelow /\ FlowsPlaced

\* The grantees of every entry of copy x were sent its key.
Served(x) == \A s \in Scopes : \A a \in x[s].grantees : x[s].key \in wraps[s][a]

\* A flow that will record keep has served all of it but todo; the key
\* addGrantee sends is the key of the entry it will extend.
FlowServed(w) ==
  /\ job[w].pc = "rotate" => job[w].keep = job[w].todo /\ job[w].why # "add"
  /\ job[w].pc = "grant" =>
       \A a \in job[w].keep \ job[w].todo : job[w].key \in wraps[job[w].s][a]
  /\ job[w].pc = "grant" /\ job[w].why = "add" /\ ~job[w].loose =>
       mem[w][job[w].s].key = job[w].key

ServeInv ==
  /\ Served(index)
  /\ \A w \in Writers : Served(mem[w]) /\ FlowServed(w)

Invariant == TypeInv /\ ServeInv
---------------------------------------------------------------------------
LEMMA IdleType == Idle \in Job /\ Idle.pc = "idle" /\ Idle.gen = 0
BY BoundsAssumption DEF Idle, Job, Gens

LEMMA EmptyType ==
  /\ Empty \in [Scopes -> Record]
  /\ \A s \in Scopes : Empty[s].gen = 0 /\ Empty[s].grantees = {}
BY BoundsAssumption DEF Empty, NoRecord, Record, Gens

LEMMA TypeInit == Init => TypeInv
BY IdleType, EmptyType, BoundsAssumption, FaultsAssumption
   DEF Init, TypeInv, TypeOK, GensBelow, FlowsPlaced, Gens, Keys


\* The entries, copies and flows a step leaves alone stay as they were typed;
\* the steps only say what the others become.
LEMMA RotationType ==
  ASSUME TypeInv, NEW w \in Writers, NEW s \in Scopes,
         NEW drop \in SUBSET Agents, NEW why \in {"expire", "revoke", "relinquish"},
         Rotation(w, s, drop, why)
  PROVE  /\ job' \in [Writers -> Job]
         /\ \A v \in Writers : job'[v].gen < nextKey
         /\ \A v \in Writers : job'[v].pc # "idle" => job'[v].s \in Scopes
<1>1. CASE UNCHANGED job
  BY <1>1 DEF TypeInv, TypeOK, GensBelow, FlowsPlaced
<1>2. CASE job' = [job EXCEPT ![w] =
             [Idle EXCEPT !.pc = "rotate", !.why = why, !.s = s,
                !.gen = mem[w][s].gen, !.drop = drop,
                !.keep = mem[w][s].grantees \ drop,
                !.todo = mem[w][s].grantees \ drop]]
  <2>1. mem[w][s] \in Record /\ mem[w][s].gen < nextKey
    BY DEF TypeInv, TypeOK, GensBelow
  <2> DEFINE j == [Idle EXCEPT !.pc = "rotate", !.why = why, !.s = s,
                !.gen = mem[w][s].gen, !.drop = drop,
                !.keep = mem[w][s].grantees \ drop,
                !.todo = mem[w][s].grantees \ drop]
  <2>2. j \in Job /\ j.gen = mem[w][s].gen /\ j.s = s
    BY <2>1, IdleType DEF Idle, Job, Record, Gens
  <2>3. job' = [job EXCEPT ![w] = j] /\ job \in [Writers -> Job]
    BY <1>2 DEF TypeInv, TypeOK
  <2> HIDE DEF j
  <2>4. QED
    BY <2>1, <2>2, <2>3 DEF TypeInv, GensBelow, FlowsPlaced
<1>3. QED
  BY <1>1, <1>2 DEF Rotation

\* What a save records is an entry, of a generation already counted.
LEMMA RecordedType ==
  ASSUME NEW j \in Job, NEW r \in Record, NEW ttl \in SUBSET Agents
  PROVE  /\ Recorded(j, r, ttl) \in Record
         /\ Recorded(j, r, ttl).gen \in {j.gen, r.gen}
<1>1. CASE j.why = "add"
  BY <1>1 DEF Recorded, Record, Job
<1>2. CASE j.why # "add"
  BY <1>2 DEF Recorded, Record, Job
<1>3. QED
  BY <1>1, <1>2

\* One flow replaced by a typed one.
LEMMA FlowType ==
  ASSUME TypeInv, NEW w \in Writers, NEW j \in Job,
         j.gen < nextKey, j.pc # "idle" => j.s \in Scopes,
         job' = [job EXCEPT ![w] = j]
  PROVE  /\ job' \in [Writers -> Job]
         /\ \A v \in Writers : job'[v].gen < nextKey
         /\ \A v \in Writers : job'[v].pc # "idle" => job'[v].s \in Scopes
BY DEF TypeInv, TypeOK, GensBelow, FlowsPlaced

---------------------------------------------------------------------------
(* Types are kept.                                                         *)

\* What every step that leaves the relays and the copies alone has to show.
LEMMA TypeFrame ==
  ASSUME TypeInv,
         job' \in [Writers -> Job],
         \A v \in Writers : job'[v].gen < nextKey',
         \A v \in Writers : job'[v].pc # "idle" => job'[v].s \in Scopes,
         plan' \in [Writers -> [Scopes -> SUBSET Agents]],
         phase' \in [Writers -> {"down", "sweep", "open"}],
         mem' \in [Writers -> [Scopes -> Record]],
         \A v \in Writers, s \in Scopes : mem'[v][s].gen < nextKey',
         ops' \in 0..MaxOps,
         UNCHANGED <<relays, world, history, nextKey>>
  PROVE  TypeInv'
BY DEF TypeInv, TypeOK, GensBelow, FlowsPlaced, relays, world, history

\* The plans made from a copy drop grantees only.
LEMMA PlansType ==
  ASSUME NEW x \in [Scopes -> Record]
  PROVE  /\ [s \in Scopes |-> Lapsed(x, s)] \in [Scopes -> SUBSET Agents]
         /\ [s \in Scopes |-> Handed(x, s)] \in [Scopes -> SUBSET Agents]
BY DEF Lapsed, Handed, Record

LEMMA LoadsType ==
  ASSUME TypeInv, NEW x \in Loads
  PROVE  x \in [Scopes -> Record] /\ \A s \in Scopes : x[s].gen < nextKey
BY EmptyType DEF Loads, TypeInv, TypeOK, GensBelow

LEMMA TypeLoad ==
  ASSUME TypeInv, NEW w \in Writers, Load(w)
  PROVE  TypeInv'
<1>1. PICK x \in Loads :
        /\ mem'  = [mem EXCEPT ![w] = x]
        /\ plan' = [plan EXCEPT ![w] = [s \in Scopes |-> Lapsed(x, s)]]
  BY DEF Load
<1>2. x \in [Scopes -> Record] /\ \A s \in Scopes : x[s].gen < nextKey
  BY LoadsType
<1>3. plan' \in [Writers -> [Scopes -> SUBSET Agents]]
  BY <1>1, <1>2, PlansType DEF TypeInv, TypeOK
<1>4. /\ mem' \in [Writers -> [Scopes -> Record]]
      /\ \A v \in Writers, s \in Scopes : mem'[v][s].gen < nextKey
  BY <1>1, <1>2 DEF TypeInv, TypeOK, GensBelow
<1>5. phase' \in [Writers -> {"down", "sweep", "open"}] /\ UNCHANGED <<job, ops>>
      /\ UNCHANGED <<relays, world, history, nextKey>>
  BY DEF Load, TypeInv, TypeOK
<1>6. QED
  BY <1>3, <1>4, <1>5, TypeFrame DEF TypeInv, TypeOK, GensBelow, FlowsPlaced

LEMMA TypeSwept ==
  ASSUME TypeInv, NEW w \in Writers, Swept(w)
  PROVE  TypeInv'
<1>1. /\ mem' \in [Writers -> [Scopes -> Record]]
      /\ \A v \in Writers, s \in Scopes : mem'[v][s].gen < nextKey
  <2>1. CASE UNCHANGED mem
    BY <2>1 DEF TypeInv, TypeOK, GensBelow
  <2>2. CASE mem' = [mem EXCEPT ![w] = Empty]
    <3>1. Empty \in [Scopes -> Record] /\ \A s \in Scopes : Empty[s].gen < nextKey
      BY EmptyType DEF TypeInv, TypeOK
    <3>2. QED
      BY <2>2, <3>1 DEF TypeInv, TypeOK, GensBelow
  <2>3. QED
    BY <2>1, <2>2 DEF Swept
<1>2. plan' \in [Writers -> [Scopes -> SUBSET Agents]]
  <2>1. mem[w] \in [Scopes -> Record]
    BY DEF TypeInv, TypeOK
  <2>2. QED
    BY <2>1, PlansType DEF Swept, TypeInv, TypeOK
<1>3. phase' \in [Writers -> {"down", "sweep", "open"}] /\ UNCHANGED <<job, ops>>
      /\ UNCHANGED <<relays, world, history, nextKey>>
  BY DEF Swept, TypeInv, TypeOK
<1>4. QED
  BY <1>1, <1>2, <1>3, TypeFrame DEF TypeInv, TypeOK, GensBelow, FlowsPlaced

LEMMA TypeSweepItem ==
  ASSUME TypeInv, NEW w \in Writers, NEW s \in Scopes, SweepItem(w, s)
  PROVE  TypeInv'
<1> DEFINE why == IF phase[w] = "sweep" THEN "expire" ELSE "relinquish"
<1>1. plan[w][s] \in SUBSET Agents /\ why \in {"expire", "revoke", "relinquish"}
  BY DEF TypeInv, TypeOK
<1>2. Rotation(w, s, plan[w][s], why)
  BY DEF SweepItem
<1> HIDE DEF why
<1>3. /\ job' \in [Writers -> Job]
      /\ \A v \in Writers : job'[v].gen < nextKey
      /\ \A v \in Writers : job'[v].pc # "idle" => job'[v].s \in Scopes
  BY <1>1, <1>2, RotationType
<1>4. plan' \in [Writers -> [Scopes -> SUBSET Agents]]
  BY DEF SweepItem, TypeInv, TypeOK
<1>5. UNCHANGED <<mem, phase, ops>> /\ UNCHANGED <<relays, world, history, nextKey>>
  BY DEF SweepItem
<1>6. QED
  BY <1>3, <1>4, <1>5, TypeFrame DEF TypeInv, TypeOK, GensBelow

\* A click that begins a flow.
LEMMA TypeClick ==
  ASSUME TypeInv, NEW w \in Writers, Click(w), Begins(w),
         job' \in [Writers -> Job],
         \A v \in Writers : job'[v].gen < nextKey,
         \A v \in Writers : job'[v].pc # "idle" => job'[v].s \in Scopes
  PROVE  TypeInv'
<1>1. ops' \in 0..MaxOps
  BY BoundsAssumption DEF Click, TypeInv, TypeOK
<1>2. UNCHANGED <<mem, phase, plan>> /\ UNCHANGED <<relays, world, history, nextKey>>
  BY DEF Begins
<1>3. QED
  BY <1>1, <1>2, TypeFrame DEF TypeInv, TypeOK, GensBelow


LEMMA TypeIssue ==
  ASSUME TypeInv, NEW w \in Writers, NEW s \in Scopes, NEW a \in Agents, Issue(w, s, a)
  PROVE  TypeInv'
<1>1. PICK t \in BOOLEAN :
        job' = [job EXCEPT ![w] = [Idle EXCEPT !.pc = "rotate", !.why = "issue", !.s = s,
                                    !.keep = {a}, !.todo = {a}, !.ttl = t]]
  BY DEF Issue
<1> DEFINE j == [Idle EXCEPT !.pc = "rotate", !.why = "issue", !.s = s,
                   !.keep = {a}, !.todo = {a}, !.ttl = t]
<1>2. j \in Job /\ j.gen = 0 /\ j.s = s
  BY IdleType DEF Idle, Job
<1>3. job' = [job EXCEPT ![w] = j] /\ Click(w) /\ Begins(w)
  BY <1>1 DEF Issue
<1>4. 0 < nextKey
  BY BoundsAssumption DEF TypeInv, TypeOK
<1> HIDE DEF j
<1>5. QED
  BY <1>2, <1>3, <1>4, FlowType, TypeClick

LEMMA TypeAddGrantee ==
  ASSUME TypeInv, NEW w \in Writers, NEW s \in Scopes, NEW a \in Agents, NEW d \in Agents,
         AddGrantee(w, s, a, d)
  PROVE  TypeInv'
<1> DEFINE j == [Idle EXCEPT !.pc = "grant", !.why = "add", !.s = s,
                   !.gen = mem[w][s].gen, !.key = mem[w][s].key,
                   !.keep = {a}, !.todo = {a}, !.ttl = d \in mem[w][s].ttl]
<1>1. mem[w][s] \in Record /\ mem[w][s].gen < nextKey
  BY DEF TypeInv, TypeOK, GensBelow
<1>2. (d \in mem[w][s].ttl) \in BOOLEAN
  OBVIOUS
<1>3. j \in Job /\ j.gen < nextKey /\ j.s = s
  BY <1>1, <1>2, IdleType DEF Idle, Job, Record
<1>4. job' = [job EXCEPT ![w] = j] /\ Click(w) /\ Begins(w)
  BY DEF AddGrantee
<1> HIDE DEF j
<1>5. QED
  BY <1>3, <1>4, FlowType, TypeClick

LEMMA TypeRedeliver ==
  ASSUME TypeInv, NEW w \in Writers, NEW s \in Scopes, NEW a \in Agents, Redeliver(w, s, a)
  PROVE  TypeInv'
<1> DEFINE j == [Idle EXCEPT !.pc = "grant", !.why = "redeliver", !.s = s,
                   !.gen = mem[w][s].gen, !.key = mem[w][s].key, !.todo = {a}]
<1>1. mem[w][s] \in Record /\ mem[w][s].gen < nextKey
  BY DEF TypeInv, TypeOK, GensBelow
<1>2. j \in Job /\ j.gen < nextKey /\ j.s = s
  BY <1>1, IdleType DEF Idle, Job, Record
<1>3. job' = [job EXCEPT ![w] = j] /\ Click(w) /\ Begins(w)
  BY DEF Redeliver
<1> HIDE DEF j
<1>4. QED
  BY <1>2, <1>3, FlowType, TypeClick

LEMMA TypeRevoke ==
  ASSUME TypeInv, NEW w \in Writers, NEW s \in Scopes, NEW a \in Agents,
         Revoke(w, s, a) \/ ConfirmRelinquish(w, s, a)
  PROVE  TypeInv'
<1>1. Click(w) /\ Begins(w)
  BY DEF Revoke, ConfirmRelinquish
<1>2. \E why \in {"expire", "revoke", "relinquish"} : Rotation(w, s, {a}, why)
  BY DEF Revoke, ConfirmRelinquish
<1>3. PICK why \in {"expire", "revoke", "relinquish"} : Rotation(w, s, {a}, why)
  BY <1>2
<1>4. {a} \in SUBSET Agents
  OBVIOUS
<1>5. /\ job' \in [Writers -> Job]
      /\ \A v \in Writers : job'[v].gen < nextKey
      /\ \A v \in Writers : job'[v].pc # "idle" => job'[v].s \in Scopes
  BY <1>3, <1>4, RotationType
<1>6. QED
  BY <1>1, <1>5, TypeClick

LEMMA TypeEnrol ==
  ASSUME TypeInv, NEW w \in Writers, Enrol(w)
  PROVE  TypeInv'
<1>1. index' \in {mem[w], index}
  BY DEF Enrol
<1>2. index' \in [Scopes -> Record] /\ \A s \in Scopes : index'[s].gen < nextKey
  BY <1>1 DEF TypeInv, TypeOK, GensBelow
<1>3. ops' \in 0..MaxOps
  BY BoundsAssumption DEF Enrol, Click, TypeInv, TypeOK
<1>4. UNCHANGED <<scope, wraps, world, history, mem, phase, plan, job, nextKey>>
  BY DEF Enrol
<1>5. QED
  BY <1>2, <1>3, <1>4 DEF TypeInv, TypeOK, GensBelow, FlowsPlaced, world, history

LEMMA TypeReload ==
  ASSUME TypeInv, NEW w \in Writers, Reload(w)
  PROVE  TypeInv'
<1>0. PICK j \in Job : j = job[w]
  BY DEF TypeInv, TypeOK
<1> DEFINE k == [j EXCEPT !.loose = TRUE]
<1>a. k \in Job /\ k.gen = j.gen /\ k.s = j.s /\ k.pc = j.pc
  BY DEF Job
<1>b. job' = [job EXCEPT ![w] = k]
  BY <1>0 DEF Reload
<1> HIDE DEF k
<1>1. /\ job' \in [Writers -> Job]
      /\ \A v \in Writers : job'[v].gen = job[v].gen /\ job'[v].s = job[v].s
                              /\ job'[v].pc = job[v].pc
  BY <1>0, <1>a, <1>b DEF TypeInv, TypeOK
<1>2. /\ mem' \in [Writers -> [Scopes -> Record]]
      /\ \A v \in Writers, s \in Scopes : mem'[v][s].gen < nextKey
  BY DEF Reload, TypeInv, TypeOK, GensBelow
<1>3. UNCHANGED <<phase, plan, ops>> /\ UNCHANGED <<relays, world, history, nextKey>>
  BY DEF Reload
<1>4. QED
  BY <1>1, <1>2, <1>3, TypeFrame DEF TypeInv, TypeOK, GensBelow, FlowsPlaced
---------------------------------------------------------------------------
LEMMA TypeRotate ==
  ASSUME TypeInv, NEW w \in Writers, Rotate(w)
  PROVE  TypeInv'
<1>1. PICK j \in Job : j = job[w]
  BY DEF TypeInv, TypeOK
<1> DEFINE g == [j EXCEPT !.pc = "grant", !.gen = j.gen + 1, !.key = nextKey]
<1>a. /\ nextKey \in 1..MaxKeys /\ nextKey' = nextKey + 1 /\ nextKey' \in 1..MaxKeys + 1
  BY BoundsAssumption DEF Rotate, TypeInv, TypeOK
<1>b. j.gen \in 0..MaxKeys /\ j.gen < nextKey
  BY <1>1 DEF TypeInv, GensBelow, Job, Gens
<1>c. j.pc = "rotate" /\ j.s \in Scopes
  BY <1>1 DEF Rotate, TypeInv, FlowsPlaced
<1>2. /\ j.gen \in Nat /\ j.gen + 1 \in Gens /\ j.gen + 1 < nextKey'
      /\ nextKey \in Keys
  BY <1>a, <1>b, BoundsAssumption DEF Gens, Keys
<1>3. g \in Job /\ g.gen = j.gen + 1 /\ g.s = j.s
  BY <1>2 DEF Job
<1>4. PICK o \in Outcomes :
        /\ scope' = IF o.stored
                    THEN [scope EXCEPT ![j.s] = [gen |-> j.gen + 1, key |-> nextKey]]
                    ELSE scope
        /\ job' = [job EXCEPT ![w] = IF o.ok THEN g ELSE Idle]
  BY <1>1 DEF Rotate, Proceeds
<1> HIDE DEF g
<1>5. /\ scope' \in [Scopes -> [gen : Gens, key : Keys \cup {0}]]
      /\ \A s \in Scopes : scope'[s].gen < nextKey'
  <2>1. [gen |-> j.gen + 1, key |-> nextKey] \in [gen : Gens, key : Keys \cup {0}]
    BY <1>2
  <2>2. \A s \in Scopes : scope[s].gen \in Nat /\ scope[s].gen < nextKey
    BY DEF TypeInv, TypeOK, GensBelow, Gens
  <2>3. PICK e \in [gen : Gens, key : Keys \cup {0}] :
          e = [gen |-> j.gen + 1, key |-> nextKey]
    BY <2>1
  <2>4. e.gen = j.gen + 1 /\ \A s \in Scopes : scope[s].gen < nextKey'
    BY <1>a, <2>2, <2>3
  <2>5. scope' \in {scope, [scope EXCEPT ![j.s] = e]}
    BY <1>4, <2>3
  <2>6. CASE scope' = scope
    BY <2>4, <2>6 DEF TypeInv, TypeOK
  <2>7. CASE scope' = [scope EXCEPT ![j.s] = e]
    BY <1>2, <2>4, <2>7 DEF TypeInv, TypeOK
  <2>8. QED
    BY <2>5, <2>6, <2>7
<1>6. /\ job' \in [Writers -> Job]
      /\ \A v \in Writers : job'[v].gen < nextKey'
      /\ \A v \in Writers : job'[v].pc # "idle" => job'[v].s \in Scopes
  <2>1. PICK k \in Job : k = (IF o.ok THEN g ELSE Idle)
    BY <1>3, IdleType
  <2>2. k.gen < nextKey' /\ (k.pc # "idle" => k.s \in Scopes)
    BY <1>a, <1>c, <1>2, <1>3, <2>1, IdleType
  <2>3. \A v \in Writers : job[v].gen < nextKey'
    BY <1>a DEF TypeInv, TypeOK, GensBelow, Job, Gens
  <2>4. job' = [job EXCEPT ![w] = k]
    BY <1>4, <2>1
  <2>5. QED
    BY <2>2, <2>3, <2>4 DEF TypeInv, TypeOK, FlowsPlaced
<1>7. \A s \in Scopes :
        index[s].gen < nextKey' /\ \A v \in Writers : mem[v][s].gen < nextKey'
  BY <1>a DEF TypeInv, TypeOK, GensBelow, Record, Gens
<1>8. UNCHANGED <<index, wraps, world, history, mem, phase, plan, ops>>
  BY DEF Rotate
<1>9. QED
  BY <1>a, <1>5, <1>6, <1>7, <1>8 DEF TypeInv, TypeOK, GensBelow, FlowsPlaced, world, history


LEMMA TypeGrantNext ==
  ASSUME TypeInv, NEW w \in Writers, NEW a \in Agents, GrantNext(w, a)
  PROVE  TypeInv'
<1>1. PICK j \in Job : j = job[w]
  BY DEF TypeInv, TypeOK
<1> DEFINE g == [j EXCEPT !.todo = @ \ {a}]
<1>2. j.s \in Scopes /\ j.gen < nextKey /\ j.pc = "grant"
  BY <1>1 DEF GrantNext, TypeInv, GensBelow, FlowsPlaced
<1>3. g \in Job /\ g.gen = j.gen /\ g.s = j.s
  BY DEF Job
<1> DEFINE anew == IF j.why \in {"issue", "add"} THEN {<<j.s, a>>} ELSE {}
<1>4. PICK o \in Outcomes :
        /\ wraps' = IF o.stored THEN [wraps EXCEPT ![j.s][a] = @ \cup {j.key}] ELSE wraps
        /\ job' = [job EXCEPT ![w] =
             IF o.ok THEN (IF j.why = "redeliver" THEN Idle ELSE g) ELSE Idle]
        /\ cut'   = IF o.stored THEN cut \ anew ELSE cut
        /\ told'  = IF o.stored THEN told \ anew ELSE told
        /\ fresh' = IF o.stored THEN fresh \ anew ELSE fresh
  BY <1>1 DEF GrantNext, Proceeds
<1>5. cut' \subseteq cut /\ told' \subseteq told /\ fresh' \subseteq fresh
  BY <1>4
<1> HIDE DEF g, anew
<1>6. wraps' \in [Scopes -> [Agents -> SUBSET (Keys \cup {0})]]
  <2>1. j.key \in Keys \cup {0}
    BY DEF Job
  <2>2. QED
    BY <1>2, <1>4, <2>1 DEF TypeInv, TypeOK
<1>7. PICK k \in Job : k \in {g, Idle} /\ job' = [job EXCEPT ![w] = k]
  BY <1>3, <1>4, IdleType
<1>8. k.gen < nextKey /\ (k.pc # "idle" => k.s \in Scopes)
  BY <1>2, <1>3, <1>7, IdleType, BoundsAssumption DEF TypeInv, TypeOK
<1>9. /\ job' \in [Writers -> Job]
      /\ \A v \in Writers : job'[v].gen < nextKey
      /\ \A v \in Writers : job'[v].pc # "idle" => job'[v].s \in Scopes
  BY <1>7, <1>8, FlowType
<1>10. UNCHANGED <<index, scope, world, mem, phase, plan, nextKey, ops>>
  BY DEF GrantNext
<1>11. QED
  BY <1>5, <1>6, <1>9, <1>10 DEF TypeInv, TypeOK, GensBelow, FlowsPlaced, world

LEMMA TypeSave ==
  ASSUME TypeInv, NEW w \in Writers, Save(w)
  PROVE  TypeInv'
<1>1. PICK j \in Job : j = job[w]
  BY DEF TypeInv, TypeOK
<1>2. j.s \in Scopes /\ j.gen < nextKey
  BY <1>1 DEF Save, TypeInv, GensBelow, FlowsPlaced
<1>3. PICK r \in Record : r = mem[w][j.s]
  BY <1>2 DEF TypeInv, TypeOK
<1>4. r.gen < nextKey
  BY <1>2, <1>3 DEF TypeInv, GensBelow
<1>5. PICK ttl \in Trimmed(r.ttl) : mem' = [mem EXCEPT ![w][j.s] = Recorded(j, r, ttl)]
  BY <1>1, <1>2, <1>3 DEF Save, TypeInv, TypeOK
<1>6. ttl \in SUBSET Agents
  BY <1>5 DEF Trimmed, Record
<1>7. PICK e \in Record : e = Recorded(j, r, ttl) /\ e.gen < nextKey
  BY <1>2, <1>4, <1>6, RecordedType
<1>8. /\ mem' \in [Writers -> [Scopes -> Record]]
      /\ \A v \in Writers, s \in Scopes : mem'[v][s].gen < nextKey
  <2>1. mem' = [mem EXCEPT ![w][j.s] = e]
    BY <1>5, <1>7
  <2>2. QED
    BY <1>2, <1>7, <2>1 DEF TypeInv, TypeOK, GensBelow
<1>9. index' \in {mem'[w], index}
  BY DEF Save
<1>10. index' \in [Scopes -> Record] /\ \A s \in Scopes : index'[s].gen < nextKey
  BY <1>8, <1>9 DEF TypeInv, TypeOK, GensBelow
<1>11. cut' \subseteq Scopes \X Agents
  <2>1. cut' \subseteq cut \cup {<<j.s, a>> : a \in j.drop}
    BY <1>1 DEF Save
  <2>2. j.drop \subseteq Agents
    BY DEF Job
  <2>3. QED
    BY <1>2, <2>1, <2>2 DEF TypeInv, TypeOK
<1>12. /\ job' \in [Writers -> Job]
       /\ \A v \in Writers : job'[v].gen < nextKey
       /\ \A v \in Writers : job'[v].pc # "idle" => job'[v].s \in Scopes
  <2> DEFINE g == [j EXCEPT !.pc = "tell"]
  <2>1. g \in Job /\ g.gen = j.gen /\ g.s = j.s
    BY DEF Job
  <2>2. \E k \in {g, Idle} : job' = [job EXCEPT ![w] = k]
    BY <1>1 DEF Save, Proceeds
  <2> HIDE DEF g
  <2>3. PICK k \in Job : k \in {g, Idle} /\ job' = [job EXCEPT ![w] = k]
    BY <2>1, <2>2, IdleType
  <2>4. k.gen < nextKey /\ (k.pc # "idle" => k.s \in Scopes)
    BY <1>2, <2>1, <2>3, IdleType, BoundsAssumption DEF TypeInv, TypeOK
  <2>5. QED
    BY <2>3, <2>4, FlowType
<1>13. UNCHANGED <<scope, wraps, world, phase, plan, nextKey, ops, told, fresh>>
  BY DEF Save
<1>14. QED
  BY <1>8, <1>10, <1>11, <1>12, <1>13 DEF TypeInv, TypeOK, GensBelow, FlowsPlaced, world

LEMMA TypeTell ==
  ASSUME TypeInv, NEW w \in Writers, Tell(w)
  PROVE  TypeInv'
<1>1. PICK j \in Job : j = job[w]
  BY DEF TypeInv, TypeOK
<1>2. told' \subseteq Scopes \X Agents
  <2>1. told' \subseteq told \cup {<<j.s, a>> : a \in j.drop}
    BY <1>1 DEF Tell
  <2>2. j.s \in Scopes /\ j.drop \subseteq Agents
    BY <1>1 DEF Tell, TypeInv, FlowsPlaced, Job
  <2>3. QED
    BY <2>1, <2>2 DEF TypeInv, TypeOK
<1>3. job' = [job EXCEPT ![w] = Idle] /\ Idle.gen < nextKey
  BY IdleType, BoundsAssumption DEF Tell, TypeInv, TypeOK
<1>4. /\ job' \in [Writers -> Job]
      /\ \A v \in Writers : job'[v].gen < nextKey
      /\ \A v \in Writers : job'[v].pc # "idle" => job'[v].s \in Scopes
  BY <1>3, FlowType, IdleType
<1>5. UNCHANGED <<relays, world, mem, phase, plan, nextKey, ops, cut, fresh>>
  BY DEF Tell
<1>6. QED
  BY <1>2, <1>4, <1>5 DEF TypeInv, TypeOK, GensBelow, FlowsPlaced, world, relays

LEMMA TypeCrash ==
  ASSUME TypeInv, NEW w \in Writers, Crash(w)
  PROVE  TypeInv'
<1>1. job' = [job EXCEPT ![w] = Idle] /\ Idle.gen < nextKey
  BY IdleType, BoundsAssumption DEF Crash, TypeInv, TypeOK
<1>2. /\ job' \in [Writers -> Job]
      /\ \A v \in Writers : job'[v].gen < nextKey
      /\ \A v \in Writers : job'[v].pc # "idle" => job'[v].s \in Scopes
  BY <1>1, FlowType, IdleType
<1>3. Empty \in [Scopes -> Record] /\ \A s \in Scopes : Empty[s].gen < nextKey
  BY EmptyType DEF TypeInv, TypeOK
<1>4. /\ mem' \in [Writers -> [Scopes -> Record]]
      /\ \A v \in Writers, s \in Scopes : mem'[v][s].gen < nextKey
  BY <1>3 DEF Crash, TypeInv, TypeOK, GensBelow
<1>5. /\ phase' \in [Writers -> {"down", "sweep", "open"}]
      /\ plan' \in [Writers -> [Scopes -> SUBSET Agents]]
      /\ crashes' \in 0..MaxCrashes
  BY BoundsAssumption DEF Crash, TypeInv, TypeOK
<1>6. UNCHANGED <<relays, history, handed, due, nextKey, ops>>
  BY DEF Crash
<1>7. QED
  BY <1>2, <1>4, <1>5, <1>6 DEF TypeInv, TypeOK, GensBelow, FlowsPlaced, history, relays

LEMMA TypeAround ==
  ASSUME TypeInv, NEW s \in Scopes, Lapse(s) \/ \E a \in Agents : Relinquish(s, a)
  PROVE  TypeInv'
<1>1. CASE Lapse(s)
  BY <1>1 DEF Lapse, TypeInv, TypeOK, GensBelow, FlowsPlaced, history, relays
<1>2. ASSUME NEW a \in Agents, Relinquish(s, a)
      PROVE  TypeInv'
  BY <1>2 DEF Relinquish, TypeInv, TypeOK, GensBelow, FlowsPlaced, relays
<1>3. QED
  BY <1>1, <1>2

LEMMA TypeStep == TypeInv /\ [Next]_vars => TypeInv'
<1> SUFFICES ASSUME TypeInv, [Next]_vars
             PROVE  TypeInv'
  OBVIOUS
<1>1. ASSUME NEW w \in Writers, Sweeping(w)
      PROVE  TypeInv'
  BY <1>1, TypeLoad, TypeSwept, TypeSweepItem DEF Sweeping
<1>2. ASSUME NEW w \in Writers, Working(w)
      PROVE  TypeInv'
  BY <1>2, TypeRotate, TypeSave, TypeTell, TypeGrantNext DEF Working
<1>3. ASSUME NEW w \in Writers, Clicking(w)
      PROVE  TypeInv'
  BY <1>3, TypeEnrol, TypeIssue, TypeRedeliver, TypeRevoke, TypeAddGrantee DEF Clicking
<1>4. CASE UNCHANGED vars
  BY <1>4 DEF vars, TypeInv, TypeOK, GensBelow, FlowsPlaced, relays, world, history
<1>5. QED
  BY <1>1, <1>2, <1>3, <1>4, TypeReload, TypeCrash, TypeAround DEF Next

LEMMA TypeInvariant == Spec => []TypeInv
BY TypeInit, TypeStep, PTL DEF Spec

\* Types hold for every instance: no flow, copy or plan is ever malformed, and
\* generations never outrun the keys that were made.
THEOREM Typing == Spec => []TypeOK
BY TypeInvariant, PTL DEF TypeInv

---------------------------------------------------------------------------
(* No entry names a grantee that was not sent its key.                     *)

LEMMA ServeInit == Init => ServeInv
BY IdleType, EmptyType DEF Init, ServeInv, Served, FlowServed

\* A step that takes no grant off the relays keeps what was served: every
\* index and copy after it is one of before, and each flow is as it was or
\* has nothing to answer for.
LEMMA ServeKept ==
  ASSUME TypeInv, ServeInv,
         \A s \in Scopes, a \in Agents : wraps[s][a] \subseteq wraps'[s][a],
         index' \in {index} \cup {mem[v] : v \in Writers},
         \A v \in Writers : mem'[v] \in {index, Empty} \cup {mem[u] : u \in Writers},
         \A v \in Writers : FlowServed(v)'
  PROVE  ServeInv'
<1>1. \A x \in {index, Empty} \cup {mem[u] : u \in Writers} : x \in [Scopes -> Record]
  BY EmptyType DEF TypeInv, TypeOK
<1>2. \A x \in {index, Empty} \cup {mem[u] : u \in Writers} : Served(x)
  BY EmptyType DEF ServeInv, Served
<1>3. ASSUME NEW x \in {index, Empty} \cup {mem[u] : u \in Writers}
      PROVE  \A s \in Scopes : \A a \in x[s].grantees : x[s].key \in wraps'[s][a]
  <2>1. \A s \in Scopes : x[s].grantees \subseteq Agents
    BY <1>1 DEF Record
  <2>2. QED
    BY <1>2, <2>1 DEF Served
<1>4. Served(index)' /\ \A v \in Writers : Served(mem[v])'
  BY <1>3 DEF Served
<1>5. QED
  BY <1>4 DEF ServeInv

\* A flow left alone, with its copy, stays served.
LEMMA FlowKept ==
  ASSUME TypeInv, NEW v \in Writers, FlowServed(v),
         \A s \in Scopes, a \in Agents : wraps[s][a] \subseteq wraps'[s][a],
         job'[v] = job[v], mem'[v] = mem[v]
  PROVE  FlowServed(v)'
<1>1. PICK j \in Job : j = job[v]
  BY DEF TypeInv, TypeOK
<1>2. j.keep \subseteq Agents /\ (j.pc = "grant" => j.s \in Scopes)
  BY <1>1 DEF Job, TypeInv, FlowsPlaced
<1>3. QED
  BY <1>1, <1>2 DEF FlowServed

\* A flow at rest has nothing to answer for.
LEMMA FlowIdle ==
  ASSUME NEW v \in Writers, job'[v].pc \notin {"rotate", "grant"}
  PROVE  FlowServed(v)'
BY DEF FlowServed

\* The flow of a rotation, if one begins, has its whole list ahead.
LEMMA ServeRotation ==
  ASSUME TypeInv, ServeInv, NEW w \in Writers, NEW s \in Scopes,
         NEW drop, NEW why, why # "add", Rotation(w, s, drop, why),
         UNCHANGED <<relays, mem>>
  PROVE  ServeInv'
<1>1. ASSUME NEW v \in Writers
      PROVE  FlowServed(v)'
  <2>1. CASE job'[v] = job[v]
    BY <2>1, FlowKept DEF ServeInv, relays
  <2>2. CASE job'[v] # job[v]
    <3> DEFINE j == [Idle EXCEPT !.pc = "rotate", !.why = why, !.s = s,
                !.gen = mem[w][s].gen, !.drop = drop,
                !.keep = mem[w][s].grantees \ drop,
                !.todo = mem[w][s].grantees \ drop]
    <3>1. j.pc = "rotate" /\ j.keep = j.todo /\ j.why # "add"
      BY DEF Idle
    <3>2. job' = [job EXCEPT ![w] = j] /\ v = w
      BY <2>2 DEF Rotation, TypeInv, TypeOK
    <3> HIDE DEF j
    <3>3. job'[v] = j
      BY <3>2 DEF TypeInv, TypeOK
    <3>4. QED
      BY <3>1, <3>3 DEF FlowServed
  <2>3. QED
    BY <2>1, <2>2
<1>2. QED
  BY <1>1, ServeKept DEF relays

\* The steps of loads, sweeps and clicks that only set a flow up or save a copy.
LEMMA ServeSweeping ==
  ASSUME TypeInv, ServeInv, NEW w \in Writers, Sweeping(w)
  PROVE  ServeInv'
<1>1. CASE Load(w) \/ Swept(w)
  <2>1. UNCHANGED <<relays, job>> /\ job[w].pc = "idle"
    BY <1>1 DEF Load, Swept, Free
  <2>2. \A v \in Writers : v # w => mem'[v] = mem[v]
    BY <1>1 DEF Load, Swept, TypeInv, TypeOK
  <2>3. mem'[w] \in {index, Empty, mem[w]}
    BY <1>1 DEF Load, Swept, Loads, TypeInv, TypeOK
  <2>4. ASSUME NEW v \in Writers
        PROVE  FlowServed(v)'
    <3>1. CASE v = w
      BY <2>1, <3>1, FlowIdle
    <3>2. CASE v # w
      BY <2>1, <2>2, <3>2, FlowKept DEF ServeInv, relays
    <3>3. QED
      BY <3>1, <3>2
  <2>5. QED
    BY <2>1, <2>2, <2>3, <2>4, ServeKept DEF relays
<1>2. ASSUME NEW s \in Scopes, SweepItem(w, s)
      PROVE  ServeInv'
  BY <1>2, ServeRotation DEF SweepItem
<1>3. QED
  BY <1>1, <1>2 DEF Sweeping


\* A click replaces one flow by one that has served nothing it answers for.
LEMMA ServeFlow ==
  ASSUME TypeInv, ServeInv, NEW w \in Writers, NEW j,
         job' = [job EXCEPT ![w] = j],
         j.pc = "rotate" => j.keep = j.todo /\ j.why # "add",
         j.pc = "grant" => j.keep \ j.todo = {},
         j.pc = "grant" /\ j.why = "add" => mem[w][j.s].key = j.key,
         UNCHANGED <<relays, mem>>
  PROVE  ServeInv'
<1>1. job'[w] = j /\ \A v \in Writers : v # w => job'[v] = job[v]
  BY DEF TypeInv, TypeOK
<1>2. FlowServed(w)'
  BY <1>1 DEF FlowServed
<1>3. \A v \in Writers : v # w => FlowServed(v)'
  BY <1>1, FlowKept DEF ServeInv, relays
<1>4. QED
  BY <1>2, <1>3, ServeKept DEF relays

LEMMA ServeClicking ==
  ASSUME TypeInv, ServeInv, NEW w \in Writers, Clicking(w)
  PROVE  ServeInv'
<1>1. CASE Enrol(w)
  <2>1. UNCHANGED <<wraps, mem, job>> /\ index' \in {mem[w], index}
    BY <1>1 DEF Enrol
  <2>2. \A v \in Writers : FlowServed(v)'
    BY <2>1, FlowKept DEF ServeInv
  <2>3. QED
    BY <2>1, <2>2, ServeKept
<1>2. ASSUME NEW s \in Scopes, NEW a \in Agents, Issue(w, s, a)
      PROVE  ServeInv'
  <2>1. PICK t \in BOOLEAN :
          job' = [job EXCEPT ![w] = [Idle EXCEPT !.pc = "rotate", !.why = "issue", !.s = s,
                                      !.keep = {a}, !.todo = {a}, !.ttl = t]]
    BY <1>2 DEF Issue
  <2> DEFINE j == [Idle EXCEPT !.pc = "rotate", !.why = "issue", !.s = s,
                     !.keep = {a}, !.todo = {a}, !.ttl = t]
  <2>2. j.pc = "rotate" /\ j.keep = j.todo /\ j.why # "add"
    BY DEF Idle
  <2>3. job' = [job EXCEPT ![w] = j] /\ UNCHANGED <<relays, mem>>
    BY <1>2, <2>1 DEF Issue, Begins
  <2> HIDE DEF j
  <2>4. QED
    BY <2>2, <2>3, ServeFlow
<1>3. ASSUME NEW s \in Scopes, NEW a \in Agents, NEW d \in Agents, AddGrantee(w, s, a, d)
      PROVE  ServeInv'
  <2> DEFINE j == [Idle EXCEPT !.pc = "grant", !.why = "add", !.s = s,
                     !.gen = mem[w][s].gen, !.key = mem[w][s].key,
                     !.keep = {a}, !.todo = {a}, !.ttl = d \in mem[w][s].ttl]
  <2>1. j.pc = "grant" /\ j.keep \ j.todo = {} /\ mem[w][j.s].key = j.key
    BY DEF Idle
  <2>2. job' = [job EXCEPT ![w] = j] /\ UNCHANGED <<relays, mem>>
    BY <1>3 DEF AddGrantee, Begins
  <2> HIDE DEF j
  <2>3. QED
    BY <2>1, <2>2, ServeFlow
<1>4. ASSUME NEW s \in Scopes, NEW a \in Agents, Redeliver(w, s, a)
      PROVE  ServeInv'
  <2> DEFINE j == [Idle EXCEPT !.pc = "grant", !.why = "redeliver", !.s = s,
                     !.gen = mem[w][s].gen, !.key = mem[w][s].key, !.todo = {a}]
  <2>1. j.pc = "grant" /\ j.keep \ j.todo = {} /\ j.why = "redeliver"
    BY DEF Idle
  <2>2. job' = [job EXCEPT ![w] = j] /\ UNCHANGED <<relays, mem>>
    BY <1>4 DEF Redeliver, Begins
  <2> HIDE DEF j
  <2>3. QED
    BY <2>1, <2>2, ServeFlow
<1>5. ASSUME NEW s \in Scopes, NEW a \in Agents,
             Revoke(w, s, a) \/ ConfirmRelinquish(w, s, a)
      PROVE  ServeInv'
  <2>1. PICK why \in {"revoke", "relinquish"} : Rotation(w, s, {a}, why)
    BY <1>5 DEF Revoke, ConfirmRelinquish
  <2>2. UNCHANGED <<relays, mem>>
    BY <1>5 DEF Revoke, ConfirmRelinquish, Begins
  <2>3. QED
    BY <2>1, <2>2, ServeRotation
<1>6. QED
  BY <1>1, <1>2, <1>3, <1>4, <1>5 DEF Clicking

\* A reload under an add sets its flow loose; an issue brings its own entry.
LEMMA ServeReload ==
  ASSUME TypeInv, ServeInv, NEW w \in Writers, Reload(w)
  PROVE  ServeInv'
<1>1. PICK j \in Job : j = job[w]
  BY DEF TypeInv, TypeOK
<1> DEFINE k == [j EXCEPT !.loose = TRUE]
<1>2. /\ k.pc = j.pc /\ k.keep = j.keep /\ k.todo = j.todo /\ k.key = j.key
      /\ k.s = j.s /\ k.loose
  BY DEF Job
<1>3. job' = [job EXCEPT ![w] = k] /\ mem' = [mem EXCEPT ![w] = index]
      /\ UNCHANGED relays /\ j.pc = "grant"
  BY <1>1 DEF Reload
<1> HIDE DEF k
<1>4. /\ job'[w] = k /\ \A v \in Writers : v # w => job'[v] = job[v] /\ mem'[v] = mem[v]
      /\ mem'[w] = index
  BY <1>3 DEF TypeInv, TypeOK
<1>5. FlowServed(w)'
  <2>1. \A a \in j.keep \ j.todo : j.key \in wraps[j.s][a]
    BY <1>1, <1>3 DEF ServeInv, FlowServed
  <2>2. QED
    BY <1>2, <1>3, <1>4, <2>1 DEF FlowServed, relays
<1>6. \A v \in Writers : v # w => FlowServed(v)'
  BY <1>3, <1>4, FlowKept DEF ServeInv, relays
<1>7. QED
  BY <1>3, <1>4, <1>5, <1>6, ServeKept DEF relays

---------------------------------------------------------------------------
(* The steps of flows.                                                     *)

LEMMA ServeRotate ==
  ASSUME TypeInv, ServeInv, NEW w \in Writers, Rotate(w)
  PROVE  ServeInv'
<1>1. PICK j \in Job : j = job[w]
  BY DEF TypeInv, TypeOK
<1> DEFINE g == [j EXCEPT !.pc = "grant", !.gen = j.gen + 1, !.key = nextKey]
<1>2. g.pc = "grant" /\ g.keep = j.keep /\ g.todo = j.todo /\ g.why = j.why
  BY DEF Job
<1>3. j.keep = j.todo /\ j.why # "add"
  BY <1>1 DEF Rotate, ServeInv, FlowServed
<1>4. \E k \in {g, Idle} : job' = [job EXCEPT ![w] = k]
  BY <1>1 DEF Rotate, Proceeds
<1>5. UNCHANGED <<index, wraps, mem>>
  BY DEF Rotate
<1> HIDE DEF g
<1>6. PICK k \in {g, Idle} : job' = [job EXCEPT ![w] = k]
  BY <1>4
<1>7. job'[w] = k /\ \A v \in Writers : v # w => job'[v] = job[v]
  BY <1>6 DEF TypeInv, TypeOK
<1>8. FlowServed(w)'
  BY <1>2, <1>3, <1>7, IdleType DEF FlowServed
<1>9. \A v \in Writers : v # w => FlowServed(v)'
  BY <1>5, <1>7, FlowKept DEF ServeInv
<1>10. QED
  BY <1>5, <1>8, <1>9, ServeKept

\* A grant that was stored moves its grantee from the list to the served.
LEMMA ServeGrantNext ==
  ASSUME TypeInv, ServeInv, NEW w \in Writers, NEW a \in Agents, GrantNext(w, a)
  PROVE  ServeInv'
<1>1. PICK j \in Job : j = job[w]
  BY DEF TypeInv, TypeOK
<1>2. j.s \in Scopes /\ j.pc = "grant"
  BY <1>1 DEF GrantNext, TypeInv, FlowsPlaced
<1> DEFINE g == [j EXCEPT !.todo = @ \ {a}]
<1>3. /\ g.pc = j.pc /\ g.keep = j.keep /\ g.todo = j.todo \ {a} /\ g.key = j.key
      /\ g.s = j.s /\ g.why = j.why /\ g.loose = j.loose
  BY DEF Job
<1>4. PICK o \in Outcomes :
        /\ wraps' = IF o.stored THEN [wraps EXCEPT ![j.s][a] = @ \cup {j.key}] ELSE wraps
        /\ job' = [job EXCEPT ![w] =
             IF o.ok THEN (IF j.why = "redeliver" THEN Idle ELSE g) ELSE Idle]
  BY <1>1 DEF GrantNext, Proceeds
<1>5. UNCHANGED <<index, mem>>
  BY DEF GrantNext
<1>6. \A s \in Scopes, b \in Agents : wraps[s][b] \subseteq wraps'[s][b]
  BY <1>2, <1>4 DEF TypeInv, TypeOK
<1>7. o.ok => j.key \in wraps'[j.s][a]
  <2>1. o.ok => o.stored
    BY DEF Outcomes
  <2>2. QED
    BY <1>2, <1>4, <2>1 DEF TypeInv, TypeOK
<1> HIDE DEF g
<1>8. \A v \in Writers : v # w => job'[v] = job[v]
  BY <1>4 DEF TypeInv, TypeOK
<1>9. FlowServed(w)'
  <2>1. CASE job'[w] = Idle
    BY <2>1, FlowIdle, IdleType
  <2>2. CASE job'[w] = g /\ o.ok
    <3>1. \A b \in j.keep \ j.todo : j.key \in wraps[j.s][b]
      BY <1>1, <1>2 DEF ServeInv, FlowServed
    <3>a. j.keep \subseteq Agents
      BY DEF Job
    <3>b. ASSUME NEW b \in j.keep \ (j.todo \ {a})
          PROVE  j.key \in wraps'[j.s][b]
      <4>1. CASE b = a
        BY <1>7, <2>2, <4>1
      <4>2. CASE b # a
        BY <1>2, <1>6, <3>1, <3>a, <4>2
      <4>3. QED
        BY <4>1, <4>2
    <3>2. \A b \in g.keep \ g.todo : g.key \in wraps'[g.s][b]
      BY <1>3, <3>b
    <3>3. g.why = "add" /\ ~g.loose => mem[w][g.s].key = g.key
      BY <1>1, <1>2, <1>3 DEF ServeInv, FlowServed
    <3>4. QED
      BY <1>2, <1>3, <1>5, <2>2, <3>2, <3>3 DEF FlowServed
  <2>3. QED
    BY <1>4, <2>1, <2>2 DEF TypeInv, TypeOK
<1>10. \A v \in Writers : v # w => FlowServed(v)'
  BY <1>5, <1>6, <1>8, FlowKept DEF ServeInv
<1>11. QED
  BY <1>5, <1>6, <1>9, <1>10, ServeKept

\* What a save records names the grantees of before, under their key, or those
\* the flow has served.
LEMMA ServeSave ==
  ASSUME TypeInv, ServeInv, NEW w \in Writers, Save(w)
  PROVE  ServeInv'
<1>1. PICK j \in Job : j = job[w]
  BY DEF TypeInv, TypeOK
<1>2. j.s \in Scopes /\ j.pc = "grant" /\ j.todo = {}
  BY <1>1 DEF Save, TypeInv, FlowsPlaced
<1>3. PICK r \in Record : r = mem[w][j.s]
  BY <1>2 DEF TypeInv, TypeOK
<1>4. PICK ttl \in Trimmed(r.ttl) : mem' = [mem EXCEPT ![w][j.s] = Recorded(j, r, ttl)]
  BY <1>1, <1>2, <1>3 DEF Save, TypeInv, TypeOK
<1>5. PICK e \in Record : e = Recorded(j, r, ttl)
  BY <1>3, <1>4, RecordedType DEF Trimmed, Record
<1>6. \A a \in e.grantees : e.key \in wraps[j.s][a]
  <2>1. \A a \in r.grantees : r.key \in wraps[j.s][a]
    BY <1>2, <1>3 DEF ServeInv, Served
  <2>2. \A a \in j.keep : j.key \in wraps[j.s][a]
    BY <1>1, <1>2 DEF ServeInv, FlowServed
  <2>3. CASE j.why = "add" /\ j.loose
    <3>1. e.grantees = r.grantees /\ e.key = r.key
      BY <1>5, <2>3 DEF Recorded, Record
    <3>2. QED
      BY <2>1, <3>1
  <2>4. CASE j.why = "add" /\ ~j.loose
    <3>1. e.grantees = r.grantees \cup j.keep /\ e.key = r.key
      BY <1>5, <2>4 DEF Recorded, Record
    <3>2. r.key = j.key
      BY <1>1, <1>2, <1>3, <2>4 DEF ServeInv, FlowServed
    <3>3. QED
      BY <2>1, <2>2, <3>1, <3>2
  <2>5. CASE j.why # "add"
    <3>1. e.grantees = j.keep /\ e.key = j.key
      BY <1>5, <2>5 DEF Recorded
    <3>2. QED
      BY <2>2, <3>1
  <2>6. QED
    BY <2>3, <2>4, <2>5
<1>7. UNCHANGED <<wraps>> /\ index' \in {mem'[w], index}
  BY DEF Save
<1>8. mem'[w] = [mem[w] EXCEPT ![j.s] = e] /\ \A v \in Writers : v # w => mem'[v] = mem[v]
  BY <1>2, <1>4, <1>5 DEF TypeInv, TypeOK
<1>9. \A v \in Writers : Served(mem[v])'
  <2>1. Served(mem[w])'
    BY <1>2, <1>6, <1>7, <1>8 DEF ServeInv, Served, TypeInv, TypeOK
  <2>2. \A v \in Writers : v # w => Served(mem[v])'
    BY <1>7, <1>8 DEF ServeInv, Served
  <2>3. QED
    BY <2>1, <2>2
<1>10. Served(index)'
  BY <1>7, <1>9 DEF ServeInv, Served
<1>11. job'[w].pc \in {"idle", "tell"} /\ \A v \in Writers : v # w => job'[v] = job[v]
  <2> DEFINE g == [j EXCEPT !.pc = "tell"]
  <2>1. g.pc = "tell"
    BY DEF Job
  <2>2. \E k \in {g, Idle} : job' = [job EXCEPT ![w] = k]
    BY <1>1 DEF Save, Proceeds
  <2> HIDE DEF g
  <2>3. QED
    BY <2>1, <2>2, IdleType DEF TypeInv, TypeOK
<1>12. \A v \in Writers : FlowServed(v)'
  <2>1. FlowServed(w)'
    BY <1>11, FlowIdle
  <2>2. \A v \in Writers : v # w => FlowServed(v)'
    BY <1>7, <1>8, <1>11, FlowKept DEF ServeInv
  <2>3. QED
    BY <2>1, <2>2
<1>13. QED
  BY <1>9, <1>10, <1>12 DEF ServeInv

LEMMA ServeRest ==
  ASSUME TypeInv, ServeInv,
         \/ \E w \in Writers : Tell(w) \/ Crash(w)
         \/ \E s \in Scopes : Lapse(s) \/ \E a \in Agents : Relinquish(s, a)
         \/ UNCHANGED vars
  PROVE  ServeInv'
<1>1. ASSUME NEW w \in Writers, Tell(w) \/ Crash(w)
      PROVE  ServeInv'
  <2>1. UNCHANGED relays /\ job' = [job EXCEPT ![w] = Idle]
    BY <1>1 DEF Tell, Crash
  <2>2. mem' \in {mem, [mem EXCEPT ![w] = Empty]}
    BY <1>1 DEF Tell, Crash
  <2>3. /\ job'[w] = Idle
        /\ \A v \in Writers : v # w => job'[v] = job[v] /\ mem'[v] = mem[v]
        /\ mem'[w] \in {mem[w], Empty}
    BY <2>1, <2>2 DEF TypeInv, TypeOK
  <2>4. FlowServed(w)' /\ \A v \in Writers : v # w => FlowServed(v)'
    BY <2>1, <2>3, FlowIdle, FlowKept, IdleType DEF ServeInv, relays
  <2>5. QED
    BY <2>1, <2>3, <2>4, ServeKept DEF relays
<1>2. CASE UNCHANGED <<relays, mem, job>>
  <2>1. \A v \in Writers : FlowServed(v)'
    BY <1>2, FlowKept DEF ServeInv, relays
  <2>2. QED
    BY <1>2, <2>1, ServeKept DEF relays
<1>3. QED
  BY <1>1, <1>2 DEF Lapse, Relinquish, vars, relays

LEMMA ServeStep == Invariant /\ [Next]_vars => ServeInv'
<1> SUFFICES ASSUME TypeInv, ServeInv, [Next]_vars
             PROVE  ServeInv'
  BY DEF Invariant
<1>1. ASSUME NEW w \in Writers, Working(w)
      PROVE  ServeInv'
  BY <1>1, ServeRotate, ServeGrantNext, ServeSave, ServeRest DEF Working
<1>2. QED
  BY <1>1, ServeSweeping, ServeClicking, ServeReload, ServeRest DEF Next

\* The Grant Index can be acted on: whatever publishes failed, wherever pages
\* closed and however many writers overlap, every grantee of an entry, in the
\* relays' index and in each copy, was sent the entry's key.
THEOREM Recording == Spec => []RecordedServed
<1>1. Init => Invariant
  BY TypeInit, ServeInit DEF Invariant
<1>2. Invariant /\ [Next]_vars => Invariant'
  BY TypeStep, ServeStep DEF Invariant
<1>3. Invariant => RecordedServed
  BY DEF Invariant, ServeInv, Served, RecordedServed
<1>4. QED
  BY <1>1, <1>2, <1>3, PTL DEF Spec

---------------------------------------------------------------------------
(* One writer: what a saved rotation drops stays dropped.                  *)

OneWriter == \A v, w \in Writers : v = w

\* Every key in use was made: the next one is new to relays, copies and flows.
KeysBelow ==
  /\ \A s \in Scopes : scope[s].key < nextKey /\ index[s].key < nextKey
  /\ \A s \in Scopes, a \in Agents : \A k \in wraps[s][a] : k < nextKey
  /\ \A w \in Writers : job[w].key < nextKey /\ \A s \in Scopes : mem[w][s].key < nextKey

\* Copy x names nobody that is cut in an entry that opens the scope's event.
Bare(x) ==
  \A s \in Scopes : x[s].key = scope[s].key =>
    \A a \in x[s].grantees : <<s, a>> \notin cut

\* A flow drops others than it serves, and was not granting them its key; it
\* serves a pair that is cut only to grant it anew.
FlowCuts(j) ==
  j.pc \in {"rotate", "grant"} =>
    /\ j.drop \cap (j.keep \cup j.todo) = {} /\ (j.why = "add" => j.drop = {})
    /\ j.pc = "grant" => \A a \in j.drop : j.key \notin wraps[j.s][a]
    /\ \A a \in j.keep \cup j.todo :
         <<j.s, a>> \in cut => j.why \in {"issue", "add"} /\ a \in j.todo

CutInv ==
  /\ KeysBelow
  /\ CutStaysCut
  /\ Bare(index)
  /\ \A w \in Writers : Bare(mem[w]) /\ FlowCuts(job[w])

LEMMA IdleCuts == Idle.key = 0 /\ FlowCuts(Idle) /\ FlowCuts(Idle)'
BY DEF Idle, FlowCuts

LEMMA EmptyBare == \A s \in Scopes : Empty[s].key = 0 /\ Empty[s].grantees = {}
BY DEF Empty, NoRecord

LEMMA CutInit == Init => CutInv
BY IdleCuts, EmptyBare DEF Init, CutInv, KeysBelow, CutStaysCut, Bare

\* Steps that publish neither scope nor grant, and whose copies were there.
LEMMA CutFrame ==
  ASSUME OneWriter, TypeInv, CutInv, NEW w \in Writers, NEW j,
         UNCHANGED <<scope, wraps, cut, nextKey>>,
         index' \in {index, mem[w]}, mem'[w] \in {mem[w], index, Empty},
         job'[w] = j, j.key < nextKey, FlowCuts(j)
  PROVE  CutInv'
<1>1. nextKey \in Nat /\ 0 < nextKey
  BY BoundsAssumption DEF TypeInv, TypeOK
<1>2. KeysBelow'
  BY <1>1, EmptyBare DEF OneWriter, CutInv, KeysBelow
<1>3. CutStaysCut'
  BY DEF CutInv, CutStaysCut, Severed
<1>4. Bare(index)'
  BY DEF CutInv, Bare
<1>5. Bare(mem[w])'
  BY EmptyBare DEF CutInv, Bare
<1>6. FlowCuts(job[w])'
  BY DEF FlowCuts
<1>7. QED
  BY <1>2, <1>3, <1>4, <1>5, <1>6 DEF CutInv, OneWriter

\* Steps that leave the flow alone too.
LEMMA CutIdleFrame ==
  ASSUME OneWriter, TypeInv, CutInv, NEW w \in Writers,
         UNCHANGED <<scope, wraps, cut, nextKey>>,
         index' \in {index, mem[w]}, mem'[w] \in {mem[w], index, Empty},
         job'[w] \in {job[w], Idle}
  PROVE  CutInv'
<1>1. nextKey \in Nat /\ 0 < nextKey
  BY BoundsAssumption DEF TypeInv, TypeOK
<1>2. PICK j : j = job'[w]
  OBVIOUS
<1>3. j.key < nextKey /\ FlowCuts(j)
  BY <1>1, <1>2, IdleCuts DEF CutInv, KeysBelow
<1>4. QED
  BY <1>2, <1>3, CutFrame

\* A rotation starts from a copy that opens the event: none it keeps is cut.
LEMMA CutRotation ==
  ASSUME OneWriter, TypeInv, CutInv, NEW w \in Writers, NEW s \in Scopes,
         NEW drop, NEW why, why # "add", Rotation(w, s, drop, why),
         UNCHANGED <<relays, cut, nextKey, mem>>
  PROVE  CutInv'
<1>1. CASE job' = job
  BY <1>1, CutIdleFrame DEF relays
<1>2. CASE job' # job
  <2> DEFINE j == [Idle EXCEPT !.pc = "rotate", !.why = why, !.s = s,
                !.gen = mem[w][s].gen, !.drop = drop,
                !.keep = mem[w][s].grantees \ drop,
                !.todo = mem[w][s].grantees \ drop]
  <2>1. /\ j.pc = "rotate" /\ j.s = s /\ j.drop = drop /\ j.key = 0 /\ j.why = why
        /\ j.keep = mem[w][s].grantees \ drop /\ j.todo = mem[w][s].grantees \ drop
    BY DEF Idle
  <2>2. job' = [job EXCEPT ![w] = j] /\ mem[w][s].key = scope[s].key
    BY <1>2 DEF Rotation, Readable
  <2> HIDE DEF j
  <2>3. job'[w] = j
    BY <2>2 DEF TypeInv, TypeOK
  <2>4. FlowCuts(j)
    BY <2>1, <2>2 DEF FlowCuts, CutInv, Bare
  <2>5. 0 < nextKey
    BY BoundsAssumption DEF TypeInv, TypeOK
  <2>6. QED
    BY <2>1, <2>3, <2>4, <2>5, CutFrame DEF relays
<1>3. QED
  BY <1>1, <1>2

LEMMA CutSweeping ==
  ASSUME OneWriter, TypeInv, CutInv, NEW w \in Writers, Sweeping(w)
  PROVE  CutInv'
<1>1. CASE Load(w) \/ Swept(w)
  <2>1. UNCHANGED <<relays, cut, nextKey, job>>
    BY <1>1 DEF Load, Swept, history
  <2>2. mem'[w] \in {index, Empty, mem[w]}
    BY <1>1 DEF Load, Swept, Loads, TypeInv, TypeOK
  <2>3. QED
    BY <2>1, <2>2, CutIdleFrame DEF relays
<1>2. ASSUME NEW s \in Scopes, SweepItem(w, s)
      PROVE  CutInv'
  <2>1. UNCHANGED <<relays, cut, nextKey, mem>>
    BY <1>2 DEF SweepItem, history
  <2>2. QED
    BY <1>2, <2>1, CutRotation DEF SweepItem
<1>3. QED
  BY <1>1, <1>2 DEF Sweeping

LEMMA CutClicking ==
  ASSUME OneWriter, TypeInv, CutInv, NEW w \in Writers, Clicking(w)
  PROVE  CutInv'
<1>0. 0 < nextKey
  BY BoundsAssumption DEF TypeInv, TypeOK
<1>1. CASE Enrol(w)
  BY <1>1, CutIdleFrame DEF Enrol, history
<1>2. ASSUME NEW s \in Scopes, NEW a \in Agents, Issue(w, s, a)
      PROVE  CutInv'
  <2>1. PICK t \in BOOLEAN :
          job' = [job EXCEPT ![w] = [Idle EXCEPT !.pc = "rotate", !.why = "issue", !.s = s,
                                      !.keep = {a}, !.todo = {a}, !.ttl = t]]
    BY <1>2 DEF Issue
  <2> DEFINE j == [Idle EXCEPT !.pc = "rotate", !.why = "issue", !.s = s,
                     !.keep = {a}, !.todo = {a}, !.ttl = t]
  <2>2. /\ j.pc = "rotate" /\ j.keep = {a} /\ j.todo = {a} /\ j.why = "issue"
        /\ j.drop = {} /\ j.key = 0
    BY DEF Idle
  <2>3. job' = [job EXCEPT ![w] = j] /\ UNCHANGED <<relays, mem, cut, nextKey>>
    BY <1>2, <2>1 DEF Issue, Begins, history
  <2> HIDE DEF j
  <2>4. job'[w] = j /\ FlowCuts(j)
    BY <2>2, <2>3 DEF TypeInv, TypeOK, FlowCuts
  <2>5. QED
    BY <1>0, <2>2, <2>3, <2>4, CutFrame DEF relays
<1>3. ASSUME NEW s \in Scopes, NEW a \in Agents, NEW d \in Agents, AddGrantee(w, s, a, d)
      PROVE  CutInv'
  <2> DEFINE j == [Idle EXCEPT !.pc = "grant", !.why = "add", !.s = s,
                     !.gen = mem[w][s].gen, !.key = mem[w][s].key,
                     !.keep = {a}, !.todo = {a}, !.ttl = d \in mem[w][s].ttl]
  <2>1. /\ j.pc = "grant" /\ j.keep = {a} /\ j.todo = {a} /\ j.why = "add"
        /\ j.drop = {} /\ j.key = mem[w][s].key
    BY DEF Idle
  <2>2. job' = [job EXCEPT ![w] = j] /\ UNCHANGED <<relays, mem, cut, nextKey>>
    BY <1>3 DEF AddGrantee, Begins, history
  <2> HIDE DEF j
  <2>3. job'[w] = j /\ FlowCuts(j) /\ j.key < nextKey
    BY <2>1, <2>2 DEF TypeInv, TypeOK, FlowCuts, CutInv, KeysBelow
  <2>4. QED
    BY <2>2, <2>3, CutFrame DEF relays
<1>4. ASSUME NEW s \in Scopes, NEW a \in Agents, Redeliver(w, s, a)
      PROVE  CutInv'
  <2> DEFINE j == [Idle EXCEPT !.pc = "grant", !.why = "redeliver", !.s = s,
                     !.gen = mem[w][s].gen, !.key = mem[w][s].key, !.todo = {a}]
  <2>1. /\ j.pc = "grant" /\ j.keep = {} /\ j.todo = {a} /\ j.s = s
        /\ j.drop = {} /\ j.key = mem[w][s].key
    BY DEF Idle
  <2>2. job' = [job EXCEPT ![w] = j] /\ UNCHANGED <<relays, mem, cut, nextKey>>
    BY <1>4 DEF Redeliver, Begins, history
  <2>3. <<s, a>> \notin cut
    BY <1>4 DEF Redeliver, Readable, CutInv, Bare
  <2> HIDE DEF j
  <2>4. job'[w] = j /\ FlowCuts(j) /\ j.key < nextKey
    BY <2>1, <2>2, <2>3 DEF TypeInv, TypeOK, FlowCuts, CutInv, KeysBelow
  <2>5. QED
    BY <2>2, <2>4, CutFrame DEF relays
<1>5. ASSUME NEW s \in Scopes, NEW a \in Agents,
             Revoke(w, s, a) \/ ConfirmRelinquish(w, s, a)
      PROVE  CutInv'
  <2>1. PICK why \in {"revoke", "relinquish"} : Rotation(w, s, {a}, why)
    BY <1>5 DEF Revoke, ConfirmRelinquish
  <2>2. UNCHANGED <<relays, mem, cut, nextKey>>
    BY <1>5 DEF Revoke, ConfirmRelinquish, Begins, history
  <2>3. QED
    BY <2>1, <2>2, CutRotation
<1>6. QED
  BY <1>1, <1>2, <1>3, <1>4, <1>5 DEF Clicking

LEMMA CutReload ==
  ASSUME OneWriter, TypeInv, CutInv, NEW w \in Writers, Reload(w)
  PROVE  CutInv'
<1>1. PICK j \in Job : j = job[w]
  BY DEF TypeInv, TypeOK
<1> DEFINE k == [j EXCEPT !.loose = TRUE]
<1>2. /\ k.pc = j.pc /\ k.keep = j.keep /\ k.todo = j.todo /\ k.key = j.key
      /\ k.s = j.s /\ k.drop = j.drop /\ k.why = j.why
  BY DEF Job
<1>3. job' = [job EXCEPT ![w] = k] /\ mem' = [mem EXCEPT ![w] = index]
      /\ UNCHANGED <<relays, cut, nextKey>>
  BY <1>1 DEF Reload, history
<1> HIDE DEF k
<1>4. job'[w] = k /\ mem'[w] = index
  BY <1>3 DEF TypeInv, TypeOK
<1>5. FlowCuts(k) /\ k.key < nextKey
  BY <1>1, <1>2 DEF CutInv, KeysBelow, FlowCuts
<1>6. QED
  BY <1>3, <1>4, <1>5, CutFrame DEF relays

\* The new key was sent to nobody: whoever could open the scope no longer can.
LEMMA CutRotate ==
  ASSUME OneWriter, TypeInv, CutInv, NEW w \in Writers, Rotate(w)
  PROVE  CutInv'
<1>1. PICK j \in Job : j = job[w]
  BY DEF TypeInv, TypeOK
<1> DEFINE g == [j EXCEPT !.pc = "grant", !.gen = j.gen + 1, !.key = nextKey]
<1>2. /\ g.pc = "grant" /\ g.keep = j.keep /\ g.todo = j.todo /\ g.drop = j.drop
      /\ g.why = j.why /\ g.s = j.s /\ g.key = nextKey
  BY DEF Job
<1>3. PICK o \in Outcomes :
        /\ scope' = IF o.stored
                    THEN [scope EXCEPT ![j.s] = [gen |-> j.gen + 1, key |-> nextKey]]
                    ELSE scope
        /\ job' = [job EXCEPT ![w] = IF o.ok THEN g ELSE Idle]
  BY <1>1 DEF Rotate, Proceeds
<1> HIDE DEF g
<1>4. PICK k \in {g, Idle} : job'[w] = k
  BY <1>3 DEF TypeInv, TypeOK
<1>5. /\ UNCHANGED <<index, wraps, mem, cut>>
      /\ nextKey \in Nat /\ 0 < nextKey /\ nextKey' = nextKey + 1
      /\ j.pc = "rotate" /\ j.s \in Scopes
  BY <1>1, BoundsAssumption DEF Rotate, history, TypeInv, TypeOK, FlowsPlaced
<1>6. \A s \in Scopes : scope'[s] = scope[s] \/ scope'[s].key = nextKey
  BY <1>3 DEF TypeInv, TypeOK
<1>7. /\ \A s \in Scopes : scope[s].key \in Nat /\ index[s].key \in Nat
      /\ \A s \in Scopes, a \in Agents : wraps[s][a] \subseteq Nat
      /\ \A s \in Scopes : mem[w][s].key \in Nat
  <2>1. Keys \cup {0} \subseteq Nat
    BY BoundsAssumption DEF Keys
  <2>2. \A s \in Scopes : scope[s].key \in Keys \cup {0}
    BY DEF TypeInv, TypeOK
  <2>3. \A s \in Scopes : index[s].key \in Keys \cup {0} /\ mem[w][s].key \in Keys \cup {0}
    BY DEF TypeInv, TypeOK, Record
  <2>4. \A s \in Scopes, a \in Agents : wraps[s][a] \subseteq Keys \cup {0}
    BY DEF TypeInv, TypeOK
  <2>5. QED
    BY <2>1, <2>2, <2>3, <2>4
<1>8. KeysBelow'
  <2>1. \A s \in Scopes : scope'[s].key < nextKey' /\ index[s].key < nextKey'
    BY <1>5, <1>6, <1>7 DEF CutInv, KeysBelow
  <2>2. \A s \in Scopes, a \in Agents : \A n \in wraps[s][a] : n < nextKey'
    BY <1>5, <1>7 DEF CutInv, KeysBelow
  <2>3. k.key < nextKey' /\ \A s \in Scopes : mem[w][s].key < nextKey'
    BY <1>2, <1>4, <1>5, <1>7, IdleCuts DEF CutInv, KeysBelow
  <2>4. QED
    BY <1>4, <1>5, <2>1, <2>2, <2>3 DEF KeysBelow, OneWriter
<1>9. CutStaysCut'
  <2> SUFFICES ASSUME NEW p \in cut
               PROVE  scope'[p[1]].key \notin wraps[p[1]][p[2]]
    BY <1>5 DEF CutStaysCut, Severed
  <2>1. p[1] \in Scopes /\ p[2] \in Agents
    BY DEF TypeInv, TypeOK
  <2>2. CASE scope'[p[1]] = scope[p[1]]
    BY <2>2 DEF CutInv, CutStaysCut, Severed
  <2>3. CASE scope'[p[1]].key = nextKey
    BY <1>5, <1>7, <2>1, <2>3 DEF CutInv, KeysBelow
  <2>4. QED
    BY <1>6, <2>1, <2>2, <2>3
<1>10. Bare(index)' /\ Bare(mem[w])'
  <2>1. \A s \in Scopes : index[s].key # nextKey /\ mem[w][s].key # nextKey
    BY <1>5, <1>7 DEF CutInv, KeysBelow
  <2>2. QED
    BY <1>5, <1>6, <2>1 DEF CutInv, Bare
<1>11. FlowCuts(k)'
  <2>1. CASE k = Idle
    BY <2>1, IdleCuts
  <2>2. CASE k = g
    <3>1. j.drop \subseteq Agents /\ FlowCuts(j)
      BY <1>1 DEF Job, CutInv
    <3>2. \A a \in j.drop : nextKey \notin wraps[j.s][a]
      BY <1>5, <1>7, <3>1 DEF CutInv, KeysBelow
    <3>3. QED
      BY <1>2, <1>5, <2>2, <3>1, <3>2 DEF FlowCuts
  <2>3. QED
    BY <2>1, <2>2
<1>12. QED
  BY <1>4, <1>8, <1>9, <1>10, <1>11 DEF CutInv, OneWriter, FlowCuts

\* A grant opens the scope for a pair that is not cut, or no longer.
LEMMA CutGrantNext ==
  ASSUME OneWriter, TypeInv, CutInv, NEW w \in Writers, NEW a \in Agents, GrantNext(w, a)
  PROVE  CutInv'
<1>1. PICK j \in Job : j = job[w]
  BY DEF TypeInv, TypeOK
<1>2. j.s \in Scopes /\ j.pc = "grant" /\ a \in j.todo /\ FlowCuts(j) /\ j.key < nextKey
  BY <1>1 DEF GrantNext, TypeInv, FlowsPlaced, CutInv, KeysBelow
<1> DEFINE g == [j EXCEPT !.todo = @ \ {a}]
<1>3. /\ g.pc = j.pc /\ g.keep = j.keep /\ g.todo = j.todo \ {a} /\ g.key = j.key
      /\ g.s = j.s /\ g.why = j.why /\ g.drop = j.drop
  BY DEF Job
<1> DEFINE anew == IF j.why \in {"issue", "add"} THEN {<<j.s, a>>} ELSE {}
<1>4. PICK o \in Outcomes :
        /\ wraps' = IF o.stored THEN [wraps EXCEPT ![j.s][a] = @ \cup {j.key}] ELSE wraps
        /\ job' = [job EXCEPT ![w] =
             IF o.ok THEN (IF j.why = "redeliver" THEN Idle ELSE g) ELSE Idle]
        /\ cut' = IF o.stored THEN cut \ anew ELSE cut
  BY <1>1 DEF GrantNext, Proceeds
<1>5. UNCHANGED <<index, mem, scope, nextKey>>
  BY DEF GrantNext
<1> HIDE DEF g
<1>6. o.ok => o.stored
  BY DEF Outcomes
<1>c. PICK k : k = job'[w]
  OBVIOUS
<1>7. k = Idle \/ (k = g /\ o.ok)
  BY <1>4, <1>c DEF TypeInv, TypeOK
<1>8. /\ \A s \in Scopes, b \in Agents : s # j.s \/ b # a => wraps'[s][b] = wraps[s][b]
      /\ wraps'[j.s][a] \subseteq wraps[j.s][a] \cup {j.key}
  BY <1>2, <1>4 DEF TypeInv, TypeOK
<1>9. cut' \subseteq cut /\ (<<j.s, a>> \in cut' => ~o.stored)
  <2>1. <<j.s, a>> \in cut => j.why \in {"issue", "add"}
    BY <1>2 DEF FlowCuts
  <2>2. QED
    BY <1>4, <2>1
<1>a. cut' \subseteq cut
  BY <1>9
<1>b. 0 < nextKey /\ nextKey \in Nat
  BY BoundsAssumption DEF TypeInv, TypeOK
<1>10. KeysBelow'
  <2>1. \A s \in Scopes, b \in Agents : \A n \in wraps'[s][b] : n < nextKey
    BY <1>2, <1>8 DEF CutInv, KeysBelow
  <2>2. job'[w].key < nextKey
    BY <1>2, <1>3, <1>7, <1>b, <1>c, IdleCuts
  <2>3. QED
    BY <1>5, <2>1, <2>2 DEF KeysBelow, OneWriter, CutInv
<1>11. CutStaysCut'
  <2> SUFFICES ASSUME NEW p \in cut'
               PROVE  scope[p[1]].key \notin wraps'[p[1]][p[2]]
    BY <1>5 DEF CutStaysCut, Severed
  <2>1. p \in cut /\ p[1] \in Scopes /\ p[2] \in Agents /\ p = <<p[1], p[2]>>
    BY <1>a DEF TypeInv, TypeOK
  <2>2. scope[p[1]].key \notin wraps[p[1]][p[2]]
    BY <2>1 DEF CutInv, CutStaysCut, Severed
  <2>3. wraps'[p[1]][p[2]] = wraps[p[1]][p[2]]
    <3>1. CASE p[1] = j.s /\ p[2] = a
      <4>1. ~o.stored
        BY <1>9, <2>1, <3>1
      <4>2. QED
        BY <1>4, <4>1
    <3>2. CASE ~(p[1] = j.s /\ p[2] = a)
      BY <1>8, <2>1, <3>2
    <3>3. QED
      BY <3>1, <3>2
  <2>4. QED
    BY <2>2, <2>3
<1>12. Bare(index)' /\ Bare(mem[w])'
  BY <1>5, <1>a DEF CutInv, Bare
<1>13. FlowCuts(k)'
  <2>1. CASE k = Idle
    BY <2>1, IdleCuts
  <2>2. CASE k = g /\ o.ok
    <3>1. j.drop \subseteq Agents /\ a \notin j.drop
      BY <1>2 DEF Job, FlowCuts
    <3>2. \A b \in j.drop : j.key \notin wraps'[j.s][b]
      BY <1>2, <1>8, <3>1 DEF FlowCuts
    <3>3. <<j.s, a>> \notin cut'
      BY <1>6, <1>9, <2>2
    <3>4. \A b \in g.keep \cup g.todo :
            <<g.s, b>> \in cut' => g.why \in {"issue", "add"} /\ b \in g.todo
      BY <1>2, <1>3, <1>a, <3>3 DEF FlowCuts
    <3>5. g.drop \cap (g.keep \cup g.todo) = {} /\ (g.why = "add" => g.drop = {})
      BY <1>2, <1>3 DEF FlowCuts
    <3>6. QED
      BY <1>3, <2>2, <3>2, <3>4, <3>5 DEF FlowCuts
  <2>3. QED
    BY <1>7, <2>1, <2>2
<1>14. QED
  BY <1>c, <1>10, <1>11, <1>12, <1>13 DEF CutInv, OneWriter, FlowCuts

\* A save records whom the flow keeps, and cuts whom it dropped.
LEMMA CutSave ==
  ASSUME OneWriter, TypeInv, CutInv, NEW w \in Writers, Save(w)
  PROVE  CutInv'
<1>1. PICK j \in Job : j = job[w]
  BY DEF TypeInv, TypeOK
<1>2. /\ j.s \in Scopes /\ j.pc = "grant" /\ j.todo = {}
      /\ FlowCuts(j) /\ j.key < nextKey
  BY <1>1 DEF Save, TypeInv, FlowsPlaced, CutInv, KeysBelow
<1>3. PICK r \in Record : r = mem[w][j.s]
  BY <1>2 DEF TypeInv, TypeOK
<1>4. PICK ttl \in Trimmed(r.ttl) : mem' = [mem EXCEPT ![w][j.s] = Recorded(j, r, ttl)]
  BY <1>1, <1>2, <1>3 DEF Save, TypeInv, TypeOK
<1>5. PICK e \in Record : e = Recorded(j, r, ttl)
  BY <1>3, <1>4, RecordedType DEF Trimmed, Record
<1>6. mem'[w] = [mem[w] EXCEPT ![j.s] = e] /\ mem[w] \in [Scopes -> Record]
  BY <1>2, <1>4, <1>5 DEF TypeInv, TypeOK
<1>7. PICK o \in Outcomes :
        /\ index' = IF o.stored THEN mem'[w] ELSE index
        /\ cut'   = IF o.ok /\ scope[j.s].key = j.key
                    THEN cut \cup {<<j.s, a>> : a \in j.drop} ELSE cut
        /\ \/ Proceeds(w, o, Idle)
           \/ j.why = "revoke" /\ Proceeds(w, o, [j EXCEPT !.pc = "tell"])
  BY <1>1 DEF Save
<1>8. UNCHANGED <<scope, wraps, nextKey>> /\ 0 < nextKey
  BY BoundsAssumption DEF Save, TypeInv, TypeOK
<1>9. index' = mem'[w] \/ (index' = index /\ cut' = cut)
  BY <1>7 DEF Outcomes
<1>a. e.key \in {j.key, r.key}
  BY <1>5 DEF Recorded, Record
<1>b. \A a \in e.grantees : e.key = scope[j.s].key => <<j.s, a>> \notin cut'
  <2>1. \A a \in j.keep : <<j.s, a>> \notin cut /\ a \notin j.drop
    BY <1>2 DEF FlowCuts
  <2>2. \A a \in r.grantees : r.key = scope[j.s].key => <<j.s, a>> \notin cut
    BY <1>2, <1>3 DEF CutInv, Bare
  <2>3. CASE j.why = "add"
    <3>1. e.grantees \subseteq r.grantees \cup j.keep /\ e.key = r.key
      BY <1>5, <2>3 DEF Recorded, Record
    <3>2. cut' = cut
      BY <1>2, <1>7, <2>3 DEF FlowCuts
    <3>3. QED
      BY <2>1, <2>2, <3>1, <3>2
  <2>4. CASE j.why # "add"
    <3>1. e.grantees = j.keep
      BY <1>5, <2>4 DEF Recorded
    <3>2. cut' \subseteq cut \cup {<<j.s, a>> : a \in j.drop}
      BY <1>7
    <3>3. QED
      BY <2>1, <3>1, <3>2
  <2>5. QED
    BY <2>3, <2>4
<1>c. \A s \in Scopes, a \in Agents : s # j.s => (<<s, a>> \in cut' => <<s, a>> \in cut)
  BY <1>7
<1>d. job'[w].key < nextKey /\ job'[w].pc \in {"idle", "tell"}
  <2> DEFINE g == [j EXCEPT !.pc = "tell"]
  <2>1. g.pc = "tell" /\ g.key = j.key
    BY DEF Job
  <2>2. \E k \in {g, Idle} : job' = [job EXCEPT ![w] = k]
    BY <1>7 DEF Proceeds
  <2> HIDE DEF g
  <2>3. QED
    BY <1>2, <1>8, <2>1, <2>2, IdleType, IdleCuts DEF TypeInv, TypeOK
<1>10. KeysBelow'
  <2>1. \A s \in Scopes : mem'[w][s].key < nextKey
    BY <1>2, <1>3, <1>6, <1>a DEF CutInv, KeysBelow
  <2>2. \A s \in Scopes : index'[s].key < nextKey
    BY <1>9, <2>1 DEF CutInv, KeysBelow
  <2>3. QED
    BY <1>8, <1>d, <2>1, <2>2 DEF KeysBelow, OneWriter, CutInv
<1>11. CutStaysCut'
  <2> SUFFICES ASSUME NEW p \in cut'
               PROVE  scope[p[1]].key \notin wraps[p[1]][p[2]]
    BY <1>8 DEF CutStaysCut, Severed
  <2>1. CASE p \in cut
    BY <2>1 DEF CutInv, CutStaysCut, Severed
  <2>2. CASE p \notin cut
    <3>1. /\ scope[j.s].key = j.key
          /\ \E a \in j.drop : p = <<j.s, a>>
      BY <1>7, <2>2
    <3>2. PICK a \in j.drop : p = <<j.s, a>>
      BY <3>1
    <3>3. j.key \notin wraps[j.s][a]
      BY <1>2, <3>2 DEF FlowCuts
    <3>4. QED
      BY <3>1, <3>2, <3>3
  <2>3. QED
    BY <2>1, <2>2
<1>12. Bare(mem[w])'
  <2> SUFFICES ASSUME NEW s \in Scopes, mem'[w][s].key = scope[s].key,
                      NEW a \in mem'[w][s].grantees
               PROVE  <<s, a>> \notin cut'
    BY <1>8 DEF Bare
  <2>1. CASE s = j.s
    BY <1>2, <1>6, <1>b, <2>1
  <2>2. CASE s # j.s
    <3>1. mem'[w][s] = mem[w][s] /\ mem[w][s].grantees \subseteq Agents
      BY <1>2, <1>6, <2>2 DEF Record
    <3>2. <<s, a>> \notin cut
      BY <3>1 DEF CutInv, Bare
    <3>3. QED
      BY <1>c, <2>2, <3>1, <3>2
  <2>3. QED
    BY <2>1, <2>2
<1>13. Bare(index)'
  <2>1. CASE index' = mem'[w]
    BY <1>12, <2>1 DEF Bare
  <2>2. CASE index' = index /\ cut' = cut
    BY <1>8, <2>2 DEF CutInv, Bare
  <2>3. QED
    BY <1>9, <2>1, <2>2
<1>14. FlowCuts(job[w])'
  BY <1>d DEF FlowCuts
<1>15. QED
  BY <1>10, <1>11, <1>12, <1>13, <1>14 DEF CutInv, OneWriter

LEMMA CutRest ==
  ASSUME OneWriter, TypeInv, CutInv,
         \/ \E w \in Writers : Tell(w) \/ Crash(w)
         \/ \E s \in Scopes : Lapse(s) \/ \E a \in Agents : Relinquish(s, a)
         \/ UNCHANGED vars
  PROVE  CutInv'
<1>1. ASSUME NEW w \in Writers, Tell(w) \/ Crash(w)
      PROVE  CutInv'
  <2>1. UNCHANGED <<relays, cut, nextKey>> /\ job' = [job EXCEPT ![w] = Idle]
    BY <1>1 DEF Tell, Crash, history
  <2>2. mem' \in {mem, [mem EXCEPT ![w] = Empty]}
    BY <1>1 DEF Tell, Crash
  <2>3. job'[w] = Idle /\ mem'[w] \in {mem[w], Empty}
    BY <2>1, <2>2 DEF TypeInv, TypeOK
  <2>4. QED
    BY <2>1, <2>3, CutIdleFrame DEF relays
<1>2. CASE UNCHANGED <<relays, mem, job, cut, nextKey>>
  BY <1>2 DEF relays, CutInv, KeysBelow, CutStaysCut, Severed, Bare, FlowCuts
<1>3. QED
  BY <1>1, <1>2 DEF Lapse, Relinquish, vars, relays, history

LEMMA CutStep == OneWriter /\ Invariant /\ CutInv /\ [Next]_vars => CutInv'
<1> SUFFICES ASSUME OneWriter, TypeInv, CutInv, [Next]_vars
             PROVE  CutInv'
  BY DEF Invariant
<1>1. ASSUME NEW w \in Writers, Working(w)
      PROVE  CutInv'
  BY <1>1, CutRotate, CutGrantNext, CutSave, CutRest DEF Working
<1>2. QED
  BY <1>1, CutSweeping, CutClicking, CutReload, CutRest DEF Next

\* Revocation, expiry and relinquishment through rotateDropping: with one page
\* or one daemon writing, whatever publishes failed, loads missed and pages
\* closed, an agent a saved rotation dropped cannot open the scope's event until
\* it is granted anew.  With two writers it is false: a revoke past its read-back
\* grants its key to a survivor the other writer has cut meanwhile.
THEOREM Cutting ==
  ASSUME OneWriter
  PROVE  Spec => []CutStaysCut
<1>1. Init => Invariant /\ CutInv
  BY TypeInit, ServeInit, CutInit DEF Invariant
<1>2. Invariant /\ CutInv /\ [Next]_vars => Invariant' /\ CutInv'
  BY TypeStep, ServeStep, CutStep DEF Invariant
<1>3. CutInv => CutStaysCut
  BY DEF CutInv
<1>4. QED
  BY <1>1, <1>2, <1>3, PTL DEF Spec

---------------------------------------------------------------------------
(* Deadlines: a scope is issued once, with a deadline or without, and what *)
(* is recorded of it after that keeps to it.                               *)

\* The entry of s in copy x, and the flow j over that copy, say of every
\* grantee that it has a deadline, or of none.
EntryDated(x, s, t) == IF t THEN x[s].grantees \subseteq x[s].ttl ELSE x[s].ttl = {}
FlowDated(j, x, s, t) ==
  j.pc \in {"rotate", "grant"} /\ j.s = s =>
    IF j.why \in {"issue", "add"} THEN j.ttl = t ELSE ~j.ttl /\ (t => j.keep \subseteq x[s].ttl)
Dated(s, t) ==
  /\ EntryDated(index, s, t)
  /\ \A w \in Writers : EntryDated(mem[w], s, t) /\ FlowDated(job[w], mem[w], s, t)

\* Nothing is recorded of a scope that was never published; a flow may be about to.
FlowIssues(j, s) == j.pc \in {"rotate", "grant"} /\ j.s = s => j.pc = "rotate" /\ j.why = "issue"
Unissued(s) ==
  /\ index[s] = NoRecord
  /\ \A w \in Writers : mem[w][s] = NoRecord /\ FlowIssues(job[w], s)

DatedInv == \A s \in Scopes : /\ scope[s].gen = 0 => Unissued(s)
                              /\ \E t \in BOOLEAN : Dated(s, t)

\* The deadlines recorded of those that stay are kept.
StayDated ==
  \A s \in Scopes : \A a \in index[s].grantees \cap index'[s].grantees :
    a \in index[s].ttl => a \in index'[s].ttl

LEMMA NoneDated == \A s \in Scopes : Empty[s] = NoRecord /\ \A t \in BOOLEAN : EntryDated(Empty, s, t)
BY DEF Empty, NoRecord, EntryDated

LEMMA DatedInit == Init => DatedInv
<1> SUFFICES ASSUME Init, NEW s \in Scopes PROVE Unissued(s) /\ Dated(s, TRUE)
  BY DEF DatedInv
<1>1. index = Empty /\ \A w \in Writers : mem[w] = Empty /\ job[w].pc = "idle"
  BY IdleType DEF Init
<1> QED BY <1>1, NoneDated DEF Unissued, Dated, FlowIssues, FlowDated

\* One writer's copy and flow are replaced, and perhaps the index by its copy.
LEMMA DatedFrame ==
  ASSUME DatedInv, NEW w \in Writers,
         \A v \in Writers \ {w} : mem'[v] = mem[v] /\ job'[v] = job[v],
         index' \in {index, mem[w], mem'[w]},
         \A s \in Scopes : scope'[s].gen = 0 =>
           scope[s].gen = 0 /\ (Unissued(s) => mem'[w][s] = NoRecord /\ FlowIssues(job'[w], s)),
         \A s \in Scopes : \E t \in BOOLEAN :
           Dated(s, t) /\ EntryDated(mem'[w], s, t) /\ FlowDated(job'[w], mem'[w], s, t)
  PROVE  DatedInv' /\ StayDated
<1>1. ASSUME NEW s \in Scopes, scope'[s].gen = 0 PROVE Unissued(s)'
  BY <1>1 DEF DatedInv, Unissued, FlowIssues
<1>2. ASSUME NEW s \in Scopes
      PROVE  /\ \E t \in BOOLEAN : Dated(s, t)'
             /\ \A a \in index[s].grantees \cap index'[s].grantees : a \in index[s].ttl => a \in index'[s].ttl
  <2>1. PICK t \in BOOLEAN : Dated(s, t) /\ EntryDated(mem'[w], s, t) /\ FlowDated(job'[w], mem'[w], s, t)
    OBVIOUS
  <2>2. EntryDated(index, s, t)'
    BY <2>1 DEF Dated, EntryDated
  <2>3. ASSUME NEW v \in Writers PROVE EntryDated(mem[v], s, t)' /\ FlowDated(job[v], mem[v], s, t)'
    BY <2>1 DEF Dated, EntryDated, FlowDated
  <2>4. Dated(s, t)'
    BY <2>2, <2>3 DEF Dated
  <2>5. \A a \in index[s].grantees \cap index'[s].grantees : a \in index[s].ttl => a \in index'[s].ttl
    BY <2>1, <2>2 DEF Dated, EntryDated
  <2> QED BY <2>4, <2>5
<1> QED BY <1>1, <1>2 DEF DatedInv, StayDated

\* Steps that publish no scope and after which the flow rests or has only fewer to serve.
LEMMA DatedSameFlow ==
  ASSUME DatedInv, NEW w \in Writers, UNCHANGED scope,
         \A v \in Writers \ {w} : mem'[v] = mem[v] /\ job'[v] = job[v],
         index' \in {index, mem[w]}, mem'[w] \in {mem[w], index, Empty},
         \/ ~ (job'[w].pc \in {"rotate", "grant"})
         \/ /\ job'[w].pc = job[w].pc /\ job'[w].why = job[w].why /\ job'[w].s = job[w].s
            /\ job'[w].ttl = job[w].ttl /\ job'[w].keep = job[w].keep
            /\ job[w].why \in {"issue", "add"} \/ mem'[w] = mem[w]
  PROVE  DatedInv' /\ StayDated
<1>1. ASSUME NEW s \in Scopes, Unissued(s) PROVE mem'[w][s] = NoRecord /\ FlowIssues(job'[w], s)
  BY <1>1, NoneDated DEF Unissued, FlowIssues
<1>2. ASSUME NEW s \in Scopes, NEW t \in BOOLEAN, Dated(s, t)
      PROVE  EntryDated(mem'[w], s, t) /\ FlowDated(job'[w], mem'[w], s, t)
  <2>1. EntryDated(mem'[w], s, t)
    BY <1>2, NoneDated DEF Dated, EntryDated
  <2>2. FlowDated(job'[w], mem'[w], s, t)
    BY <1>2 DEF Dated, FlowDated
  <2> QED BY <2>1, <2>2
<1> QED BY <1>1, <1>2, DatedFrame DEF DatedInv

\* A flow starts on the writer's copy.
LEMMA DatedStart ==
  ASSUME TypeInv, DatedInv, NEW w \in Writers, UNCHANGED <<relays, mem>>,
         NEW j, job' = [job EXCEPT ![w] = j], NEW s \in Scopes, j.s = s,
         mem[w][s] # NoRecord,
         \A t \in BOOLEAN : EntryDated(mem[w], s, t) => FlowDated(j, mem[w], s, t)
  PROVE  DatedInv' /\ StayDated
<1>1. job'[w] = j /\ \A v \in Writers \ {w} : job'[v] = job[v]
  BY DEF TypeInv, TypeOK
<1>2. ASSUME NEW q \in Scopes, Unissued(q) PROVE mem'[w][q] = NoRecord /\ FlowIssues(job'[w], q)
  BY <1>1, <1>2 DEF Unissued, FlowIssues
<1>3. ASSUME NEW q \in Scopes, NEW t \in BOOLEAN, Dated(q, t)
      PROVE  EntryDated(mem'[w], q, t) /\ FlowDated(job'[w], mem'[w], q, t)
  BY <1>1, <1>3 DEF Dated, FlowDated
<1> QED BY <1>1, <1>2, <1>3, DatedFrame DEF DatedInv, relays

LEMMA DatedRotation ==
  ASSUME TypeInv, DatedInv, NEW w \in Writers, NEW s \in Scopes,
         NEW drop, NEW why, why \notin {"issue", "add"}, Rotation(w, s, drop, why), UNCHANGED <<relays, mem>>
  PROVE  DatedInv' /\ StayDated
<1>1. CASE UNCHANGED job
  BY <1>1, DatedSameFlow DEF relays
<1>2. CASE job' # job
  <2> DEFINE j == [Idle EXCEPT !.pc = "rotate", !.why = why, !.s = s,
                !.gen = mem[w][s].gen, !.drop = drop,
                !.keep = mem[w][s].grantees \ drop,
                !.todo = mem[w][s].grantees \ drop]
  <2>1. j.s = s /\ j.why = why /\ ~j.ttl /\ j.keep = mem[w][s].grantees \ drop
    BY DEF Idle
  <2>2. job' = [job EXCEPT ![w] = j] /\ mem[w][s] # NoRecord
    BY <1>2 DEF Rotation, NoRecord
  <2> HIDE DEF j
  <2>3. \A t \in BOOLEAN : EntryDated(mem[w], s, t) => FlowDated(j, mem[w], s, t)
    BY <2>1 DEF EntryDated, FlowDated
  <2> QED BY <2>1, <2>2, <2>3, DatedStart
<1> QED BY <1>1, <1>2

LEMMA DatedSweeping ==
  ASSUME TypeInv, DatedInv, NEW w \in Writers, Sweeping(w)
  PROVE  DatedInv' /\ StayDated
<1>1. CASE Load(w) \/ Swept(w)
  <2>1. UNCHANGED <<relays, job>> /\ job[w].pc = "idle"
    BY <1>1 DEF Load, Swept, Free
  <2>2. /\ mem'[w] \in {index, Empty, mem[w]}
        /\ \A v \in Writers \ {w} : mem'[v] = mem[v]
    BY <1>1 DEF Load, Swept, Loads, TypeInv, TypeOK
  <2> QED BY <2>1, <2>2, DatedSameFlow DEF relays
<1>2. ASSUME NEW s \in Scopes, SweepItem(w, s) PROVE DatedInv' /\ StayDated
  BY <1>2, DatedRotation DEF SweepItem
<1> QED BY <1>1, <1>2 DEF Sweeping

\* A scope that is issued has no entry yet: its first says whether it has a deadline.
LEMMA DatedIssue ==
  ASSUME TypeInv, DatedInv, NEW w \in Writers, NEW s \in Scopes, NEW a \in Agents, Issue(w, s, a)
  PROVE  DatedInv' /\ StayDated
<1>1. PICK u \in BOOLEAN :
        job' = [job EXCEPT ![w] = [Idle EXCEPT !.pc = "rotate", !.why = "issue", !.s = s,
                                    !.keep = {a}, !.todo = {a}, !.ttl = u]]
  BY DEF Issue
<1>2. UNCHANGED <<relays, mem>> /\ scope[s].gen = 0 /\ \A v \in Writers : job[v].s # s
  BY DEF Issue, Begins
<1> DEFINE j == [Idle EXCEPT !.pc = "rotate", !.why = "issue", !.s = s,
                   !.keep = {a}, !.todo = {a}, !.ttl = u]
<1>3. j.pc = "rotate" /\ j.why = "issue" /\ j.s = s /\ j.ttl = u
  BY DEF Idle
<1>4. job'[w] = j /\ \A v \in Writers \ {w} : job'[v] = job[v]
  BY <1>1 DEF TypeInv, TypeOK
<1> HIDE DEF j
<1>5. ASSUME NEW q \in Scopes, Unissued(q) PROVE mem'[w][q] = NoRecord /\ FlowIssues(job'[w], q)
  BY <1>2, <1>3, <1>4, <1>5 DEF Unissued, FlowIssues
<1>6. Unissued(s)
  BY <1>2 DEF DatedInv
<1>7. Dated(s, u) /\ FlowDated(j, mem[w], s, u)
  BY <1>2, <1>3, <1>6 DEF Unissued, Dated, EntryDated, FlowDated, NoRecord
<1>8. ASSUME NEW q \in Scopes, q # s, NEW t \in BOOLEAN, Dated(q, t)
      PROVE  EntryDated(mem'[w], q, t) /\ FlowDated(job'[w], mem'[w], q, t)
  BY <1>2, <1>3, <1>4, <1>8 DEF Dated, FlowDated
<1>9. ASSUME NEW q \in Scopes
      PROVE  \E t \in BOOLEAN : Dated(q, t) /\ EntryDated(mem'[w], q, t) /\ FlowDated(job'[w], mem'[w], q, t)
  <2>1. CASE q = s
    BY <1>2, <1>4, <1>7, <2>1 DEF Dated
  <2>2. CASE q # s
    BY <1>8, <2>2 DEF DatedInv
  <2> QED BY <2>1, <2>2
<1> QED BY <1>2, <1>4, <1>5, <1>9, DatedFrame DEF relays

LEMMA DatedClicking ==
  ASSUME TypeInv, DatedInv, NEW w \in Writers, Clicking(w)
  PROVE  DatedInv' /\ StayDated
<1>1. CASE Enrol(w)
  BY <1>1, DatedSameFlow DEF Enrol
<1>2. ASSUME NEW s \in Scopes, NEW a \in Agents, NEW d \in Agents, AddGrantee(w, s, a, d)
      PROVE  DatedInv' /\ StayDated
  <2> DEFINE j == [Idle EXCEPT !.pc = "grant", !.why = "add", !.s = s,
          !.gen = mem[w][s].gen, !.key = mem[w][s].key,
          !.keep = {a}, !.todo = {a}, !.ttl = d \in mem[w][s].ttl]
  <2>1. j.s = s /\ j.why = "add" /\ j.ttl = (d \in mem[w][s].ttl)
    BY DEF Idle
  <2>2. /\ job' = [job EXCEPT ![w] = j] /\ mem[w][s] # NoRecord /\ UNCHANGED <<relays, mem>>
        /\ d \in mem[w][s].grantees \cup mem[w][s].ttl
    BY <1>2 DEF AddGrantee, Begins, NoRecord
  <2> HIDE DEF j
  <2>3. ASSUME NEW t \in BOOLEAN, EntryDated(mem[w], s, t) PROVE j.ttl = t
    BY <2>1, <2>2, <2>3 DEF EntryDated
  <2>4. \A t \in BOOLEAN : EntryDated(mem[w], s, t) => FlowDated(j, mem[w], s, t)
    BY <2>1, <2>3 DEF FlowDated
  <2> QED BY <2>1, <2>2, <2>4, DatedStart
<1>3. ASSUME NEW s \in Scopes, NEW a \in Agents, Redeliver(w, s, a)
      PROVE  DatedInv' /\ StayDated
  <2> DEFINE j == [Idle EXCEPT !.pc = "grant", !.why = "redeliver", !.s = s,
          !.gen = mem[w][s].gen, !.key = mem[w][s].key, !.todo = {a}]
  <2>1. j.s = s /\ j.why = "redeliver" /\ ~j.ttl /\ j.keep = {}
    BY DEF Idle
  <2>2. job' = [job EXCEPT ![w] = j] /\ mem[w][s] # NoRecord /\ UNCHANGED <<relays, mem>>
    BY <1>3 DEF Redeliver, Begins, NoRecord
  <2> HIDE DEF j
  <2>3. \A t \in BOOLEAN : EntryDated(mem[w], s, t) => FlowDated(j, mem[w], s, t)
    BY <2>1 DEF FlowDated
  <2> QED BY <2>1, <2>2, <2>3, DatedStart
<1>4. ASSUME NEW s \in Scopes, NEW a \in Agents, Revoke(w, s, a) \/ ConfirmRelinquish(w, s, a)
      PROVE  DatedInv' /\ StayDated
  BY <1>4, DatedRotation DEF Revoke, ConfirmRelinquish, Begins
<1> QED BY <1>1, <1>2, <1>3, <1>4, DatedIssue DEF Clicking

LEMMA DatedReload ==
  ASSUME TypeInv, DatedInv, NEW w \in Writers, Reload(w)
  PROVE  DatedInv' /\ StayDated
<1>1. /\ job' = [job EXCEPT ![w].loose = TRUE] /\ mem' = [mem EXCEPT ![w] = index]
      /\ job[w].why \in {"issue", "add"} /\ UNCHANGED relays
  BY DEF Reload
<1>2. job \in [Writers -> Job] /\ mem \in [Writers -> [Scopes -> Record]]
  BY DEF TypeInv, TypeOK
<1>3. /\ job'[w].pc = job[w].pc /\ job'[w].why = job[w].why /\ job'[w].s = job[w].s
      /\ job'[w].ttl = job[w].ttl /\ job'[w].keep = job[w].keep
  BY <1>1, <1>2 DEF Job
<1>4. mem'[w] = index /\ \A v \in Writers \ {w} : mem'[v] = mem[v] /\ job'[v] = job[v]
  BY <1>1, <1>2
<1> QED BY <1>1, <1>3, <1>4, DatedSameFlow DEF relays

\* What a rotation publishes is published; a flow whose publish failed is over.
LEMMA DatedRotate ==
  ASSUME TypeInv, DatedInv, NEW w \in Writers, Rotate(w)
  PROVE  DatedInv' /\ StayDated
<1> DEFINE j == job[w]
           next == [j EXCEPT !.pc = "grant", !.gen = j.gen + 1, !.key = nextKey]
<1>1. PICK o \in Outcomes :
        /\ scope' = IF o.stored THEN [scope EXCEPT ![j.s] = [gen |-> j.gen + 1, key |-> nextKey]] ELSE scope
        /\ job' = [job EXCEPT ![w] = IF o.ok THEN next ELSE Idle]
  BY DEF Rotate, Proceeds
<1>2. o.ok => o.stored
  BY DEF Outcomes
<1>3. j \in Job /\ j.pc = "rotate" /\ j.s \in Scopes /\ j.gen \in Nat
  BY BoundsAssumption DEF Rotate, TypeInv, TypeOK, FlowsPlaced, Job, Gens
<1>4. UNCHANGED <<index, mem>> /\ job \in [Writers -> Job]
  BY DEF Rotate, TypeInv, TypeOK
<1>5. next.pc = "grant" /\ next.s = j.s /\ next.why = j.why /\ next.ttl = j.ttl /\ next.keep = j.keep
  BY <1>3 DEF Job
<1> HIDE DEF next
<1>6. job'[w] = (IF o.ok THEN next ELSE Idle) /\ \A v \in Writers \ {w} : job'[v] = job[v]
  BY <1>1, <1>4
<1>7. ASSUME NEW s \in Scopes, scope'[s].gen = 0 PROVE scope[s].gen = 0 /\ (o.stored => s # j.s)
  BY <1>1, <1>3, <1>7 DEF TypeInv, TypeOK
<1>8. ASSUME NEW s \in Scopes, scope'[s].gen = 0, Unissued(s)
      PROVE  mem'[w][s] = NoRecord /\ FlowIssues(job'[w], s)
  BY <1>2, <1>4, <1>5, <1>6, <1>7, <1>8, IdleType DEF Unissued, FlowIssues
<1>9. ASSUME NEW s \in Scopes, NEW t \in BOOLEAN, Dated(s, t)
      PROVE  EntryDated(mem'[w], s, t) /\ FlowDated(job'[w], mem'[w], s, t)
  BY <1>3, <1>4, <1>5, <1>6, <1>9, IdleType DEF Dated, FlowDated
<1> QED BY <1>4, <1>6, <1>7, <1>8, <1>9, DatedFrame DEF DatedInv

LEMMA DatedGrantNext ==
  ASSUME TypeInv, DatedInv, NEW w \in Writers, NEW a \in Agents, GrantNext(w, a)
  PROVE  DatedInv' /\ StayDated
<1> DEFINE j == job[w]
           next == IF j.why = "redeliver" THEN Idle ELSE [j EXCEPT !.todo = @ \ {a}]
<1>1. PICK o \in Outcomes : job' = [job EXCEPT ![w] = IF o.ok THEN next ELSE Idle]
  BY DEF GrantNext, Proceeds
<1>2. UNCHANGED <<index, scope, mem>> /\ job \in [Writers -> Job] /\ j \in Job
  BY DEF GrantNext, TypeInv, TypeOK
<1>3. next = Idle \/ (next.pc = j.pc /\ next.s = j.s /\ next.why = j.why /\ next.ttl = j.ttl /\ next.keep = j.keep)
  BY <1>2 DEF Job
<1> HIDE DEF next
<1>4. job'[w] \in {next, Idle} /\ \A v \in Writers \ {w} : job'[v] = job[v]
  BY <1>1, <1>2
<1> QED BY <1>2, <1>3, <1>4, IdleType, DatedSameFlow

\* What a save records keeps to the deadline of the issue, while the ledger keeps the terms.
LEMMA DatedSave ==
  ASSUME ~LedgerFull, TypeInv, DatedInv, NEW w \in Writers, Save(w)
  PROVE  DatedInv' /\ StayDated
<1> DEFINE j == job[w]
           r == mem[w][j.s]
           e == Recorded(j, r, r.ttl)
<1>1. Trimmed(r.ttl) = {r.ttl}
  BY DEF Trimmed
<1>2. mem' = [mem EXCEPT ![w][j.s] = e]
  BY <1>1 DEF Save
<1>3. j.pc = "grant" /\ j.s \in Scopes /\ j \in Job /\ r \in Record
  BY DEF Save, TypeInv, TypeOK, FlowsPlaced
<1>4. /\ job \in [Writers -> Job] /\ mem \in [Writers -> [Scopes -> Record]]
      /\ UNCHANGED scope /\ index' \in {index, mem'[w]}
  BY DEF Save, TypeInv, TypeOK
<1>5. PICK jj : job' = [job EXCEPT ![w] = jj] /\ jj.pc \in {"idle", "tell"}
  <2>1. [j EXCEPT !.pc = "tell"].pc = "tell" /\ Idle.pc = "idle"
    BY <1>3, IdleType DEF Job
  <2> QED BY <2>1 DEF Save, Proceeds
<1>6. job'[w].pc \in {"idle", "tell"} /\ \A v \in Writers \ {w} : job'[v] = job[v] /\ mem'[v] = mem[v]
  BY <1>2, <1>4, <1>5
<1> HIDE DEF e
<1>7. mem'[w][j.s] = e /\ \A s \in Scopes \ {j.s} : mem'[w][s] = mem[w][s]
  BY <1>2, <1>3, <1>4
<1>8. scope[j.s].gen # 0
  BY <1>3 DEF DatedInv, Unissued, FlowIssues
<1>9. ASSUME NEW t \in BOOLEAN, EntryDated(mem[w], j.s, t), FlowDated(j, mem[w], j.s, t)
      PROVE  IF t THEN e.grantees \subseteq e.ttl ELSE e.ttl = {}
  <2>1. IF t THEN r.grantees \subseteq r.ttl ELSE r.ttl = {}
    BY <1>9 DEF EntryDated
  <2>2. IF j.why \in {"issue", "add"} THEN j.ttl = t ELSE ~j.ttl /\ (t => j.keep \subseteq r.ttl)
    BY <1>3, <1>9 DEF FlowDated
  <2>3. CASE j.why = "add" /\ j.loose
    <3>1. e = [r EXCEPT !.ttl = IF j.ttl THEN r.ttl \cup j.keep ELSE r.ttl \ j.keep]
      BY <2>3 DEF e, Recorded
    <3>2. e.grantees = r.grantees /\ e.ttl = IF j.ttl THEN r.ttl \cup j.keep ELSE r.ttl \ j.keep
      BY <1>3, <3>1 DEF Record
    <3> QED BY <2>1, <2>2, <2>3, <3>2
  <2>4. CASE j.why = "add" /\ ~j.loose
    <3>1. e = [r EXCEPT !.grantees = @ \cup j.keep,
                        !.ttl = IF j.ttl THEN r.ttl \cup j.keep ELSE r.ttl \ j.keep]
      BY <2>4 DEF e, Recorded
    <3>2. /\ e.grantees = r.grantees \cup j.keep
          /\ e.ttl = IF j.ttl THEN r.ttl \cup j.keep ELSE r.ttl \ j.keep
      BY <1>3, <3>1 DEF Record
    <3> QED BY <2>1, <2>2, <2>4, <3>2
  <2>5. CASE j.why # "add"
    <3>1. e.grantees = j.keep /\ e.ttl = IF j.ttl THEN r.ttl \cup j.keep ELSE r.ttl
      BY <2>5 DEF e, Recorded
    <3> QED BY <2>1, <2>2, <2>5, <3>1
  <2> QED BY <2>3, <2>4, <2>5
<1>10. ASSUME NEW s \in Scopes, scope[s].gen = 0, Unissued(s)
       PROVE  mem'[w][s] = NoRecord /\ FlowIssues(job'[w], s)
  BY <1>6, <1>7, <1>8, <1>10 DEF Unissued, FlowIssues
<1>11. ASSUME NEW s \in Scopes, NEW t \in BOOLEAN, Dated(s, t)
       PROVE  EntryDated(mem'[w], s, t) /\ FlowDated(job'[w], mem'[w], s, t)
  <2>1. EntryDated(mem[w], s, t) /\ FlowDated(j, mem[w], s, t)
    BY <1>11 DEF Dated
  <2>2. EntryDated(mem'[w], s, t)
    BY <1>7, <1>9, <2>1 DEF EntryDated
  <2> QED BY <1>6, <2>2 DEF FlowDated
<1> QED BY <1>4, <1>6, <1>10, <1>11, DatedFrame DEF DatedInv

LEMMA DatedRest ==
  ASSUME TypeInv, DatedInv,
         \/ \E w \in Writers : Tell(w) \/ Crash(w)
         \/ \E s \in Scopes : Lapse(s) \/ \E a \in Agents : Relinquish(s, a)
         \/ UNCHANGED vars
  PROVE  DatedInv' /\ StayDated
<1>1. ASSUME NEW w \in Writers, Tell(w) \/ Crash(w) PROVE DatedInv' /\ StayDated
  <2>1. UNCHANGED relays /\ job' = [job EXCEPT ![w] = Idle] /\ mem' \in {mem, [mem EXCEPT ![w] = Empty]}
    BY <1>1 DEF Tell, Crash
  <2>2. /\ job'[w] = Idle /\ mem'[w] \in {mem[w], Empty}
        /\ \A v \in Writers \ {w} : job'[v] = job[v] /\ mem'[v] = mem[v]
    BY <2>1 DEF TypeInv, TypeOK
  <2> QED BY <2>1, <2>2, IdleType, DatedSameFlow DEF relays
<1>2. CASE UNCHANGED <<relays, mem, job>>
  BY <1>2 DEF relays, DatedInv, Unissued, FlowIssues, Dated, EntryDated, FlowDated, StayDated
<1> QED BY <1>1, <1>2 DEF Lapse, Relinquish, vars, relays

LEMMA DatedStep == ~LedgerFull /\ TypeInv /\ DatedInv /\ [Next]_vars => DatedInv' /\ StayDated
<1> SUFFICES ASSUME ~LedgerFull, TypeInv, DatedInv, [Next]_vars PROVE DatedInv' /\ StayDated
  OBVIOUS
<1>1. ASSUME NEW w \in Writers, Working(w) PROVE DatedInv' /\ StayDated
  BY <1>1, DatedRotate, DatedGrantNext, DatedSave, DatedRest DEF Working
<1> QED BY <1>1, DatedSweeping, DatedClicking, DatedReload, DatedRest DEF Next

\* rotateWithTerms, addGrantee and the ledger they read terms from: whatever publishes
\* failed, loads missed, pages closed and however many pages and daemons overlap, a
\* grantee that stays keeps its recorded deadline while the ledger is not full.
THEOREM Keeping ==
  ASSUME ~LedgerFull
  PROVE  Spec => DeadlinesKept
<1>1. Init => TypeInv /\ DatedInv
  BY TypeInit, DatedInit
<1>2. TypeInv /\ DatedInv /\ [Next]_vars => TypeInv' /\ DatedInv' /\ StayDated
  BY TypeStep, DatedStep
<1>3. StayDated => [StayDated]_vars
  OBVIOUS
<1> QED BY <1>1, <1>2, PTL DEF Spec, DeadlinesKept, StayDated

=============================================================================
