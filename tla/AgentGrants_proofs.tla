------------------------- MODULE AgentGrants_proofs -------------------------
(* Theorems of AgentGrants, for every value of its constants. *)
EXTENDS AgentGrants, WellFoundedInduction, TLAPS

---------------------------------------------------------------------------
(* The inductive invariants.                                               *)

\* A scope has at least the version it was created with, and no more than
\* the bound: what EventAnswers may answer is a version number.
PubsBounded == \A s \in Scopes : Len(pubs[s]) \in 1..MaxPubs

TypeInv == TypeOK /\ PubsBounded

\* An empty place in the store holds no key.
EmptyUnkeyed == \A s \in Scopes : store[s].gen = 0 => ~store[s].keyed

SealInv == TypeInv /\ StoreSealed /\ EmptyUnkeyed

\* The points of a call that has found its grant.
Holding == {"held", "fetching", "fetched", "got", "missing", "severance",
            "detecting", "cascading", "notifying"}
Serving == {"fetching", "fetched", "got"}

\* The object a call found carries the mark of every record that was there
\* when the call began, though it may have left the store since.
CallSealed(c) ==
  /\ calls[c].floor <= Dead(calls[c].s)
  /\ calls[c].pc \in Holding =>
       /\ Obj(c).gen > 0
       /\ Obj(c).gen <= calls[c].floor => Obj(c).revoked \/ Obj(c).relinquished
  /\ calls[c].pc \in Serving => Obj(c).gen > calls[c].floor

ServeInv == SealInv /\ \A c \in Calls : CallSealed(c)

---------------------------------------------------------------------------
(* The operators keep their types.                                         *)

\* The idle call, whose scope is an arbitrary one, is a call.
LEMMA IdleType == IdleCall \in Call
<1>1. (CHOOSE s \in Scopes : TRUE) \in Scopes
  BY ScopesAssumption
<1>2. NoGrant \in Held /\ 0 \in Gens0 /\ 0 \in Vers0
  BY BoundsAssumption DEF NoGrant, Held, Gens0, Vers0
<1>3. QED
  BY <1>1, <1>2 DEF IdleCall, Call, Pcs, Ops

\* Greater is the maximum of two generations.
LEMMA GreaterIsMax ==
  ASSUME NEW a \in Gens0, NEW b \in Gens0
  PROVE  /\ Greater(a, b) \in Gens0
         /\ Greater(a, b) >= a /\ Greater(a, b) >= b
         /\ Greater(a, b) = a \/ Greater(a, b) = b
BY BoundsAssumption DEF Greater, Gens0

\* Marking keeps a grant's generation, and its marks only accumulate.
LEMMA MarkedAccumulates ==
  ASSUME NEW s \in Scopes, NEW g \in Held,
         NEW rev \in [Scopes -> Gens0], NEW rel \in [Scopes -> Gens0]
  PROVE  /\ Marked(s, g, rev, rel) \in Held
         /\ Marked(s, g, rev, rel).gen = g.gen
         /\ Marked(s, g, rev, rel).revoked
              <=> g.revoked \/ (g.gen > 0 /\ g.gen <= rev[s])
         /\ Marked(s, g, rev, rel).relinquished
              <=> g.relinquished \/ (g.gen > 0 /\ g.gen <= rel[s])
         /\ Marked(s, g, rev, rel).keyed
              <=> g.keyed /\ g.gen > rev[s] /\ g.gen > rel[s]
BY DEF Marked, Held

LEMMA UnwrappedType ==
  ASSUME NEW g \in Gens0
  PROVE  Unwrapped(g) \in Held
BY DEF Unwrapped, Held

\* A refreshed store and a marked store are stores.
LEMMA RefreshedType ==
  ASSUME TypeOK, NEW a \in [Scopes -> Gens0]
  PROVE  Refreshed(a) \in [Scopes -> Held]
BY UnwrappedType, MarkedAccumulates DEF Refreshed, TypeOK

LEMMA MarkedStoreType ==
  ASSUME TypeOK,
         NEW rev \in [Scopes -> Gens0], NEW rel \in [Scopes -> Gens0]
  PROVE  MarkedStore(rev, rel) \in [Scopes -> Held]
BY MarkedAccumulates DEF MarkedStore, TypeOK

LEMMA ObjType ==
  ASSUME TypeOK, NEW c \in Calls
  PROVE  Obj(c) \in Held
BY DEF Obj, TypeOK, Call

\* The effects on other calls keep them calls.
LEMMA EffectsType ==
  ASSUME TypeOK, NEW s \in Scopes
  PROVE  /\ Scrubbed(s) \in [Calls -> Call]
         /\ Unshared(s) \in [Calls -> Call]
         /\ Detached \in [Calls -> Call]
<1>1. Scrubbed(s) \in [Calls -> Call]
  <2> SUFFICES ASSUME NEW d \in Calls
               PROVE  [calls[d] EXCEPT !.shared = FALSE, !.data = FALSE] \in Call
    BY DEF Scrubbed, TypeOK
  <2>1. calls[d] \in Call
    BY DEF TypeOK
  <2> QED
    BY <2>1, Zenon DEF Call
<1>2. Unshared(s) \in [Calls -> Call]
  <2> SUFFICES ASSUME NEW d \in Calls
               PROVE  [calls[d] EXCEPT !.shared = FALSE] \in Call
    BY DEF Unshared, TypeOK
  <2>1. calls[d] \in Call
    BY DEF TypeOK
  <2> QED
    BY <2>1, Zenon DEF Call
<1>3. Detached \in [Calls -> Call]
  <2> SUFFICES ASSUME NEW d \in Calls
               PROVE  [calls[d] EXCEPT !.cur = FALSE,
                                       !.held = store[calls[d].s]] \in Call
    BY DEF Detached, TypeOK
  <2>1. calls[d].s \in Scopes
    BY DEF TypeOK, Call
  <2>2. store[calls[d].s] \in Held
    BY <2>1 DEF TypeOK
  <2>3. calls[d] \in Call
    BY DEF TypeOK
  <2> QED
    BY <2>2, <2>3, Zenon DEF Call
<1> QED
  BY <1>1, <1>2, <1>3

\* Moving a call on to another point of its handler keeps it a call.
LEMMA PcType ==
  ASSUME NEW base \in [Calls -> Call], NEW c \in Calls, NEW p \in Pcs
  PROVE  [base EXCEPT ![c].pc = p] \in [Calls -> Call]
<1>1. base[c] \in Call /\ [base[c] EXCEPT !.pc = p] \in Call
  BY DEF Call
<1> QED
  BY <1>1

LEMMA ResolvedType ==
  ASSUME NEW k \in Call, NEW st, NEW r \in Resolved(k, st)
  PROVE  r \in Call
<1>1. [k EXCEPT !.pc = "held", !.cur = TRUE, !.forced = FALSE] \in Call
  BY Zenon DEF Call, Pcs
<1>2. [k EXCEPT !.pc = "listing", !.forced = TRUE] \in Call
  BY Zenon DEF Call, Pcs
<1>3. \/ r = [k EXCEPT !.pc = "held", !.cur = TRUE, !.forced = FALSE]
      \/ r = [k EXCEPT !.pc = "listing", !.forced = TRUE]
      \/ r = IdleCall
  BY Zenon DEF Resolved
<1> QED
  BY <1>1, <1>2, <1>3, IdleType

\* What a relay answers is a version number.
LEMMA AnswersType ==
  ASSUME TypeInv, NEW s \in Scopes
  PROVE  EventAnswers(s) \subseteq Vers0 /\ 0 \in Vers0
BY BoundsAssumption DEF EventAnswers, TypeInv, PubsBounded, Vers0

---------------------------------------------------------------------------
(* Typing.                                                                 *)

\* A grant can be sent at any time: a scope has a current generation.
LEMMA LastGenType ==
  ASSUME TypeInv, NEW s \in Scopes
  PROVE  LastGen(s) \in Gens
<1>1. pubs[s] \in Seq(Gens) /\ Len(pubs[s]) \in 1..Len(pubs[s])
  BY DEF TypeInv, TypeOK, PubsBounded
<1> QED
  BY <1>1 DEF LastGen

LEMMA TypeInit == Init => TypeInv
<1> SUFFICES ASSUME Init PROVE TypeInv
  OBVIOUS
<1>1. 1 \in Gens /\ 0 \in Gens0 /\ 0 \in Vers0 /\ 1 \in 1..MaxPubs
  BY BoundsAssumption DEF Gens, Gens0, Vers0
<1>2. pubs \in [Scopes -> Seq(Gens)] /\ PubsBounded
  BY <1>1 DEF Init, PubsBounded
<1>3. calls \in [Calls -> Call]
  BY IdleType DEF Init
<1>4. store \in [Scopes -> Held] /\ entry \in [Scopes -> Entry]
  BY <1>1 DEF Init, NoGrant, NoEntry, Held, Entry
<1>5. runs \in 0..MaxRestarts
  BY BoundsAssumption DEF Init
<1> QED
  BY <1>1, <1>2, <1>3, <1>4, <1>5 DEF Init, TypeInv, TypeOK

\* The delegator, the clock and the cache's sweep.
LEMMA TypeEnvironment ==
  ASSUME TypeInv, \/ \E s \in Scopes : Delegator(s)
                  \/ Clock
                  \/ Restart
  PROVE  TypeInv'
<1> USE DEF TypeInv, TypeOK
<1>1. ASSUME NEW s \in Scopes, Publish(s) PROVE TypeInv'
  <2>1. PICK g \in {LastGen(s), LastGen(s) + 1} :
          g <= MaxGen /\ pubs' = [pubs EXCEPT ![s] = Append(@, g)]
    BY <1>1 DEF Publish
  <2>2. g \in Gens
    BY <2>1, LastGenType, BoundsAssumption DEF Gens
  <2>3. pubs' \in [Scopes -> Seq(Gens)]
    BY <2>1, <2>2
  <2>4. PubsBounded'
    <3> SUFFICES ASSUME NEW r \in Scopes PROVE Len(pubs'[r]) \in 1..MaxPubs
      BY DEF PubsBounded
    <3>1. CASE r = s
      <4>1. pubs'[s] = Append(pubs[s], g)
        BY <2>1
      <4>2. Len(pubs'[s]) = Len(pubs[s]) + 1
        BY <4>1, <2>2
      <4>3. Len(pubs[s]) \in 1..MaxPubs /\ Len(pubs[s]) < MaxPubs
        BY <1>1 DEF Publish, PubsBounded
      <4> QED
        BY <3>1, <4>2, <4>3, BoundsAssumption
    <3>2. CASE r # s
      BY <3>2, <2>1 DEF PubsBounded
    <3> QED
      BY <3>1, <3>2
  <2> QED
    BY <1>1, <2>3, <2>4 DEF Publish, marks
<1>2. ASSUME NEW s \in Scopes, Grant(s) PROVE TypeInv'
  BY <1>2, LastGenType DEF Grant, marks, PubsBounded
<1>3. ASSUME NEW s \in Scopes, SendNotice(s) PROVE TypeInv'
  BY <1>3 DEF SendNotice, marks, PubsBounded
<1>4. ASSUME NEW s \in Scopes, NEW g \in Gens, Lapse(s, g) PROVE TypeInv'
  BY <1>4 DEF Lapse, marks, PubsBounded
<1>5. CASE AgeIndex
  BY <1>5 DEF AgeIndex, env, marks, PubsBounded
<1>6. ASSUME NEW s \in Scopes, AgeEntry(s) PROVE TypeInv'
  BY <1>6 DEF AgeEntry, env, marks, PubsBounded, Entry
<1>7. ASSUME NEW s \in Scopes, SweepEntry(s) PROVE TypeInv'
  <2>1. NoEntry \in Entry
    BY AnswersType DEF NoEntry, Entry
  <2> QED
    BY <1>7, <2>1, EffectsType DEF SweepEntry, env, marks, PubsBounded
<1>8. CASE Restart
  <2>1. 0 \in Gens0 /\ 0 \in Vers0 /\ NoGrant \in Held /\ NoEntry \in Entry
    BY BoundsAssumption DEF Gens0, Vers0, NoGrant, Held, NoEntry, Entry
  <2>2. runs' \in 0..MaxRestarts
    BY <1>8, BoundsAssumption DEF Restart
  <2> QED
    BY <1>8, <2>1, <2>2, IdleType DEF Restart, env, PubsBounded
<1> QED
  BY <1>1, <1>2, <1>3, <1>4, <1>5, <1>6, <1>7, <1>8 DEF Delegator, Clock

\* The steps of a call.
LEMMA TypeCall ==
  ASSUME TypeInv, NEW c \in Calls, Proceed(c) \/ QueryThrows(c)
  PROVE  TypeInv'
<1> USE DEF TypeInv, TypeOK
<1> DEFINE k == calls[c]
<1>1. k \in Call /\ k.s \in Scopes /\ Obj(c) \in Held /\ NoEntry \in Entry
  BY ObjType, AnswersType DEF Call, NoEntry, Entry
<1>2. ASSUME NEW r \in Call, NEW base \in [Calls -> Call]
      PROVE  [base EXCEPT ![c] = r] \in [Calls -> Call]
  OBVIOUS
<1>3. CASE ListAnswered(c)
  <2>1. PICK a \in [Scopes -> Gens0] :
          calls' = [calls EXCEPT ![c].pc = "unwrapping", ![c].wrapped = a]
    BY <1>3 DEF ListAnswered
  <2>2. [k EXCEPT !.pc = "unwrapping", !.wrapped = a] \in Call
    BY <1>1 DEF Call, Pcs
  <2>3. calls' \in [Calls -> Call]
    BY <2>1, <2>2
  <2> QED
    BY <1>3, <2>3 DEF ListAnswered, env, marks, PubsBounded
<1>4. CASE ListInstalled(c)
  <2>1. k.wrapped \in [Scopes -> Gens0]
    BY <1>1 DEF Call
  <2>2. store' \in [Scopes -> Held]
    BY <1>4, <2>1, RefreshedType DEF ListInstalled
  <2>3. [k EXCEPT !.wrapped = IdleCall.wrapped] \in Call
    BY <1>1, IdleType DEF Call
  <2>4. PICK r \in Resolved([k EXCEPT !.wrapped = IdleCall.wrapped], store') :
          calls' = [Detached EXCEPT ![c] = r]
    BY <1>4 DEF ListInstalled
  <2>5. r \in Call
    BY <2>3, ResolvedType
  <2>6. Detached \in [Calls -> Call]
    BY <1>1, EffectsType
  <2> QED
    BY <1>4, <2>2, <2>4, <2>5, <2>6, <1>2
       DEF ListInstalled, env, marks, PubsBounded
<1>5. CASE Refuse(c)
  BY <1>5, IdleType DEF Refuse, Finish, env, marks, PubsBounded
<1>6. CASE AskSeverance(c)
  BY <1>6, <1>1 DEF AskSeverance, env, marks, PubsBounded, Call, Pcs
<1>7. CASE SeveranceAnswered(c)
  <2>1. calls' = [calls EXCEPT ![c].pc = "detecting"] \/ Finish(c)
    BY <1>7 DEF SeveranceAnswered
  <2>2. calls' \in [Calls -> Call]
    <3>1. [calls EXCEPT ![c].pc = "detecting"] \in [Calls -> Call]
      BY PcType DEF Pcs
    <3>2. [calls EXCEPT ![c] = IdleCall] \in [Calls -> Call]
      BY IdleType
    <3> QED
      BY <2>1, <3>1, <3>2 DEF Finish
  <2> QED
    BY <1>7, <2>2 DEF SeveranceAnswered, env, marks, PubsBounded
<1>8. CASE ReadHit(c)
  <2>1. entry[k.s].n \in Vers0
    BY <1>1 DEF Entry
  <2>2. calls' \in [Calls -> Call]
    BY <1>8, <2>1, <1>1 DEF ReadHit, Call, Pcs
  <2> QED
    BY <1>8, <2>2 DEF ReadHit, env, marks, PubsBounded
<1>9. CASE ReadFetch(c)
  BY <1>9, <1>1 DEF ReadFetch, env, marks, PubsBounded, Call, Pcs
<1>10. CASE FetchAnswered(c)
  <2>1. PICK n \in EventAnswers(k.s) :
          calls' = [calls EXCEPT ![c].pc = "fetched", ![c].n = n]
    BY <1>10 DEF FetchAnswered
  <2>2. n \in Vers0
    BY <1>1, AnswersType
  <2>3. calls' \in [Calls -> Call]
    BY <2>1, <2>2, <1>1 DEF Call, Pcs
  <2> QED
    BY <1>10, <2>3 DEF FetchAnswered, env, marks, PubsBounded
<1>11. CASE FetchOk(c)
  <2>1. [k EXCEPT !.pc = "got", !.shared = TRUE, !.data = TRUE] \in Call
    BY <1>1 DEF Call, Pcs
  <2>2. calls' \in [Calls -> Call]
    BY <1>11, <2>1, <1>1, <1>2, EffectsType DEF FetchOk
  <2>3. entry' \in [Scopes -> Entry]
    BY <1>11, <1>1 DEF FetchOk, Entry, Call
  <2> QED
    BY <1>11, <2>2, <2>3 DEF FetchOk, env, marks, PubsBounded
<1>12. CASE FetchStale(c)
  <2>1. [k EXCEPT !.pc = "detecting"] \in Call
    BY <1>1 DEF Call, Pcs
  <2>2. calls' \in [Calls -> Call]
    BY <1>12, <2>1, <1>1, <1>2, EffectsType DEF FetchStale
  <2> QED
    BY <1>12, <2>2, <1>1 DEF FetchStale, env, marks, PubsBounded
<1>13. CASE FetchMissing(c)
  <2>1. [k EXCEPT !.pc = "missing"] \in Call
    BY <1>1 DEF Call, Pcs
  <2>2. calls' \in [Calls -> Call]
    BY <1>13, <2>1, <1>1, <1>2, EffectsType, IdleType DEF FetchMissing
  <2> QED
    BY <1>13, <2>2, <1>1 DEF FetchMissing, env, marks, PubsBounded
<1>14. CASE MissingResolved(c)
  <2>1. calls' = [calls EXCEPT ![c].pc = "detecting"] \/ Finish(c)
    BY <1>14 DEF MissingResolved
  <2>2. calls' \in [Calls -> Call]
    <3>1. [calls EXCEPT ![c].pc = "detecting"] \in [Calls -> Call]
      BY PcType DEF Pcs
    <3>2. [calls EXCEPT ![c] = IdleCall] \in [Calls -> Call]
      BY IdleType
    <3> QED
      BY <2>1, <3>1, <3>2 DEF Finish
  <2> QED
    BY <1>14, <2>2 DEF MissingResolved, env, marks, PubsBounded
<1>15. CASE Detect(c)
  <2> DEFINE rev == [revGen EXCEPT ![k.s] = Greater(@, Obj(c).gen)]
  <2>1. rev \in [Scopes -> Gens0]
    BY <1>1, GreaterIsMax DEF Held
  <2>2. MarkedStore(rev, relGen) \in [Scopes -> Held]
    BY <2>1, MarkedStoreType
  <2>3. calls' \in [Calls -> Call]
    <3>1. [Scrubbed(k.s) EXCEPT ![c].pc = "cascading"] \in [Calls -> Call]
      BY <1>1, EffectsType, PcType DEF Pcs
    <3> QED
      BY <1>15, <3>1 DEF Detect
  <2> QED
    BY <1>15, <1>1, <2>1, <2>2, <2>3 DEF Detect, env, PubsBounded
<1>16. CASE Relinquish(c)
  <2> DEFINE rel == [relGen EXCEPT ![k.s] = Greater(@, Obj(c).gen)]
  <2>1. rel \in [Scopes -> Gens0]
    BY <1>1, GreaterIsMax DEF Held
  <2>2. MarkedStore(revGen, rel) \in [Scopes -> Held]
    BY <2>1, MarkedStoreType
  <2>3. calls' \in [Calls -> Call]
    <3>1. [Scrubbed(k.s) EXCEPT ![c].pc = "notifying"] \in [Calls -> Call]
      BY <1>1, EffectsType, PcType DEF Pcs
    <3> QED
      BY <1>16, <3>1 DEF Relinquish
  <2>4. destroyed' \in [Scopes -> Gens0]
    BY <1>16, <1>1, GreaterIsMax DEF Relinquish, Held
  <2> QED
    BY <1>16, <1>1, <2>1, <2>2, <2>3, <2>4 DEF Relinquish, env, PubsBounded
<1>17. CASE Answer(c) \/ QueryThrows(c)
  BY <1>17, IdleType DEF Answer, QueryThrows, Finish, env, marks, PubsBounded
<1> QED
  BY <1>3, <1>4, <1>5, <1>6, <1>7, <1>8, <1>9, <1>10, <1>11, <1>12, <1>13,
     <1>14, <1>15, <1>16, <1>17 DEF Proceed

LEMMA TypeBegin ==
  ASSUME TypeInv, NEW c \in Calls, NEW op \in Ops, NEW s \in Scopes,
         Begin(c, op, s)
  PROVE  TypeInv'
<1> USE DEF TypeInv, TypeOK
<1> DEFINE k == [IdleCall EXCEPT !.op = op, !.s = s, !.floor = Dead(s)]
<1>1. k \in Call /\ [k EXCEPT !.pc = "listing"] \in Call
  BY IdleType, GreaterIsMax DEF Call, Pcs, Dead
<1>2. PICK r : /\ r \in IF index = "fresh" THEN Resolved(k, store)
                        ELSE {[k EXCEPT !.pc = "listing"]}
               /\ calls' = [calls EXCEPT ![c] = r]
  BY DEF Begin
<1>3. r \in Call
  BY <1>1, <1>2, ResolvedType
<1> QED
  BY <1>2, <1>3 DEF Begin, env, marks, PubsBounded

LEMMA TypeStep == TypeInv /\ [Next]_vars => TypeInv'
<1>1. TypeInv /\ UNCHANGED vars => TypeInv'
  BY DEF TypeInv, TypeOK, PubsBounded, vars
<1> QED
  BY <1>1, TypeEnvironment, TypeCall, TypeBegin DEF Next

LEMMA TypeInvariant == Spec => []TypeInv
BY TypeInit, TypeStep, PTL DEF Spec

\* Every reachable state of the agent's memory and of the relays is typed.
THEOREM Typing == Spec => []TypeOK
<1>1. TypeInv => TypeOK
  BY DEF TypeInv
<1> QED
  BY <1>1, TypeInvariant, PTL

---------------------------------------------------------------------------
(* The store is sealed.                                                    *)

\* The actions that touch neither the store nor its records.
LEMMA Untouched ==
  ASSUME [Next]_vars,
         ~(\E c \in Calls : ListInstalled(c) \/ Detect(c) \/ Relinquish(c)),
         ~Restart
  PROVE  UNCHANGED <<store, revGen, relGen>>
<1>1. ASSUME NEW c \in Calls, Proceed(c) \/ QueryThrows(c)
      PROVE  UNCHANGED <<store, revGen, relGen>>
  BY <1>1 DEF Proceed, QueryThrows, ListAnswered, Refuse, AskSeverance,
     SeveranceAnswered, ReadHit, ReadFetch, FetchAnswered, FetchOk, FetchStale,
     FetchMissing, MissingResolved, Answer, marks
<1>2. ASSUME NEW s \in Scopes, Delegator(s)
      PROVE  UNCHANGED <<store, revGen, relGen>>
  BY <1>2 DEF Delegator, Publish, Grant, SendNotice, marks
<1>3. CASE Clock
  BY <1>3 DEF Clock, AgeIndex, AgeEntry, SweepEntry, Lapse, marks
<1>4. ASSUME NEW c \in Calls, NEW op \in Ops, NEW s \in Scopes, Begin(c, op, s)
      PROVE  UNCHANGED <<store, revGen, relGen>>
  BY <1>4 DEF Begin, marks
<1> QED
  BY <1>1, <1>2, <1>3, <1>4 DEF Next, vars

\* Marking a sealed store for records no lower than before seals it.
LEMMA MarkingSeals ==
  ASSUME SealInv,
         NEW rev \in [Scopes -> Gens0], NEW rel \in [Scopes -> Gens0],
         \A s \in Scopes : rev[s] >= revGen[s] /\ rel[s] >= relGen[s],
         store' = MarkedStore(rev, rel), revGen' = rev, relGen' = rel
  PROVE  /\ StoreSealed' /\ EmptyUnkeyed'
         /\ \A s \in Scopes : /\ store'[s].gen = store[s].gen
                              /\ store[s].revoked => store'[s].revoked
                              /\ store[s].relinquished => store'[s].relinquished
                              /\ store'[s].keyed => store[s].keyed
<1> USE DEF SealInv, TypeInv, TypeOK
<1>1. ASSUME NEW s \in Scopes
      PROVE  /\ store[s] \in Held
             /\ store[s].gen \in Nat /\ revGen[s] \in Nat /\ relGen[s] \in Nat
             /\ rev[s] \in Nat /\ rel[s] \in Nat
  BY BoundsAssumption DEF Held, Gens0
<1>2. ASSUME NEW s \in Scopes
      PROVE  store'[s] = Marked(s, store[s], rev, rel)
  BY DEF MarkedStore
<1>3. ASSUME NEW s \in Scopes
      PROVE  /\ store'[s].gen = store[s].gen
             /\ store'[s].revoked
                  <=> store[s].revoked \/ (store[s].gen > 0 /\ store[s].gen <= rev[s])
             /\ store'[s].relinquished
                  <=> store[s].relinquished
                      \/ (store[s].gen > 0 /\ store[s].gen <= rel[s])
             /\ store'[s].keyed
                  <=> store[s].keyed /\ store[s].gen > rev[s] /\ store[s].gen > rel[s]
  <2>1. PICK h \in Held : h = store[s]
    BY <1>1
  <2>2. store'[s] = Marked(s, h, rev, rel)
    BY <1>2, <2>1
  <2> HIDE DEF SealInv, TypeInv, TypeOK
  <2>3. /\ store'[s].gen = h.gen
        /\ store'[s].revoked <=> h.revoked \/ (h.gen > 0 /\ h.gen <= rev[s])
        /\ store'[s].relinquished
             <=> h.relinquished \/ (h.gen > 0 /\ h.gen <= rel[s])
        /\ store'[s].keyed <=> h.keyed /\ h.gen > rev[s] /\ h.gen > rel[s]
    BY <2>2 DEF Marked, Held
  <2> QED
    BY <2>1, <2>3
<1>4. StoreSealed'
  <2> SUFFICES ASSUME NEW s \in Scopes, store'[s].gen > 0
               PROVE  /\ store'[s].revoked <=> store'[s].gen <= rev[s]
                      /\ store'[s].relinquished <=> store'[s].gen <= rel[s]
                      /\ store'[s].keyed <=> store'[s].gen > Greater(rev[s], rel[s])
    BY DEF StoreSealed, Dead
  <2>1. /\ store[s].revoked <=> store[s].gen <= revGen[s]
        /\ store[s].relinquished <=> store[s].gen <= relGen[s]
        /\ store[s].keyed <=> store[s].gen > Greater(revGen[s], relGen[s])
    BY <1>3 DEF StoreSealed, Dead
  <2> QED
    BY <1>1, <1>3, <2>1 DEF Greater
<1>5. EmptyUnkeyed'
  BY <1>3 DEF EmptyUnkeyed
<1> QED
  BY <1>3, <1>4, <1>5

\* The two records of a step only grow.
LEMMA RecordsGrow ==
  ASSUME TypeInv, NEW c \in Calls, NEW old \in [Scopes -> Gens0], NEW s \in Scopes
  PROVE  /\ [old EXCEPT ![s] = Greater(@, Obj(c).gen)] \in [Scopes -> Gens0]
         /\ \A r \in Scopes :
              [old EXCEPT ![s] = Greater(@, Obj(c).gen)][r] >= old[r]
<1>1. Obj(c).gen \in Gens0 /\ old[s] \in Gens0
  BY ObjType DEF TypeInv, Held
<1>2. Greater(old[s], Obj(c).gen) \in Gens0 /\ Greater(old[s], Obj(c).gen) >= old[s]
  BY <1>1, GreaterIsMax
<1>3. \A r \in Scopes : old[r] >= old[r]
  BY BoundsAssumption DEF Gens0
<1> QED
  BY <1>2, <1>3

\* What Detect and Relinquish do to the store and its records.
LEMMA MarkingStep ==
  ASSUME SealInv, NEW c \in Calls, Detect(c) \/ Relinquish(c)
  PROVE  /\ StoreSealed' /\ EmptyUnkeyed'
         /\ \A s \in Scopes : /\ store'[s].gen = store[s].gen
                              /\ store[s].revoked => store'[s].revoked
                              /\ store[s].relinquished => store'[s].relinquished
                              /\ store'[s].keyed => store[s].keyed
         /\ \A s \in Scopes : revGen'[s] >= revGen[s] /\ relGen'[s] >= relGen[s]
<1> DEFINE s == calls[c].s
<1>1. s \in Scopes /\ revGen \in [Scopes -> Gens0] /\ relGen \in [Scopes -> Gens0]
  BY DEF SealInv, TypeInv, TypeOK, Call
<1>2. TypeInv
  BY DEF SealInv
<1>3. \A r \in Scopes : revGen[r] >= revGen[r] /\ relGen[r] >= relGen[r]
  BY <1>1, BoundsAssumption DEF Gens0
<1>4. CASE Detect(c)
  <2> DEFINE rev == [revGen EXCEPT ![s] = Greater(@, Obj(c).gen)]
  <2>1. revGen' = rev /\ relGen' = relGen /\ store' = MarkedStore(rev, relGen)
    BY <1>4 DEF Detect
  <2>2. rev \in [Scopes -> Gens0] /\ \A r \in Scopes : rev[r] >= revGen[r]
    BY <1>1, <1>2, RecordsGrow
  <2> HIDE DEF rev, s
  <2> QED
    BY <1>1, <1>3, <2>1, <2>2, MarkingSeals
<1>5. CASE Relinquish(c)
  <2> DEFINE rel == [relGen EXCEPT ![s] = Greater(@, Obj(c).gen)]
  <2>1. relGen' = rel /\ revGen' = revGen /\ store' = MarkedStore(revGen, rel)
    BY <1>5 DEF Relinquish
  <2>2. rel \in [Scopes -> Gens0] /\ \A r \in Scopes : rel[r] >= relGen[r]
    BY <1>1, <1>2, RecordsGrow
  <2> HIDE DEF rel, s
  <2> QED
    BY <1>1, <1>3, <2>1, <2>2, MarkingSeals
<1> QED
  BY <1>4, <1>5

\* A refresh re-applies every record to whatever the relay answered.
LEMMA RefreshSeals ==
  ASSUME SealInv, NEW c \in Calls, ListInstalled(c)
  PROVE  StoreSealed' /\ EmptyUnkeyed'
<1> USE DEF SealInv, TypeInv, TypeOK
<1>1. calls[c].wrapped \in [Scopes -> Gens0]
  BY DEF Call
<1>2. store' = Refreshed(calls[c].wrapped) /\ revGen' = revGen /\ relGen' = relGen
  BY DEF ListInstalled, marks
<1>3. ASSUME NEW s \in Scopes
      PROVE  /\ revGen[s] \in Nat /\ relGen[s] \in Nat /\ store'[s].gen \in Nat
             /\ store'[s].revoked
                  <=> store'[s].gen > 0 /\ store'[s].gen <= revGen[s]
             /\ store'[s].relinquished
                  <=> store'[s].gen > 0 /\ store'[s].gen <= relGen[s]
             /\ store'[s].keyed
                  <=> /\ store'[s].gen > 0
                      /\ store'[s].gen > revGen[s] /\ store'[s].gen > relGen[s]
  <2>1. PICK g \in Gens0 : g = calls[c].wrapped[s]
    BY <1>1
  <2>2. store'[s] = Marked(s, Unwrapped(g), revGen, relGen)
    BY <1>2, <2>1 DEF Refreshed
  <2>3. g \in Nat /\ revGen[s] \in Nat /\ relGen[s] \in Nat
    BY BoundsAssumption DEF Gens0
  <2> QED
    BY <2>2, <2>3 DEF Marked, Unwrapped
<1>4. StoreSealed'
  <2> SUFFICES ASSUME NEW s \in Scopes, store'[s].gen > 0
               PROVE  /\ store'[s].revoked <=> store'[s].gen <= revGen[s]
                      /\ store'[s].relinquished <=> store'[s].gen <= relGen[s]
                      /\ store'[s].keyed
                           <=> store'[s].gen > Greater(revGen[s], relGen[s])
    BY <1>2 DEF StoreSealed, Dead
  <2> QED
    BY <1>3 DEF Greater
<1>5. EmptyUnkeyed'
  BY <1>3 DEF EmptyUnkeyed
<1> QED
  BY <1>4, <1>5

LEMMA SealInit == Init => SealInv
<1> SUFFICES ASSUME Init PROVE StoreSealed /\ EmptyUnkeyed
  BY TypeInit DEF SealInv
<1> QED
  BY DEF Init, NoGrant, StoreSealed, EmptyUnkeyed

LEMMA SealStep == SealInv /\ [Next]_vars => SealInv'
<1> SUFFICES ASSUME SealInv, [Next]_vars PROVE SealInv'
  OBVIOUS
<1>1. TypeInv'
  BY TypeStep DEF SealInv
<1>2. ASSUME NEW c \in Calls, ListInstalled(c) PROVE StoreSealed' /\ EmptyUnkeyed'
  BY <1>2, RefreshSeals
<1>3. ASSUME NEW c \in Calls, Detect(c) \/ Relinquish(c)
      PROVE  StoreSealed' /\ EmptyUnkeyed'
  BY <1>3, MarkingStep
<1>4. CASE Restart
  BY <1>1, <1>4 DEF Restart, NoGrant, SealInv, StoreSealed, EmptyUnkeyed
<1>5. CASE UNCHANGED <<store, revGen, relGen>>
  BY <1>1, <1>5 DEF SealInv, StoreSealed, EmptyUnkeyed, Dead
<1> QED
  BY <1>1, <1>2, <1>3, <1>4, <1>5, Untouched DEF SealInv

LEMMA SealInvariant == Spec => []SealInv
BY SealInit, SealStep, PTL DEF Spec

\* The marks and key bytes in the store always agree with the records of
\* revocation and relinquishment, however list(), markRevoked and
\* markRelinquished of concurrent calls interleave.
THEOREM Sealed == Spec => []StoreSealed
<1>1. SealInv => StoreSealed
  BY DEF SealInv
<1> QED
  BY <1>1, SealInvariant, PTL

---------------------------------------------------------------------------
(* No call serves a grant that was dead when the call began.               *)

\* Call d keeps its scope, its floor and its object.
Same(d) ==
  /\ calls'[d].s = calls[d].s /\ calls'[d].floor = calls[d].floor
  /\ calls'[d].cur = calls[d].cur /\ calls'[d].held = calls[d].held

\* Call d moves on: it found its object before, and serves only what it
\* already served or what it has just seen alive.
Continues(d) ==
  /\ calls'[d].pc \in Holding => calls[d].pc \in Holding
  /\ calls'[d].pc \in Serving =>
       calls[d].pc \in Serving \/ (~Obj(d).revoked /\ ~Obj(d).relinquished)

\* Whichever object call d has now, it is of the same generation and lost
\* no mark.
ObjKept(d) ==
  /\ Obj(d)'.gen = Obj(d).gen
  /\ Obj(d).revoked => Obj(d)'.revoked
  /\ Obj(d).relinquished => Obj(d)'.relinquished

\* Dead(s) is a generation and grows with the records.
LEMMA DeadGrows ==
  ASSUME TypeInv, TypeInv', NEW s \in Scopes,
         revGen'[s] >= revGen[s], relGen'[s] >= relGen[s]
  PROVE  Dead(s) \in Nat /\ Dead(s)' \in Nat /\ Dead(s)' >= Dead(s)
<1>1. /\ revGen[s] \in Nat /\ relGen[s] \in Nat
      /\ revGen'[s] \in Nat /\ relGen'[s] \in Nat
  BY BoundsAssumption DEF TypeInv, TypeOK, Gens0
<1> QED
  BY <1>1 DEF Dead, Greater

\* A call that continues with an object that was kept stays sealed.
LEMMA Carried ==
  ASSUME TypeInv, TypeInv', NEW d \in Calls, CallSealed(d),
         calls'[d].s = calls[d].s, calls'[d].floor = calls[d].floor,
         Continues(d), ObjKept(d),
         \A s \in Scopes : revGen'[s] >= revGen[s] /\ relGen'[s] >= relGen[s]
  PROVE  CallSealed(d)'
<1>1. calls[d].s \in Scopes /\ calls[d].floor \in Nat /\ Obj(d).gen \in Nat
  <2>1. calls[d] \in Call /\ Obj(d) \in Held
    BY ObjType DEF TypeInv, TypeOK
  <2>2. Gens0 \subseteq Nat
    BY BoundsAssumption DEF Gens0
  <2>3. calls[d].s \in Scopes /\ calls[d].floor \in Gens0
    BY <2>1 DEF Call
  <2>4. Obj(d).gen \in Gens0
    BY <2>1 DEF Held
  <2> QED
    BY <2>2, <2>3, <2>4
<1>2. Dead(calls[d].s) \in Nat /\ Dead(calls[d].s)' \in Nat
      /\ Dead(calls[d].s)' >= Dead(calls[d].s)
  BY <1>1, DeadGrows
<1>3. calls'[d].floor <= Dead(calls[d].s)'
  BY <1>1, <1>2 DEF CallSealed
<1>4. calls'[d].pc \in Holding =>
        /\ Obj(d)'.gen > 0
        /\ Obj(d)'.gen <= calls'[d].floor => Obj(d)'.revoked \/ Obj(d)'.relinquished
  BY DEF CallSealed, Continues, ObjKept
<1>5. Serving \subseteq Holding
  BY DEF Serving, Holding
<1>6. calls'[d].pc \in Serving => Obj(d)'.gen > calls'[d].floor
  BY <1>1, <1>5 DEF CallSealed, Continues, ObjKept
<1> QED
  BY <1>3, <1>4, <1>6 DEF CallSealed

\* An idle slot is sealed.
LEMMA IdleSealed ==
  ASSUME TypeInv', NEW d \in Calls, calls'[d] = IdleCall
  PROVE  CallSealed(d)'
<1>1. calls'[d].s \in Scopes /\ calls'[d].floor = 0 /\ calls'[d].pc = "idle"
  BY IdleType DEF IdleCall, Call
<1>2. Dead(calls[d].s)' \in Nat
  <2>1. revGen'[calls'[d].s] \in Nat /\ relGen'[calls'[d].s] \in Nat
    BY <1>1, BoundsAssumption DEF TypeInv, TypeOK, Gens0
  <2> QED
    BY <2>1 DEF Dead, Greater
<1> QED
  BY <1>1, <1>2 DEF CallSealed, Holding, Serving

\* A call that has just found its grant in a sealed store is sealed.
LEMMA FoundSealed ==
  ASSUME TypeInv', StoreSealed', NEW d \in Calls, NEW k \in Call,
         k.pc \notin Holding, k.floor <= Dead(k.s)',
         calls'[d] \in Resolved(k, store')
  PROVE  CallSealed(d)'
<1>1. CASE calls'[d] = IdleCall
  BY <1>1, IdleSealed
<1>2. CASE calls'[d] = [k EXCEPT !.pc = "listing", !.forced = TRUE]
  <2>1. /\ calls'[d].s = k.s /\ calls'[d].floor = k.floor
        /\ calls'[d].pc = "listing"
    BY <1>2 DEF Call
  <2> QED
    BY <2>1 DEF CallSealed, Holding, Serving
<1>3. CASE /\ store'[k.s].gen > 0
           /\ calls'[d] = [k EXCEPT !.pc = "held", !.cur = TRUE, !.forced = FALSE]
  <2>1. /\ calls'[d].s = k.s /\ calls'[d].floor = k.floor
        /\ calls'[d].pc = "held" /\ calls'[d].cur
    BY <1>3 DEF Call
  <2>2. Obj(d)' = store'[k.s]
    BY <2>1 DEF Obj
  <2>3. /\ store'[k.s].gen \in Nat /\ k.floor \in Nat
        /\ revGen'[k.s] \in Nat /\ relGen'[k.s] \in Nat
    BY BoundsAssumption DEF TypeInv, TypeOK, Call, Held, Gens0
  <2>4. /\ store'[k.s].revoked <=> store'[k.s].gen <= revGen'[k.s]
        /\ store'[k.s].relinquished <=> store'[k.s].gen <= relGen'[k.s]
    BY <1>3 DEF StoreSealed, Call
  <2>5. store'[k.s].gen <= k.floor
          => store'[k.s].revoked \/ store'[k.s].relinquished
    BY <2>3, <2>4 DEF Dead, Greater
  <2> QED
    BY <1>3, <2>1, <2>2, <2>5 DEF CallSealed, Holding, Serving
<1> QED
  BY <1>1, <1>2, <1>3 DEF Resolved

\* What becomes of call d in a step that touches no store and begins no call.
QuietlyMoved(d) == calls'[d] = IdleCall \/ (Same(d) /\ Continues(d))

\* Scrubbing and unsharing change the results of other calls, nothing else.
LEMMA EffectsSame ==
  ASSUME TypeInv, NEW s \in Scopes, NEW d \in Calls
  PROVE  /\ Scrubbed(s)[d].pc = calls[d].pc /\ Scrubbed(s)[d].s = calls[d].s
         /\ Scrubbed(s)[d].floor = calls[d].floor
         /\ Scrubbed(s)[d].cur = calls[d].cur
         /\ Scrubbed(s)[d].held = calls[d].held
         /\ Unshared(s)[d].pc = calls[d].pc /\ Unshared(s)[d].s = calls[d].s
         /\ Unshared(s)[d].floor = calls[d].floor
         /\ Unshared(s)[d].cur = calls[d].cur
         /\ Unshared(s)[d].held = calls[d].held
<1>1. calls[d] \in Call
  BY DEF TypeInv, TypeOK
<1> QED
  BY <1>1 DEF Scrubbed, Unshared, Call

LEMMA QuietProceed ==
  ASSUME TypeInv, NEW c \in Calls, NEW d \in Calls,
         Proceed(c) \/ QueryThrows(c),
         ~ListInstalled(c), ~Detect(c), ~Relinquish(c)
  PROVE  QuietlyMoved(d)
<1> USE DEF QuietlyMoved, Same, Continues
<1>1. /\ calls \in [Calls -> Call] /\ calls[c] \in Call /\ calls[d] \in Call
      /\ calls[c].s \in Scopes
  BY DEF TypeInv, TypeOK, Call
<1>2. ASSUME d # c, \/ calls'[d] = calls[d]
                    \/ calls'[d] = Scrubbed(calls[c].s)[d]
                    \/ calls'[d] = Unshared(calls[c].s)[d]
      PROVE  QuietlyMoved(d)
  BY <1>1, <1>2, EffectsSame
<1>3. ASSUME d = c, NEW p \in Pcs, calls'[c] = [calls[c] EXCEPT !.pc = p],
             p \in Holding => calls[c].pc \in Holding,
             p \in Serving => \/ calls[c].pc \in Serving
                              \/ ~Obj(c).revoked /\ ~Obj(c).relinquished
      PROVE  QuietlyMoved(d)
  BY <1>1, <1>3 DEF Call
<1>4. CASE ListAnswered(c)
  <2>1. PICK a \in [Scopes -> Gens0] :
          calls' = [calls EXCEPT ![c].pc = "unwrapping", ![c].wrapped = a]
    BY <1>4 DEF ListAnswered
  <2>2. CASE d = c
    <3>1. calls'[d] = [calls[d] EXCEPT !.pc = "unwrapping", !.wrapped = a]
      BY <1>1, <2>1, <2>2
    <3> QED
      BY <1>1, <3>1 DEF Call, Holding, Serving
  <2> QED
    BY <1>1, <1>2, <2>1, <2>2
<1>5. CASE Refuse(c) \/ Answer(c) \/ QueryThrows(c)
  BY <1>1, <1>2, <1>5 DEF Refuse, Answer, QueryThrows, Finish
<1>6. CASE AskSeverance(c)
  <2>1. calls[c].pc = "held" /\ calls' = [calls EXCEPT ![c].pc = "severance"]
    BY <1>6 DEF AskSeverance
  <2> QED
    BY <1>1, <1>2, <1>3, <2>1 DEF Pcs, Holding, Serving
<1>7. CASE SeveranceAnswered(c) \/ MissingResolved(c)
  <2>1. /\ calls[c].pc \in {"severance", "missing"}
        /\ \/ calls' = [calls EXCEPT ![c].pc = "detecting"]
           \/ calls' = [calls EXCEPT ![c] = IdleCall]
    BY <1>7 DEF SeveranceAnswered, MissingResolved, Finish
  <2> QED
    BY <1>1, <1>2, <1>3, <2>1 DEF Pcs, Holding, Serving
<1>8. CASE ReadHit(c)
  <2>1. /\ calls[c].pc = "held" /\ Active(calls[c].s, Obj(c))
        /\ calls' = [calls EXCEPT ![c].pc = "got",
                                  ![c].n = entry[calls[c].s].n,
                                  ![c].shared = TRUE, ![c].data = TRUE]
    BY <1>8 DEF ReadHit
  <2>2. CASE d = c
    <3>1. calls'[d] = [calls[d] EXCEPT !.pc = "got", !.n = entry[calls[c].s].n,
                                       !.shared = TRUE, !.data = TRUE]
      BY <1>1, <2>1, <2>2
    <3>2. Same(d) /\ calls'[d].pc = "got"
      BY <1>1, <3>1 DEF Call
    <3> QED
      BY <2>1, <2>2, <3>2 DEF Active, Holding, Serving
  <2> QED
    BY <1>1, <1>2, <2>1, <2>2
<1>9. CASE ReadFetch(c)
  <2>1. /\ calls[c].pc = "held" /\ Active(calls[c].s, Obj(c))
        /\ calls' = [calls EXCEPT ![c].pc = "fetching"]
    BY <1>9 DEF ReadFetch
  <2> QED
    BY <1>1, <1>2, <1>3, <2>1 DEF Active, Pcs, Holding, Serving
<1>10. CASE FetchAnswered(c)
  <2>1. PICK n : calls' = [calls EXCEPT ![c].pc = "fetched", ![c].n = n]
    BY <1>10 DEF FetchAnswered
  <2>2. CASE d = c
    <3>1. calls'[d] = [calls[d] EXCEPT !.pc = "fetched", !.n = n]
      BY <1>1, <2>1, <2>2
    <3>2. Same(d) /\ calls[d].pc = "fetching" /\ calls'[d].pc = "fetched"
      BY <1>1, <1>10, <2>2, <3>1 DEF Call, FetchAnswered
    <3> QED
      BY <3>2 DEF Holding, Serving
  <2> QED
    BY <1>1, <1>2, <2>1, <2>2
<1>11. CASE FetchOk(c)
  <2>1. /\ calls[c].pc = "fetched"
        /\ calls' = [Unshared(calls[c].s) EXCEPT
                       ![c] = [calls[c] EXCEPT !.pc = "got", !.shared = TRUE,
                                               !.data = TRUE]]
    BY <1>11 DEF FetchOk
  <2>2. Unshared(calls[c].s) \in [Calls -> Call]
    BY <1>1, EffectsType DEF TypeInv
  <2>3. CASE d = c
    <3>1. calls'[d] = [calls[d] EXCEPT !.pc = "got", !.shared = TRUE,
                                       !.data = TRUE]
      BY <2>1, <2>2, <2>3
    <3>2. Same(d) /\ calls'[d].pc = "got"
      BY <1>1, <3>1 DEF Call
    <3> QED
      BY <2>1, <2>3, <3>2 DEF Holding, Serving
  <2> QED
    BY <1>2, <2>1, <2>2, <2>3
<1>12. CASE FetchStale(c) \/ FetchMissing(c)
  <2>1. /\ calls[c].pc = "fetched"
        /\ \E k \in {IdleCall, [calls[c] EXCEPT !.pc = "detecting"],
                     [calls[c] EXCEPT !.pc = "missing"]} :
             calls' = [Unshared(calls[c].s) EXCEPT ![c] = k]
    BY <1>12 DEF FetchStale, FetchMissing
  <2>2. Unshared(calls[c].s) \in [Calls -> Call]
    BY <1>1, EffectsType DEF TypeInv
  <2>3. CASE d = c
    <3>1. \/ calls'[c] = IdleCall
          \/ calls'[c] = [calls[c] EXCEPT !.pc = "detecting"]
          \/ calls'[c] = [calls[c] EXCEPT !.pc = "missing"]
      BY <2>1, <2>2
    <3> QED
      BY <1>3, <2>1, <2>3, <3>1 DEF Pcs, Holding, Serving
  <2> QED
    BY <1>2, <2>1, <2>2, <2>3
<1> QED
  BY <1>4, <1>5, <1>6, <1>7, <1>8, <1>9, <1>10, <1>11, <1>12 DEF Proceed

LEMMA QuietEnvironment ==
  ASSUME TypeInv, NEW d \in Calls,
         (\E s \in Scopes : Delegator(s)) \/ Clock
  PROVE  QuietlyMoved(d)
<1>1. ASSUME calls'[d] = calls[d] PROVE QuietlyMoved(d)
  BY <1>1 DEF QuietlyMoved, Same, Continues
<1>2. ASSUME NEW s \in Scopes, SweepEntry(s) PROVE QuietlyMoved(d)
  BY <1>2, EffectsSame DEF SweepEntry, QuietlyMoved, Same, Continues
<1>3. ASSUME NEW s \in Scopes, Delegator(s) PROVE QuietlyMoved(d)
  BY <1>1, <1>3 DEF Delegator, Publish, Grant, SendNotice
<1>4. CASE AgeIndex \/ (\E s \in Scopes : AgeEntry(s))
  BY <1>1, <1>4 DEF AgeIndex, AgeEntry
<1>5. ASSUME NEW s \in Scopes, NEW g \in Gens, Lapse(s, g) PROVE QuietlyMoved(d)
  BY <1>1, <1>5 DEF Lapse
<1> QED
  BY <1>2, <1>3, <1>4, <1>5 DEF Clock

LEMMA ServeInit == Init => ServeInv
<1> SUFFICES ASSUME Init, NEW d \in Calls PROVE CallSealed(d)
  BY SealInit DEF ServeInv
<1>1. /\ calls[d].s \in Scopes /\ calls[d].floor = 0 /\ calls[d].pc = "idle"
  BY IdleType DEF Init, IdleCall, Call
<1>2. Dead(calls[d].s) = 0
  BY <1>1 DEF Init, Dead, Greater
<1> QED
  BY <1>1, <1>2 DEF CallSealed, Holding, Serving

\* A step that touches no store and begins no call.
LEMMA ServeQuiet ==
  ASSUME ServeInv, SealInv', NEW d \in Calls, QuietlyMoved(d),
         UNCHANGED <<store, revGen, relGen>>
  PROVE  CallSealed(d)'
<1>1. CASE calls'[d] = IdleCall
  BY <1>1, IdleSealed DEF SealInv
<1>2. CASE Same(d) /\ Continues(d)
  <2>1. Obj(d)' = Obj(d)
    BY <1>2 DEF Obj, Same
  <2>2. ObjKept(d)
    BY <2>1 DEF ObjKept
  <2>3. \A s \in Scopes : revGen'[s] >= revGen[s] /\ relGen'[s] >= relGen[s]
    BY BoundsAssumption DEF ServeInv, SealInv, TypeInv, TypeOK, Gens0
  <2> QED
    BY <1>2, <2>2, <2>3, Carried DEF Same, ServeInv, SealInv
<1> QED
  BY <1>1, <1>2 DEF QuietlyMoved

\* Marking the store moves one call on and keeps every call's object.
LEMMA ServeMarking ==
  ASSUME ServeInv, SealInv', NEW d \in Calls,
         NEW c \in Calls, Detect(c) \/ Relinquish(c)
  PROVE  CallSealed(d)'
<1>1. /\ TypeInv /\ SealInv /\ CallSealed(d)
      /\ calls \in [Calls -> Call] /\ calls[c].s \in Scopes /\ calls[d].s \in Scopes
  BY DEF ServeInv, SealInv, TypeInv, TypeOK, Call
<1>2. /\ \A s \in Scopes : /\ store'[s].gen = store[s].gen
                           /\ store[s].revoked => store'[s].revoked
                           /\ store[s].relinquished => store'[s].relinquished
      /\ \A s \in Scopes : revGen'[s] >= revGen[s] /\ relGen'[s] >= relGen[s]
  BY <1>1, MarkingStep
<1>3. PICK p \in {"cascading", "notifying"} :
        calls' = [Scrubbed(calls[c].s) EXCEPT ![c].pc = p]
  BY DEF Detect, Relinquish
<1>4. calls[c].pc \in {"detecting", "held"}
  BY DEF Detect, Relinquish
<1>5. Scrubbed(calls[c].s) \in [Calls -> Call]
  BY <1>1, EffectsType DEF TypeInv
<1>6. Same(d) /\ calls'[d].pc \in {calls[d].pc, p} /\ (d # c => calls'[d].pc = calls[d].pc)
  <2> DEFINE base == Scrubbed(calls[c].s)
  <2>1. base[d] \in Call /\ calls' = [base EXCEPT ![c].pc = p]
    BY <1>3, <1>5
  <2>2. /\ calls'[d].s = base[d].s /\ calls'[d].floor = base[d].floor
        /\ calls'[d].cur = base[d].cur /\ calls'[d].held = base[d].held
        /\ calls'[d].pc \in {base[d].pc, p} /\ (d # c => calls'[d].pc = base[d].pc)
    <3> HIDE DEF base
    <3>1. CASE d = c
      <4>1. base \in [Calls -> Call]
        BY <1>5 DEF base
      <4>2. calls'[d] = [base[d] EXCEPT !.pc = p]
        BY <2>1, <3>1, <4>1
      <4> QED
        BY <2>1, <3>1, <4>2 DEF Call
    <3>2. CASE d # c
      <4>1. base \in [Calls -> Call]
        BY <1>5 DEF base
      <4> QED
        BY <2>1, <3>2, <4>1
    <3> QED
      BY <3>1, <3>2
  <2> QED
    BY <1>1, <2>2, EffectsSame DEF Same
<1>7. Continues(d)
  BY <1>4, <1>6 DEF Continues, Holding, Serving
<1>8. ObjKept(d)
  BY <1>1, <1>2, <1>6 DEF ObjKept, Obj, Same
<1> QED
  BY <1>1, <1>2, <1>6, <1>7, <1>8, Carried DEF Same, SealInv

\* A refresh leaves every call the object it holds, and may find one call its
\* grant in the new array.
LEMMA ServeListing ==
  ASSUME ServeInv, SealInv', NEW d \in Calls,
         NEW c \in Calls, ListInstalled(c)
  PROVE  CallSealed(d)'
<1>1. /\ TypeInv /\ SealInv /\ CallSealed(d)
      /\ calls \in [Calls -> Call] /\ calls[c] \in Call /\ calls[d] \in Call
  BY DEF ServeInv, SealInv, TypeInv, TypeOK
<1>2. \A s \in Scopes : revGen'[s] >= revGen[s] /\ relGen'[s] >= relGen[s]
  BY BoundsAssumption
     DEF ListInstalled, marks, ServeInv, SealInv, TypeInv, TypeOK, Gens0
<1>k. PICK k \in Call : k = [calls[c] EXCEPT !.wrapped = IdleCall.wrapped]
  BY <1>1, IdleType DEF Call
<1>3. PICK r \in Resolved(k, store') : calls' = [Detached EXCEPT ![c] = r]
  BY <1>k DEF ListInstalled
<1>4. Detached \in [Calls -> Call]
  BY <1>1, EffectsType, ScopesAssumption DEF TypeInv
<1>5. CASE d = c
  <2>2. k.s = calls[c].s /\ k.floor = calls[c].floor /\ k.pc = "unwrapping"
    BY <1>1, <1>k DEF Call, ListInstalled
  <2>3. k.s \in Scopes /\ k.floor \in Nat
    BY BoundsAssumption DEF Call, Gens0
  <2>4. Dead(k.s) \in Nat /\ Dead(k.s)' \in Nat /\ Dead(k.s)' >= Dead(k.s)
    BY <1>1, <1>2, <2>3, DeadGrows DEF SealInv
  <2>5. k.floor <= Dead(k.s)'
    BY <1>1, <1>5, <2>2, <2>3, <2>4 DEF CallSealed
  <2>6. calls'[d] \in Resolved(k, store')
    BY <1>3, <1>4, <1>5
  <2>7. k.pc \notin Holding
    BY <2>2 DEF Holding
  <2> QED
    BY <2>5, <2>6, <2>7, FoundSealed DEF SealInv
<1>6. CASE d # c
  <2>1. calls'[d] = Detached[d]
    BY <1>3, <1>4, <1>6
  <2>2. /\ calls'[d].s = calls[d].s /\ calls'[d].floor = calls[d].floor
        /\ calls'[d].pc = calls[d].pc /\ ~calls'[d].cur
        /\ calls'[d].held = IF calls[d].cur THEN store[calls[d].s]
                            ELSE calls[d].held
    BY <1>1, <2>1 DEF Detached, Call
  <2>3. Continues(d)
    BY <2>2 DEF Continues
  <2>4. Obj(d)' = Obj(d)
    BY <2>2 DEF Obj
  <2> QED
    BY <1>1, <1>2, <2>2, <2>3, <2>4, Carried DEF ObjKept, SealInv
<1> QED
  BY <1>5, <1>6

\* A new call notes what is dead now, and may find its grant at once.
LEMMA ServeBegin ==
  ASSUME ServeInv, SealInv', NEW d \in Calls,
         NEW c \in Calls, NEW op \in Ops, NEW s \in Scopes, Begin(c, op, s)
  PROVE  CallSealed(d)'
<1>1. /\ TypeInv /\ CallSealed(d) /\ calls \in [Calls -> Call]
      /\ store' = store /\ revGen' = revGen /\ relGen' = relGen
  BY DEF ServeInv, SealInv, TypeInv, TypeOK, Begin, marks
<1>5. Dead(s) \in Gens0 /\ Dead(s) \in Nat /\ Dead(s)' = Dead(s)
  <2>1. revGen[s] \in Gens0 /\ relGen[s] \in Gens0
    BY <1>1 DEF TypeInv, TypeOK
  <2> QED
    BY <1>1, <2>1, GreaterIsMax, BoundsAssumption DEF Dead, Gens0
<1>2. PICK k \in Call :
        k = [IdleCall EXCEPT !.op = op, !.s = s, !.floor = Dead(s)]
  BY <1>5, IdleType DEF Call
<1>3. k.s = s /\ k.floor = Dead(s) /\ k.pc = "idle"
  BY <1>2, IdleType DEF IdleCall, Call
<1>4. PICK r : /\ r \in IF index = "fresh" THEN Resolved(k, store)
                        ELSE {[k EXCEPT !.pc = "listing"]}
               /\ calls' = [calls EXCEPT ![c] = r]
  BY <1>2 DEF Begin
<1>6. CASE d = c /\ r = [k EXCEPT !.pc = "listing"]
  <2>1. /\ calls'[d].s = s /\ calls'[d].floor = Dead(s)
        /\ calls'[d].pc = "listing"
    BY <1>1, <1>2, <1>3, <1>4, <1>6 DEF Call
  <2> QED
    BY <1>3, <1>5, <2>1 DEF CallSealed, Holding, Serving
<1>7. CASE d = c /\ r \in Resolved(k, store)
  <2>1. calls'[d] \in Resolved(k, store')
    BY <1>1, <1>4, <1>7
  <2>2. k.pc \notin Holding /\ k.floor <= Dead(k.s)'
    BY <1>3, <1>5 DEF Holding
  <2> QED
    BY <1>2, <2>1, <2>2, FoundSealed DEF SealInv
<1>8. CASE d # c
  <2>1. calls'[d] = calls[d]
    BY <1>1, <1>4, <1>8
  <2> QED
    BY <1>1, <2>1 DEF CallSealed, Obj, Dead
<1> QED
  BY <1>4, <1>6, <1>7, <1>8

LEMMA ServeStep == ServeInv /\ [Next]_vars => ServeInv'
<1> SUFFICES ASSUME ServeInv, [Next]_vars, NEW d \in Calls PROVE CallSealed(d)'
  BY SealStep DEF ServeInv
<1>1. SealInv' /\ TypeInv
  BY SealStep DEF ServeInv, SealInv
<1>2. ASSUME NEW c \in Calls, ListInstalled(c) PROVE CallSealed(d)'
  BY <1>1, <1>2, ServeListing
<1>3. ASSUME NEW c \in Calls, Detect(c) \/ Relinquish(c) PROVE CallSealed(d)'
  BY <1>1, <1>3, ServeMarking
<1>4. ASSUME NEW c \in Calls, NEW op \in Ops, NEW s \in Scopes, Begin(c, op, s)
      PROVE  CallSealed(d)'
  BY <1>1, <1>4, ServeBegin
<1>5. CASE Restart
  <2>1. calls'[d] = IdleCall
    BY <1>5 DEF Restart
  <2> QED
    BY <1>1, <2>1, IdleSealed DEF SealInv
<1>6. CASE UNCHANGED vars
  BY <1>6 DEF vars, ServeInv, CallSealed, Obj, Dead
<1>7. CASE (\E s \in Scopes : Delegator(s)) \/ Clock
  <2>1. UNCHANGED <<store, revGen, relGen>>
    BY <1>7 DEF Delegator, Publish, Grant, SendNotice, Clock, AgeIndex, AgeEntry,
       SweepEntry, Lapse, marks
  <2> QED
    BY <1>1, <1>7, <2>1, QuietEnvironment, ServeQuiet
<1>8. ASSUME NEW c \in Calls, Proceed(c) \/ QueryThrows(c) PROVE CallSealed(d)'
  <2>1. CASE ListInstalled(c) \/ Detect(c) \/ Relinquish(c)
    BY <2>1, <1>2, <1>3
  <2>2. CASE ~ListInstalled(c) /\ ~Detect(c) /\ ~Relinquish(c)
    <3>1. UNCHANGED <<store, revGen, relGen>>
      BY <1>8, <2>2 DEF Proceed, QueryThrows, ListAnswered, Refuse, AskSeverance,
         SeveranceAnswered, ReadHit, ReadFetch, FetchAnswered, FetchOk,
         FetchStale, FetchMissing, MissingResolved, Answer, marks
    <3> QED
      BY <1>1, <1>8, <2>2, <3>1, QuietProceed, ServeQuiet
  <2> QED
    BY <2>1, <2>2
<1> QED
  BY <1>4, <1>5, <1>6, <1>7, <1>8 DEF Next

LEMMA ServeInvariant == Spec => []ServeInv
BY ServeInit, ServeStep, PTL DEF Spec

\* A call that began after its generation was recorded dead never fetches or
\* answers under it, even with an object that has left the store since.
THEOREM Served == Spec => []DeadNeverServed
<1>1. ServeInv => DeadNeverServed
  BY DEF ServeInv, CallSealed, DeadNeverServed, Serving
<1> QED
  BY <1>1, ServeInvariant, PTL

---------------------------------------------------------------------------
(* Keys do not come back.                                                  *)

\* In one run of the process the record of a dead generation never shrinks,
\* and a refresh brings a key only for a newer generation.
THEOREM DeadStays == Spec => DeadStaysDead
<1> DEFINE Stays ==
      runs' = runs =>
        \A s \in Scopes :
          /\ Dead(s)' >= Dead(s)
          /\ store[s].gen > 0 /\ ~store[s].keyed /\ store'[s].keyed
               => store'[s].gen > store[s].gen
<1>1. ASSUME SealInv, [Next]_vars PROVE [Stays]_vars
  <2>1. SealInv' /\ TypeInv /\ TypeInv'
    BY <1>1, SealStep DEF SealInv
  <2> SUFFICES ASSUME runs' = runs, NEW s \in Scopes
               PROVE  /\ Dead(s)' >= Dead(s)
                      /\ store[s].gen > 0 /\ ~store[s].keyed /\ store'[s].keyed
                           => store'[s].gen > store[s].gen
    OBVIOUS
  <2>2. revGen'[s] >= revGen[s] /\ relGen'[s] >= relGen[s]
    <3>1. revGen[s] >= revGen[s] /\ relGen[s] >= relGen[s]
      BY <2>1, BoundsAssumption DEF TypeInv, TypeOK, Gens0
    <3>2. ~Restart
      BY <2>1, BoundsAssumption DEF Restart, TypeInv, TypeOK
    <3>3. ASSUME NEW c \in Calls, ListInstalled(c)
          PROVE  revGen' = revGen /\ relGen' = relGen
      BY <3>3 DEF ListInstalled, marks
    <3> QED
      BY <1>1, <3>1, <3>2, <3>3, MarkingStep, Untouched
  <2>3. Dead(s) \in Nat /\ Dead(s)' \in Nat /\ Dead(s)' >= Dead(s)
    BY <2>1, <2>2, DeadGrows
  <2>4. store[s].gen \in Nat /\ store'[s].gen \in Nat
    BY <2>1, BoundsAssumption DEF TypeInv, TypeOK, Held, Gens0
  <2>5. store[s].gen > 0 /\ ~store[s].keyed => store[s].gen <= Dead(s)
    BY <1>1, <2>3, <2>4 DEF SealInv, StoreSealed
  <2>6. store'[s].keyed => store'[s].gen > Dead(s)'
    BY <2>1, <2>3, <2>4 DEF SealInv, StoreSealed, EmptyUnkeyed
  <2> QED
    BY <2>3, <2>4, <2>5, <2>6
<1> QED
  BY <1>1, SealInvariant, PTL DEF Spec, DeadStaysDead

---------------------------------------------------------------------------
(* Why an agent believes that it was revoked: for every set of scopes and  *)
(* calls and any faults of the relays, a record of revocation has a ground *)
(* in what the delegator did, in the agent's own relinquishment or in a    *)
(* relay that lags.  The argument follows a read from the answer it got to *)
(* the record it makes, across every await in between.                     *)

\* The grounds there may be for a record of revocation of generation g.
Explained(s, g) ==
  \/ RotatedPast(s, g)
  \/ s \in notices /\ "miss" \in RelayFaults
  \/ relGen[s] >= g
  \/ "lag" \in RelayFaults /\ \E n \in DOMAIN pubs[s] : pubs[s][n] < g

\* No key was granted or is held beyond the last one published.
WrapsBehind == \A s \in Scopes : \A g \in wraps[s] : g <= LastGen(s)
StoreBehind == \A s \in Scopes : store[s].gen <= LastGen(s)
Behind(c) == Obj(c).gen <= LastGen(calls[c].s)

\* A key was only zeroed for a record of its generation or a later one.
UnkeyedDead(c) ==
  calls[c].pc \in Holding /\ ~Obj(c).keyed => Obj(c).gen <= Dead(calls[c].s)

\* What call c knows of the relays' answer at each point of a read.
Grounds(c) ==
  /\ calls[c].pc = "unwrapping" =>
       \A s \in Scopes : calls[c].wrapped[s] <= LastGen(s)
  /\ calls[c].pc = "fetched" =>
       \/ calls[c].n = 0 /\ "miss" \in RelayFaults
       \/ /\ calls[c].n \in DOMAIN pubs[calls[c].s]
          /\ "lag" \in RelayFaults \/ pubs[calls[c].s][calls[c].n] >= Obj(c).gen
  /\ calls[c].pc = "missing" => "miss" \in RelayFaults
  /\ calls[c].pc = "detecting" =>
       Explained(calls[c].s, Obj(c).gen) \/ revGen[calls[c].s] >= Obj(c).gen

ExplainInv ==
  /\ ServeInv /\ WrapsBehind /\ StoreBehind /\ RevocationExplained
  /\ \A c \in Calls : Behind(c) /\ UnkeyedDead(c) /\ Grounds(c)

-----------------------------------------------------------------------------
(* What the relays hold and the records say only grows.                    *)

Grows ==
  \A s \in Scopes :
    /\ \A n \in DOMAIN pubs[s] : n \in DOMAIN pubs'[s] /\ pubs'[s][n] = pubs[s][n]
    /\ LastGen(s)' >= LastGen(s)
    /\ revGen'[s] >= revGen[s] /\ relGen'[s] >= relGen[s]
    /\ s \in notices => s \in notices'

LEMMA Numbers ==
  ASSUME TypeInv, NEW s \in Scopes
  PROVE  /\ LastGen(s) \in Nat /\ revGen[s] \in Nat /\ relGen[s] \in Nat
         /\ store[s].gen \in Nat /\ Dead(s) \in Nat
         /\ pubs[s] \in Seq(Gens) /\ Len(pubs[s]) \in 1..MaxPubs
         /\ \A n \in DOMAIN pubs[s] : pubs[s][n] \in Nat
<1>1. /\ pubs[s] \in Seq(Gens) /\ Len(pubs[s]) \in 1..MaxPubs
      /\ revGen[s] \in Gens0 /\ relGen[s] \in Gens0 /\ store[s] \in Held
  BY DEF TypeInv, TypeOK, PubsBounded
<1>2. \A n \in DOMAIN pubs[s] : pubs[s][n] \in Nat
  <2>1. \A n \in DOMAIN pubs[s] : pubs[s][n] \in Gens
    BY <1>1
  <2>2. Gens \subseteq Nat
    BY BoundsAssumption DEF Gens
  <2>3. QED
    BY <2>1, <2>2
<1>3. LastGen(s) \in Nat
  BY <1>1, <1>2 DEF LastGen
<1>4. revGen[s] \in Nat /\ relGen[s] \in Nat /\ store[s].gen \in Nat
  BY <1>1, BoundsAssumption DEF Gens0, Held
<1>5. QED
  BY <1>1, <1>2, <1>3, <1>4 DEF Dead, Greater

\* The same in the next state.
LEMMA NumbersNext ==
  ASSUME TypeInv', NEW s \in Scopes
  PROVE  /\ LastGen(s)' \in Nat /\ revGen'[s] \in Nat /\ relGen'[s] \in Nat
         /\ store'[s].gen \in Nat /\ Dead(s)' \in Nat
<1>1. /\ pubs'[s] \in Seq(Gens) /\ Len(pubs'[s]) \in 1..MaxPubs
      /\ revGen'[s] \in Gens0 /\ relGen'[s] \in Gens0 /\ store'[s] \in Held
  BY DEF TypeInv, TypeOK, PubsBounded
<1>2. LastGen(s)' \in Gens
  BY <1>1 DEF LastGen
<1>3. revGen'[s] \in Nat /\ relGen'[s] \in Nat /\ store'[s].gen \in Nat /\ LastGen(s)' \in Nat
  BY <1>1, <1>2, BoundsAssumption DEF Gens, Gens0, Held
<1>4. QED
  BY <1>3 DEF Dead, Greater

LEMMA PublishGrows ==
  ASSUME TypeInv, NEW t \in Scopes, Publish(t), NEW s \in Scopes
  PROVE  /\ \A n \in DOMAIN pubs[s] : n \in DOMAIN pubs'[s] /\ pubs'[s][n] = pubs[s][n]
         /\ LastGen(s)' >= LastGen(s)
<1>1. CASE s # t
  <2>1. pubs'[s] = pubs[s]
    BY <1>1 DEF Publish, TypeInv, TypeOK
  <2>2. QED
    BY <2>1, Numbers DEF LastGen
<1>2. CASE s = t
  <2>1. PICK g \in {LastGen(s), LastGen(s) + 1} : pubs'[s] = Append(pubs[s], g)
    BY <1>2 DEF Publish, TypeInv, TypeOK
  <2>2. pubs[s] \in Seq(Gens) /\ LastGen(s) \in Nat
    BY Numbers
  <2>3. g \in Nat /\ g >= LastGen(s)
    BY <2>1, <2>2
  <2>4. /\ Len(pubs'[s]) = Len(pubs[s]) + 1 /\ Len(pubs[s]) \in Nat
        /\ DOMAIN pubs[s] = 1..Len(pubs[s]) /\ DOMAIN pubs'[s] = 1..Len(pubs'[s])
        /\ \A n \in 1..Len(pubs[s]) : pubs'[s][n] = pubs[s][n]
        /\ pubs'[s][Len(pubs[s]) + 1] = g
    BY <2>1, <2>2
  <2>5. QED
    BY <2>3, <2>4 DEF LastGen
<1>3. QED
  BY <1>1, <1>2

LEMMA StepGrows ==
  ASSUME SealInv, [Next]_vars, ~Restart
  PROVE  Grows
<1>1. TypeInv
  BY DEF SealInv
<1>2. ASSUME NEW s \in Scopes
      PROVE  revGen'[s] >= revGen[s] /\ relGen'[s] >= relGen[s]
  <2>1. CASE \E c \in Calls : Detect(c) \/ Relinquish(c)
    BY <2>1, MarkingStep
  <2>2. CASE UNCHANGED <<revGen, relGen>>
    BY <1>1, <2>2, Numbers
  <2>3. ASSUME NEW c \in Calls, ListInstalled(c) PROVE UNCHANGED <<revGen, relGen>>
    BY <2>3 DEF ListInstalled, marks
  <2>4. QED
    BY <2>1, <2>2, <2>3, Untouched
<1>3. UNCHANGED pubs \/ \E t \in Scopes : Publish(t)
  BY DEF Next, Delegator, Clock, Grant, SendNotice, AgeIndex, AgeEntry, SweepEntry, Lapse, Begin,
     Proceed, ListAnswered, ListInstalled, Refuse, AskSeverance, SeveranceAnswered, ReadHit, ReadFetch,
     FetchAnswered, FetchOk, FetchStale, FetchMissing, MissingResolved, Detect, Relinquish, Answer,
     QueryThrows, vars, env
<1>4. \A s \in Scopes : s \in notices => s \in notices'
  BY DEF Next, Delegator, Clock, Grant, SendNotice, Publish, AgeIndex, AgeEntry, SweepEntry, Lapse,
     Begin, Proceed, ListAnswered, ListInstalled, Refuse, AskSeverance, SeveranceAnswered, ReadHit,
     ReadFetch, FetchAnswered, FetchOk, FetchStale, FetchMissing, MissingResolved, Detect, Relinquish,
     Answer, QueryThrows, vars, env
<1>5. ASSUME NEW s \in Scopes
      PROVE  /\ \A n \in DOMAIN pubs[s] : n \in DOMAIN pubs'[s] /\ pubs'[s][n] = pubs[s][n]
             /\ LastGen(s)' >= LastGen(s)
  <2>1. CASE UNCHANGED pubs
    BY <1>1, <2>1, Numbers DEF LastGen
  <2>2. QED
    BY <1>1, <1>3, <2>1, PublishGrows
<1>6. QED
  BY <1>2, <1>4, <1>5 DEF Grows

\* A ground stays one.
LEMMA ExplainedStays ==
  ASSUME TypeInv, TypeInv', Grows, NEW s \in Scopes, NEW g \in Nat, Explained(s, g)
  PROVE  Explained(s, g)'
<1>1. relGen'[s] \in Nat /\ relGen[s] \in Nat
  BY Numbers, BoundsAssumption DEF TypeInv, TypeOK, Gens0
<1>2. relGen[s] >= g => relGen'[s] >= g
  BY <1>1 DEF Grows
<1>3. QED
  BY <1>2 DEF Explained, RotatedPast, Grows

\* The newest of a set of grants is one of them (latestGrants).
LEMMA LatestIsHeld ==
  ASSUME NEW W \in SUBSET Gens
  PROVE  Latest(W) \in W \cup {0}
<1>1. CASE W = {}
  BY <1>1 DEF Latest
<1>2. CASE W # {}
  <2> DEFINE T == {MaxGen - g : g \in W}
  <2>1. \A g \in W : g \in Nat /\ g <= MaxGen /\ MaxGen \in Nat
    BY BoundsAssumption DEF Gens
  <2>a. T \subseteq Nat /\ T # {}
    BY <1>2, <2>1
  <2>2. PICK x \in T : \A y \in T : ~(<<y, x>> \in OpToRel(<, Nat))
    BY <2>a, WFMin, NatLessThanWellFounded
  <2>3. PICK m \in W : x = MaxGen - m
    BY <2>2
  <2>4. ASSUME NEW h \in W PROVE h <= m
    <3>1. MaxGen - h \in T /\ MaxGen - h \in Nat /\ x \in Nat
      BY <2>1, <2>a
    <3>2. ~(MaxGen - h < x)
      BY <2>2, <3>1 DEF OpToRel
    <3>3. QED
      BY <2>1, <2>3, <3>1, <3>2
  <2>5. QED
    BY <1>2, <2>4 DEF Latest
<1>3. QED
  BY <1>1, <1>2

-----------------------------------------------------------------------------
(* A call whose object is kept.                                            *)

\* Call d keeps what it knows; its point may have changed.
Same2(d) ==
  /\ calls'[d].s = calls[d].s /\ calls'[d].cur = calls[d].cur
  /\ calls'[d].held = calls[d].held

LEMMA ObjStays ==
  ASSUME ExplainInv, ServeInv', Grows, NEW d \in Calls, Same2(d),
         \A s \in Scopes : store'[s].gen = store[s].gen,
         calls'[d].pc \in Holding => calls[d].pc \in Holding
  PROVE  Obj(d)'.gen = Obj(d).gen /\ Behind(d)' /\ UnkeyedDead(d)'
<1>1. /\ TypeInv /\ TypeInv' /\ StoreSealed' /\ CallSealed(d)' /\ calls[d].s \in Scopes
  BY DEF ExplainInv, ServeInv, SealInv, TypeInv, TypeOK, Call
<1>2. PICK s \in Scopes : s = calls[d].s /\ s = calls'[d].s
  BY <1>1 DEF Same2
<1>3. Obj(d)'.gen = Obj(d).gen /\ Obj(d).gen \in Nat
  <2>1. Obj(d).gen \in Gens0
    BY <1>1, ObjType DEF TypeInv, Held
  <2>2. QED
    BY <1>1, <2>1, BoundsAssumption DEF Obj, Same2, Gens0
<1>4. Behind(d)'
  <2>1. LastGen(s)' >= LastGen(s) /\ LastGen(s) \in Nat /\ LastGen(s)' \in Nat
    BY <1>1, Numbers, NumbersNext DEF Grows
  <2>2. Obj(d).gen <= LastGen(s)
    BY <1>2 DEF ExplainInv, Behind
  <2>3. Obj(d)'.gen <= LastGen(s)'
    BY <1>3, <2>1, <2>2
  <2>4. QED
    BY <1>2, <2>3 DEF Behind
<1>5. UnkeyedDead(d)'
  <2> SUFFICES ASSUME calls'[d].pc \in Holding, ~Obj(d)'.keyed
               PROVE  Obj(d)'.gen <= Dead(s)'
    BY <1>2 DEF UnkeyedDead
  <2>1. Obj(d)'.gen > 0
    BY <1>1 DEF CallSealed
  <2>2. CASE calls[d].cur
    <3>1. Obj(d)' = store'[s]
      BY <1>2, <2>2 DEF Obj, Same2
    <3>2. store'[s].gen \in Nat /\ Dead(s)' \in Nat
      BY <1>1, NumbersNext
    <3>3. ~(store'[s].gen > Dead(s)')
      BY <1>1, <2>1, <3>1 DEF StoreSealed
    <3>4. QED
      BY <3>1, <3>2, <3>3
  <2>3. CASE ~calls[d].cur
    <3>1. Obj(d)' = Obj(d)
      BY <2>3 DEF Obj, Same2
    <3>2. Obj(d).gen <= Dead(s)
      BY <1>2, <3>1 DEF ExplainInv, UnkeyedDead
    <3>3. Dead(s) \in Nat /\ Dead(s)' \in Nat /\ Dead(s)' >= Dead(s)
      BY <1>1, DeadGrows DEF Grows
    <3>4. QED
      BY <1>3, <3>1, <3>2, <3>3
  <2>4. QED
    BY <2>2, <2>3
<1>6. QED
  BY <1>3, <1>4, <1>5

\* A call that stays at its point, with what it was answered.
Stays(d) ==
  /\ Same2(d) /\ calls'[d].pc = calls[d].pc
  /\ calls'[d].n = calls[d].n /\ calls'[d].wrapped = calls[d].wrapped

LEMMA GroundsStay ==
  ASSUME ExplainInv, TypeInv', Grows, NEW d \in Calls, Stays(d), Obj(d)'.gen = Obj(d).gen
  PROVE  Grounds(d)'
<1>1. /\ TypeInv /\ calls[d].s \in Scopes /\ Obj(d) \in Held /\ Grounds(d)
      /\ calls[d].wrapped \in [Scopes -> Gens0]
  BY ObjType DEF ExplainInv, ServeInv, SealInv, TypeInv, TypeOK, Call
<1>2. PICK s \in Scopes : s = calls[d].s /\ s = calls'[d].s
  BY <1>1 DEF Stays, Same2
<1>3. PICK g \in Nat : g = Obj(d).gen /\ g = Obj(d)'.gen
  BY <1>1, BoundsAssumption DEF Held, Gens0
<1>4. calls'[d].pc = "unwrapping" => \A t \in Scopes : calls'[d].wrapped[t] <= LastGen(t)'
  <2> SUFFICES ASSUME calls'[d].pc = "unwrapping", NEW t \in Scopes
               PROVE  calls'[d].wrapped[t] <= LastGen(t)'
    OBVIOUS
  <2>1. calls[d].wrapped[t] <= LastGen(t) /\ calls[d].wrapped[t] \in Nat
    BY <1>1, BoundsAssumption DEF Stays, Grounds, Gens0
  <2>2. LastGen(t)' >= LastGen(t) /\ LastGen(t) \in Nat /\ LastGen(t)' \in Nat
    BY <1>1, Numbers, NumbersNext DEF Grows
  <2>3. QED
    BY <2>1, <2>2 DEF Stays
<1>5. calls'[d].pc = "fetched" =>
        \/ calls'[d].n = 0 /\ "miss" \in RelayFaults
        \/ /\ calls'[d].n \in DOMAIN pubs'[s]
           /\ "lag" \in RelayFaults \/ pubs'[s][calls'[d].n] >= g
  BY <1>1, <1>2, <1>3 DEF Stays, Grounds, Grows
<1>6. calls'[d].pc = "missing" => "miss" \in RelayFaults
  BY <1>1 DEF Stays, Grounds
<1>7. calls'[d].pc = "detecting" => Explained(s, g)' \/ revGen'[s] >= g
  <2>1. calls'[d].pc = "detecting" => Explained(s, g) \/ revGen[s] >= g
    BY <1>1, <1>2, <1>3 DEF Stays, Grounds
  <2>2. revGen[s] >= g => revGen'[s] >= g
    BY <1>1, Numbers, NumbersNext DEF Grows
  <2>3. QED
    BY <1>1, <2>1, <2>2, ExplainedStays
<1>8. QED
  BY <1>2, <1>3, <1>4, <1>5, <1>6, <1>7 DEF Grounds

Kept(d) == Behind(d)' /\ UnkeyedDead(d)' /\ Grounds(d)'

LEMMA KeptIdle ==
  ASSUME TypeInv', NEW d \in Calls, calls'[d] = IdleCall
  PROVE  Kept(d)
<1>1. calls'[d].s \in Scopes /\ calls'[d].pc = "idle" /\ Obj(d)'.gen = 0
  BY IdleType DEF IdleCall, Call, Obj, NoGrant
<1>2. PICK s \in Scopes : s = calls'[d].s
  BY <1>1
<1>3. LastGen(s)' \in Nat
  BY NumbersNext
<1>4. QED
  BY <1>1, <1>2, <1>3 DEF Kept, Behind, UnkeyedDead, Grounds, Holding

LEMMA KeptStays ==
  ASSUME ExplainInv, ServeInv', Grows, NEW d \in Calls, Stays(d),
         \A s \in Scopes : store'[s].gen = store[s].gen
  PROVE  Kept(d)
<1>1. Same2(d) /\ (calls'[d].pc \in Holding => calls[d].pc \in Holding)
  BY DEF Stays
<1>2. TypeInv'
  BY DEF ServeInv, SealInv
<1>3. QED
  BY <1>1, <1>2, ObjStays, GroundsStay DEF Kept

\* A call that moves to a point where nothing is known.
LEMMA KeptPlain ==
  ASSUME ExplainInv, ServeInv', Grows, NEW d \in Calls, Same2(d),
         \A s \in Scopes : store'[s].gen = store[s].gen,
         calls'[d].pc \in Holding => calls[d].pc \in Holding,
         calls'[d].pc \notin {"unwrapping", "fetched", "missing", "detecting"}
  PROVE  Kept(d)
BY ObjStays DEF Kept, Grounds

-----------------------------------------------------------------------------
(* The steps of a read.                                                    *)

\* A call that is answered while the relays and the store rest.
LEMMA KeptAnswered ==
  ASSUME ExplainInv, ServeInv', Grows, NEW c \in Calls, Same2(c),
         UNCHANGED <<env, store, marks>>,
         calls'[c].pc \in Holding => calls[c].pc \in Holding,
         Obj(c)' = Obj(c) => Grounds(c)'
  PROVE  Kept(c)
<1>1. Obj(c)' = Obj(c)
  BY DEF Obj, Same2
<1>2. QED
  BY <1>1, ObjStays DEF Kept

LEMMA EventAnswered ==
  ASSUME TypeInv, NEW s \in Scopes, NEW n \in EventAnswers(s)
  PROVE  \/ n = 0 /\ "miss" \in RelayFaults
         \/ n \in DOMAIN pubs[s] /\ ("lag" \in RelayFaults \/ pubs[s][n] = LastGen(s))
<1>1. Len(pubs[s]) \in 1..MaxPubs /\ DOMAIN pubs[s] = 1..Len(pubs[s])
  BY Numbers
<1>2. QED
  BY <1>1 DEF EventAnswers, LastGen

LEMMA WrapAnswered ==
  ASSUME TypeInv, WrapsBehind, NEW s \in Scopes, NEW g \in WrapAnswers(s)
  PROVE  g <= LastGen(s)
<1>1. wraps[s] \in SUBSET Gens
  BY DEF TypeInv, TypeOK
<1>2. g \in wraps[s] \cup {0}
  BY <1>1, LatestIsHeld DEF WrapAnswers
<1>3. QED
  BY <1>2, Numbers DEF WrapsBehind

\* What a call of this module's steps is at, in plain terms.
LEMMA CallKnown ==
  ASSUME ExplainInv, NEW c \in Calls
  PROVE  /\ TypeInv /\ calls \in [Calls -> Call] /\ calls[c] \in Call /\ calls[c].s \in Scopes
         /\ Obj(c) \in Held /\ Obj(c).gen \in Nat
         /\ Behind(c) /\ UnkeyedDead(c) /\ Grounds(c) /\ CallSealed(c)
<1>1. TypeInv /\ calls \in [Calls -> Call] /\ Obj(c) \in Held
  BY ObjType DEF ExplainInv, ServeInv, SealInv, TypeInv, TypeOK
<1>2. QED
  BY <1>1, BoundsAssumption DEF ExplainInv, ServeInv, Call, Held, Gens0

LEMMA KeptListAnswered ==
  ASSUME ExplainInv, ServeInv', Grows, NEW c \in Calls, ListAnswered(c)
  PROVE  Kept(c)
<1>1. PICK a \in [Scopes -> Gens0] :
        /\ \A s \in Scopes : a[s] \in WrapAnswers(s)
        /\ calls' = [calls EXCEPT ![c].pc = "unwrapping", ![c].wrapped = a]
  BY DEF ListAnswered
<1>2. calls'[c] = [calls[c] EXCEPT !.pc = "unwrapping", !.wrapped = a]
  BY <1>1, CallKnown
<1>3. /\ Same2(c) /\ calls'[c].pc = "unwrapping" /\ calls'[c].wrapped = a
      /\ UNCHANGED <<env, store, marks>>
  BY <1>2, CallKnown DEF Same2, Call, ListAnswered
<1>4. \A s \in Scopes : a[s] <= LastGen(s)
  BY <1>1, CallKnown, WrapAnswered DEF ExplainInv
<1>5. Grounds(c)'
  BY <1>3, <1>4 DEF Grounds, LastGen, env
<1>6. QED
  BY <1>3, <1>5, KeptAnswered DEF Holding

LEMMA KeptFetchAnswered ==
  ASSUME ExplainInv, ServeInv', Grows, NEW c \in Calls, FetchAnswered(c)
  PROVE  Kept(c)
<1>1. PICK n \in EventAnswers(calls[c].s) :
        calls' = [calls EXCEPT ![c].pc = "fetched", ![c].n = n]
  BY DEF FetchAnswered
<1>2. calls'[c] = [calls[c] EXCEPT !.pc = "fetched", !.n = n]
  BY <1>1, CallKnown
<1>3. /\ Same2(c) /\ calls'[c].pc = "fetched" /\ calls'[c].n = n
      /\ UNCHANGED <<env, store, marks>> /\ calls[c].pc = "fetching"
  BY <1>2, CallKnown DEF Same2, Call, FetchAnswered
<1>4. \/ n = 0 /\ "miss" \in RelayFaults
      \/ n \in DOMAIN pubs[calls[c].s]
           /\ ("lag" \in RelayFaults \/ pubs[calls[c].s][n] = LastGen(calls[c].s))
  BY <1>1, CallKnown, EventAnswered
<1>5. Obj(c).gen <= LastGen(calls[c].s) /\ LastGen(calls[c].s) \in Nat /\ Obj(c).gen \in Nat
  BY CallKnown, Numbers DEF Behind
<1>6. Obj(c)' = Obj(c) => Grounds(c)'
  BY <1>3, <1>4, <1>5 DEF Grounds, Same2, env
<1>7. QED
  BY <1>3, <1>6, KeptAnswered DEF Holding

\* A read that did not decrypt has a ground to think its key is old; or its own
\* bytes are gone.
LEMMA StaleGround ==
  ASSUME ExplainInv, NEW c \in Calls, calls[c].pc = "fetched", calls[c].n > 0,
         ~Decrypts(calls[c].s, calls[c].n, Obj(c))
  PROVE  Explained(calls[c].s, Obj(c).gen) \/ revGen[calls[c].s] >= Obj(c).gen
<1>1. PICK s \in Scopes : s = calls[c].s
  BY CallKnown
<1>2. PICK g \in Nat : g = Obj(c).gen
  BY CallKnown
<1>3. /\ calls[c].n \in DOMAIN pubs[s] /\ pubs[s][calls[c].n] \in Nat
      /\ "lag" \in RelayFaults \/ pubs[s][calls[c].n] >= g
  BY <1>1, <1>2, CallKnown, Numbers DEF Grounds
<1>4. CASE ~Obj(c).keyed
  <2>1. g <= Dead(s)
    BY <1>1, <1>2, <1>4, CallKnown DEF UnkeyedDead, Holding
  <2>2. revGen[s] \in Nat /\ relGen[s] \in Nat
    BY CallKnown, Numbers
  <2>3. g <= revGen[s] \/ g <= relGen[s]
    BY <2>1, <2>2 DEF Dead, Greater
  <2>4. QED
    BY <1>1, <1>2, <2>2, <2>3 DEF Explained
<1>5. CASE pubs[s][calls[c].n] # g
  <2>1. pubs[s][calls[c].n] > g \/ (pubs[s][calls[c].n] < g /\ "lag" \in RelayFaults)
    BY <1>2, <1>3, <1>5
  <2>2. QED
    BY <1>1, <1>2, <1>3, <2>1 DEF Explained, RotatedPast
<1>6. QED
  BY <1>1, <1>2, <1>3, <1>4, <1>5 DEF Decrypts

\* A call about to record a revocation, with its ground.
LEMMA KeptDetecting ==
  ASSUME ExplainInv, ServeInv', Grows, NEW c \in Calls, calls'[c].pc = "detecting",
         Same2(c), UNCHANGED <<env, store, marks>>, calls[c].pc \in Holding,
         Explained(calls[c].s, Obj(c).gen) \/ revGen[calls[c].s] >= Obj(c).gen
  PROVE  Kept(c)
<1>1. ASSUME Obj(c)' = Obj(c) PROVE Grounds(c)'
  <2>1. (Explained(calls[c].s, Obj(c).gen) \/ revGen[calls[c].s] >= Obj(c).gen)'
    BY <1>1 DEF Same2, Explained, RotatedPast, env, marks
  <2>2. QED
    BY <2>1 DEF Grounds
<1>2. QED
  BY <1>1, KeptAnswered

\* A call that dropped the entry it read and the results that share it.
LEMMA UnsharedTo ==
  ASSUME TypeInv, NEW c \in Calls, NEW k, calls' = [Unshared(calls[c].s) EXCEPT ![c] = k]
  PROVE  calls'[c] = k
<1>1. Unshared(calls[c].s) \in [Calls -> Call]
  BY EffectsType DEF TypeInv, TypeOK, Call
<1>2. QED
  BY <1>1

LEMMA KeptFetchStale ==
  ASSUME ExplainInv, ServeInv', Grows, NEW c \in Calls, FetchStale(c)
  PROVE  Kept(c)
<1>1. calls'[c] = [calls[c] EXCEPT !.pc = "detecting"]
  BY CallKnown, UnsharedTo DEF FetchStale
<1>2. /\ Same2(c) /\ calls'[c].pc = "detecting" /\ calls[c].pc = "fetched"
      /\ UNCHANGED <<env, store, marks>>
  BY <1>1, CallKnown DEF Same2, Call, FetchStale
<1>3. Explained(calls[c].s, Obj(c).gen) \/ revGen[calls[c].s] >= Obj(c).gen
  BY StaleGround DEF FetchStale
<1>4. QED
  BY <1>2, <1>3, KeptDetecting DEF Holding

LEMMA KeptFetchMissing ==
  ASSUME ExplainInv, ServeInv', Grows, NEW c \in Calls, FetchMissing(c)
  PROVE  Kept(c)
<1>1. /\ calls[c].pc = "fetched" /\ calls[c].n = 0 /\ UNCHANGED <<env, store, marks>>
  BY DEF FetchMissing
<1>2. "miss" \in RelayFaults
  <2>1. 0 \notin DOMAIN pubs[calls[c].s]
    BY CallKnown, Numbers
  <2>2. QED
    BY <1>1, <2>1, CallKnown DEF Grounds
<1>3. CASE calls'[c] = IdleCall
  BY <1>3, KeptIdle DEF ServeInv, SealInv
<1>4. CASE calls'[c] = [calls[c] EXCEPT !.pc = "missing"]
  <2>1. Same2(c) /\ calls'[c].pc = "missing"
    BY <1>4, CallKnown DEF Same2, Call
  <2>2. Grounds(c)'
    BY <1>2, <2>1 DEF Grounds
  <2>3. QED
    BY <1>1, <2>1, <2>2, KeptAnswered DEF Holding
<1>5. QED
  BY <1>3, <1>4, CallKnown, UnsharedTo DEF FetchMissing

LEMMA KeptSeverance ==
  ASSUME ExplainInv, ServeInv', Grows, NEW c \in Calls, SeveranceAnswered(c)
  PROVE  Kept(c)
<1>1. calls[c].pc = "severance" /\ UNCHANGED <<env, store, marks>>
  BY DEF SeveranceAnswered
<1>2. CASE calls'[c] = IdleCall
  BY <1>2, KeptIdle DEF ServeInv, SealInv
<1>3. ASSUME NEW n \in EventAnswers(calls[c].s) \cup {0}, n > 0,
             pubs[calls[c].s][n] > Obj(c).gen, calls' = [calls EXCEPT ![c].pc = "detecting"]
      PROVE  Kept(c)
  <2>1. n \in DOMAIN pubs[calls[c].s]
    BY <1>3, CallKnown, EventAnswered
  <2>2. Explained(calls[c].s, Obj(c).gen)
    BY <1>3, <2>1 DEF Explained, RotatedPast
  <2>3. calls'[c] = [calls[c] EXCEPT !.pc = "detecting"]
    BY <1>3, CallKnown
  <2>4. Same2(c) /\ calls'[c].pc = "detecting"
    BY <2>3, CallKnown DEF Same2, Call
  <2>5. QED
    BY <1>1, <2>2, <2>4, KeptDetecting DEF Holding
<1>4. CASE Finish(c)
  BY <1>2, <1>4, CallKnown DEF Finish
<1>5. QED
  BY <1>3, <1>4 DEF SeveranceAnswered

LEMMA KeptMissingResolved ==
  ASSUME ExplainInv, ServeInv', Grows, NEW c \in Calls, MissingResolved(c)
  PROVE  Kept(c)
<1>1. calls[c].pc = "missing" /\ UNCHANGED <<env, store, marks>>
  BY DEF MissingResolved
<1>2. CASE Finish(c)
  <2>1. calls'[c] = IdleCall
    BY <1>2, CallKnown DEF Finish
  <2>2. QED
    BY <2>1, KeptIdle DEF ServeInv, SealInv
<1>3. CASE calls[c].s \in notices /\ calls' = [calls EXCEPT ![c].pc = "detecting"]
  <2>1. Explained(calls[c].s, Obj(c).gen)
    BY <1>1, <1>3, CallKnown DEF Explained, Grounds
  <2>2. calls'[c] = [calls[c] EXCEPT !.pc = "detecting"]
    BY <1>3, CallKnown
  <2>3. Same2(c) /\ calls'[c].pc = "detecting"
    BY <2>2, CallKnown DEF Same2, Call
  <2>4. QED
    BY <1>1, <2>1, <2>3, KeptDetecting DEF Holding
<1>4. QED
  BY <1>2, <1>3 DEF MissingResolved

LEMMA KeptMoves ==
  ASSUME ExplainInv, ServeInv', Grows, NEW c \in Calls,
         AskSeverance(c) \/ ReadHit(c) \/ ReadFetch(c) \/ FetchOk(c)
  PROVE  Kept(c)
<1>1. UNCHANGED store /\ calls[c].pc \in Holding
  BY DEF AskSeverance, ReadHit, ReadFetch, FetchOk, Holding
<1>2. Same2(c) /\ calls'[c].pc \in {"severance", "got", "fetching"}
  <2>1. CASE AskSeverance(c)
    <3>1. calls'[c] = [calls[c] EXCEPT !.pc = "severance"]
      BY <2>1, CallKnown DEF AskSeverance
    <3>2. QED
      BY <3>1, CallKnown DEF Same2, Call
  <2>2. CASE ReadHit(c)
    <3>1. calls'[c] = [calls[c] EXCEPT !.pc = "got", !.n = entry[calls[c].s].n,
                                       !.shared = TRUE, !.data = TRUE]
      BY <2>2, CallKnown DEF ReadHit
    <3>2. QED
      BY <3>1, CallKnown DEF Same2, Call
  <2>3. CASE ReadFetch(c)
    <3>1. calls'[c] = [calls[c] EXCEPT !.pc = "fetching"]
      BY <2>3, CallKnown DEF ReadFetch
    <3>2. QED
      BY <3>1, CallKnown DEF Same2, Call
  <2>4. CASE FetchOk(c)
    <3>1. calls'[c] = [calls[c] EXCEPT !.pc = "got", !.shared = TRUE, !.data = TRUE]
      BY <2>4, CallKnown, UnsharedTo DEF FetchOk
    <3>2. QED
      BY <3>1, CallKnown DEF Same2, Call
  <2>5. QED
    BY <2>1, <2>2, <2>3, <2>4
<1>3. QED
  BY <1>1, <1>2, KeptPlain

LEMMA KeptEnds ==
  ASSUME ExplainInv, ServeInv', NEW c \in Calls, Refuse(c) \/ Answer(c) \/ QueryThrows(c)
  PROVE  Kept(c)
<1>1. calls'[c] = IdleCall
  BY CallKnown DEF Refuse, Answer, QueryThrows, Finish
<1>2. QED
  BY <1>1, KeptIdle DEF ServeInv, SealInv

\* Marking the store moves one call on and leaves every other where it is.
LEMMA KeptMarking ==
  ASSUME ExplainInv, ServeInv', Grows, NEW c \in Calls, NEW d \in Calls, Detect(c) \/ Relinquish(c)
  PROVE  Kept(d)
<1>1. \A s \in Scopes : store'[s].gen = store[s].gen
  BY MarkingStep DEF ExplainInv, ServeInv
<1>2. PICK p \in {"cascading", "notifying"} : calls' = [Scrubbed(calls[c].s) EXCEPT ![c].pc = p]
  BY DEF Detect, Relinquish
<1>3. calls[c].pc \in Holding
  BY DEF Detect, Relinquish, Holding
<1> DEFINE base == Scrubbed(calls[c].s)
<1>4. base \in [Calls -> Call] /\ base[d] \in Call
  BY CallKnown, EffectsType DEF TypeInv
<1>5. /\ base[d].s = calls[d].s /\ base[d].cur = calls[d].cur /\ base[d].held = calls[d].held
      /\ base[d].pc = calls[d].pc /\ base[d].n = calls[d].n /\ base[d].wrapped = calls[d].wrapped
  BY CallKnown DEF Scrubbed, Call
<1>6. calls' = [base EXCEPT ![c].pc = p]
  BY <1>2
<1> HIDE DEF base
<1>7. CASE d # c
  <2>1. calls'[d] = base[d]
    BY <1>4, <1>6, <1>7
  <2>2. Stays(d)
    BY <1>5, <2>1 DEF Stays, Same2
  <2>3. QED
    BY <1>1, <2>2, KeptStays
<1>8. CASE d = c
  <2>1. calls'[d] = [base[d] EXCEPT !.pc = p]
    BY <1>4, <1>6, <1>8
  <2>2. Same2(d) /\ calls'[d].pc = p
    BY <1>4, <1>5, <2>1 DEF Same2, Call
  <2>3. QED
    BY <1>1, <1>3, <1>8, <2>2, KeptPlain
<1>9. QED
  BY <1>7, <1>8

\* A call that resolved against the store the list left: its object is in there.
LEMMA KeptResolved ==
  ASSUME ServeInv', StoreBehind', NEW d \in Calls, NEW k \in Call, calls'[d] \in Resolved(k, store'),
         k.cur \/ k.held.gen <= LastGen(k.s)'
  PROVE  Kept(d)
<1>1. TypeInv' /\ StoreSealed' /\ CallSealed(d)' /\ k.s \in Scopes
  BY DEF ServeInv, SealInv, Call
<1>2. PICK s \in Scopes : s = k.s
  BY <1>1
<1>3. CASE calls'[d] = IdleCall
  BY <1>1, <1>3, KeptIdle
<1>4. CASE calls'[d] = [k EXCEPT !.pc = "listing", !.forced = TRUE]
  <2>1. /\ calls'[d].s = k.s /\ calls'[d].cur = k.cur /\ calls'[d].held = k.held
        /\ calls'[d].pc = "listing"
    BY <1>4 DEF Call
  <2>2. Behind(d)'
    BY <1>1, <2>1 DEF Behind, Obj, StoreBehind
  <2>3. QED
    BY <2>1, <2>2 DEF Kept, UnkeyedDead, Grounds, Holding
<1>5. CASE calls'[d] = [k EXCEPT !.pc = "held", !.cur = TRUE, !.forced = FALSE]
  <2>1. calls'[d].s = s /\ calls'[d].cur /\ calls'[d].pc = "held"
    BY <1>2, <1>5 DEF Call
  <2>2. Obj(d)' = store'[s]
    BY <2>1 DEF Obj
  <2>3. store'[s].gen > 0
    BY <1>1, <2>1, <2>2 DEF CallSealed, Holding
  <2>4. store'[s].gen \in Nat /\ Dead(s)' \in Nat
    BY <1>1, NumbersNext
  <2>5. ~store'[s].keyed => store'[s].gen <= Dead(s)'
    BY <1>1, <2>3, <2>4 DEF StoreSealed
  <2>6. Behind(d)' /\ UnkeyedDead(d)'
    BY <2>1, <2>2, <2>5 DEF Behind, UnkeyedDead, StoreBehind
  <2>7. QED
    BY <2>1, <2>6 DEF Kept, Grounds
<1>6. QED
  BY <1>3, <1>4, <1>5 DEF Resolved

\* A refresh brings no key beyond the last one published.
LEMMA RefreshBehind ==
  ASSUME ExplainInv, TypeInv', NEW c \in Calls, ListInstalled(c)
  PROVE  StoreBehind'
<1>1. /\ calls[c].wrapped \in [Scopes -> Gens0] /\ UNCHANGED pubs
      /\ store' = Refreshed(calls[c].wrapped)
      /\ revGen \in [Scopes -> Gens0] /\ relGen \in [Scopes -> Gens0]
  BY CallKnown DEF Call, ListInstalled, env, TypeInv, TypeOK
<1>2. \A s \in Scopes : calls[c].wrapped[s] <= LastGen(s)
  BY CallKnown DEF ListInstalled, Grounds
<1>3. ASSUME NEW s \in Scopes PROVE store'[s].gen <= LastGen(s)'
  <2>1. PICK g \in Gens0 : g = calls[c].wrapped[s]
    BY <1>1
  <2>2. store'[s] = Marked(s, Unwrapped(g), revGen, relGen)
    BY <1>1, <2>1 DEF Refreshed
  <2>3. store'[s].gen = g
    BY <2>2 DEF Marked, Unwrapped
  <2>4. QED
    BY <1>1, <1>2, <2>1, <2>3 DEF LastGen
<1>4. QED
  BY <1>3 DEF StoreBehind

LEMMA KeptListInstalled ==
  ASSUME ExplainInv, ServeInv', Grows, NEW c \in Calls, NEW d \in Calls, ListInstalled(c)
  PROVE  Kept(d)
<1>1. /\ TypeInv' /\ StoreBehind' /\ UNCHANGED <<pubs, notices, revGen, relGen>>
  BY RefreshBehind DEF ServeInv, SealInv, ListInstalled, env, marks
<1>2. PICK k \in Call : k = [calls[c] EXCEPT !.wrapped = IdleCall.wrapped]
  BY CallKnown, IdleType DEF Call
<1>3. PICK r \in Resolved(k, store') : calls' = [Detached EXCEPT ![c] = r]
  BY <1>2 DEF ListInstalled
<1>4. Detached \in [Calls -> Call]
  BY CallKnown, EffectsType, ScopesAssumption DEF TypeInv
<1>5. CASE d = c
  <2>1. calls'[d] \in Resolved(k, store')
    BY <1>3, <1>4, <1>5
  <2>2. k.cur = calls[c].cur /\ k.held = calls[c].held /\ k.s = calls[c].s
    BY <1>2, CallKnown DEF Call
  <2>3. k.cur \/ k.held.gen <= LastGen(k.s)
    BY <2>2, CallKnown DEF Behind, Obj
  <2>4. k.cur \/ k.held.gen <= LastGen(k.s)'
    BY <1>1, <2>3 DEF LastGen
  <2>5. QED
    BY <1>1, <2>1, <2>4, KeptResolved
<1>6. CASE d # c
  <2>1. calls'[d] = Detached[d]
    BY <1>3, <1>4, <1>6
  <2>2. /\ calls'[d].s = calls[d].s /\ calls'[d].pc = calls[d].pc /\ ~calls'[d].cur
        /\ calls'[d].n = calls[d].n /\ calls'[d].wrapped = calls[d].wrapped
        /\ calls'[d].held = IF calls[d].cur THEN store[calls[d].s] ELSE calls[d].held
    BY <2>1, CallKnown DEF Detached, Call
  <2>3. Obj(d)' = Obj(d)
    BY <2>2 DEF Obj
  <2>4. Behind(d)' /\ UnkeyedDead(d)'
    BY <1>1, <2>2, <2>3, CallKnown DEF Behind, UnkeyedDead, LastGen, Dead
  <2>5. Grounds(d)'
    BY <1>1, <2>2, <2>3, CallKnown DEF Grounds, Explained, RotatedPast, LastGen
  <2>6. QED
    BY <2>4, <2>5 DEF Kept
<1>7. QED
  BY <1>5, <1>6

LEMMA KeptBegin ==
  ASSUME ExplainInv, ServeInv', Grows, NEW d \in Calls,
         NEW c \in Calls, NEW op \in Ops, NEW s \in Scopes, Begin(c, op, s)
  PROVE  Kept(d)
<1>1. /\ TypeInv /\ TypeInv' /\ UNCHANGED <<env, store, marks>> /\ StoreBehind'
      /\ calls \in [Calls -> Call]
  BY CallKnown DEF ExplainInv, ServeInv, SealInv, Begin, StoreBehind, LastGen, env
<1>2. Dead(s) \in Gens0
  BY <1>1, GreaterIsMax DEF TypeInv, TypeOK, Dead
<1>3. PICK k \in Call : k = [IdleCall EXCEPT !.op = op, !.s = s, !.floor = Dead(s)]
  BY <1>2, IdleType DEF Call
<1>4. k.s = s /\ k.held = NoGrant /\ k.pc = "idle" /\ ~k.cur
  BY <1>3, IdleType DEF IdleCall, Call
<1>5. LastGen(s)' \in Nat
  BY <1>1, NumbersNext
<1>6. k.held.gen <= LastGen(k.s)'
  BY <1>4, <1>5 DEF NoGrant
<1>7. PICK r : /\ r \in IF index = "fresh" THEN Resolved(k, store) ELSE {[k EXCEPT !.pc = "listing"]}
               /\ calls' = [calls EXCEPT ![c] = r]
  BY <1>3 DEF Begin
<1>8. CASE d = c /\ r = [k EXCEPT !.pc = "listing"]
  <2>1. /\ calls'[d].s = k.s /\ calls'[d].held = k.held /\ ~calls'[d].cur
        /\ calls'[d].pc = "listing"
    BY <1>1, <1>4, <1>7, <1>8 DEF Call
  <2>2. Behind(d)'
    BY <1>6, <2>1 DEF Behind, Obj
  <2>3. QED
    BY <2>1, <2>2 DEF Kept, UnkeyedDead, Grounds, Holding
<1>9. CASE d = c /\ r \in Resolved(k, store)
  <2>1. calls'[d] \in Resolved(k, store')
    BY <1>1, <1>7, <1>9
  <2>2. QED
    BY <1>1, <1>6, <2>1, KeptResolved
<1>10. CASE d # c
  <2>1. Stays(d)
    BY <1>1, <1>7, <1>10 DEF Stays, Same2
  <2>2. QED
    BY <1>1, <2>1, KeptStays
<1>11. QED
  BY <1>7, <1>8, <1>9, <1>10

\* The calls a step does not move.
LEMMA KeptOthers ==
  ASSUME ExplainInv, ServeInv', Grows, NEW c \in Calls, NEW d \in Calls, d # c,
         Proceed(c) \/ QueryThrows(c)
  PROVE  Kept(d)
<1>1. CASE ListInstalled(c)
  BY <1>1, KeptListInstalled
<1>2. CASE Detect(c) \/ Relinquish(c)
  BY <1>2, KeptMarking
<1>3. CASE ~ListInstalled(c) /\ ~Detect(c) /\ ~Relinquish(c)
  <2>1. UNCHANGED store
    BY <1>3 DEF Proceed, QueryThrows, ListAnswered, Refuse, AskSeverance, SeveranceAnswered, ReadHit,
       ReadFetch, FetchAnswered, FetchOk, FetchStale, FetchMissing, MissingResolved, Answer
  <2>2. calls'[d] = calls[d] \/ calls'[d] = Unshared(calls[c].s)[d]
    <3>1. calls \in [Calls -> Call] /\ Unshared(calls[c].s) \in [Calls -> Call]
      BY CallKnown, EffectsType DEF TypeInv
    <3>2. QED
      BY <1>3, <3>1 DEF Proceed, QueryThrows, ListAnswered, Refuse, AskSeverance, SeveranceAnswered,
         ReadHit, ReadFetch, FetchAnswered, FetchOk, FetchStale, FetchMissing, MissingResolved, Answer,
         Finish
  <2>3. Stays(d)
    BY <2>2, CallKnown DEF Stays, Same2, Unshared, Call
  <2>4. QED
    BY <2>1, <2>3, KeptStays
<1>4. QED
  BY <1>1, <1>2, <1>3

LEMMA KeptProceed ==
  ASSUME ExplainInv, ServeInv', Grows, NEW c \in Calls, Proceed(c) \/ QueryThrows(c)
  PROVE  Kept(c)
BY KeptListAnswered, KeptListInstalled, KeptEnds, KeptMoves, KeptSeverance, KeptFetchAnswered,
   KeptFetchStale, KeptFetchMissing, KeptMissingResolved, KeptMarking DEF Proceed

LEMMA KeptAround ==
  ASSUME ExplainInv, ServeInv', Grows, NEW d \in Calls,
         (\E s \in Scopes : Delegator(s)) \/ Clock \/ UNCHANGED vars
  PROVE  Kept(d)
<1>1. UNCHANGED store
  BY DEF Delegator, Publish, Grant, SendNotice, Clock, AgeIndex, AgeEntry, SweepEntry, Lapse, vars
<1>2. calls'[d] = calls[d] \/ \E s \in Scopes : calls'[d] = Scrubbed(s)[d]
  BY DEF Delegator, Publish, Grant, SendNotice, Clock, AgeIndex, AgeEntry, SweepEntry, Lapse, vars
<1>3. Stays(d)
  BY <1>2, CallKnown DEF Stays, Same2, Scrubbed, Call
<1>4. QED
  BY <1>1, <1>3, KeptStays

-----------------------------------------------------------------------------
(* What is granted, held and recorded.                                     *)

LEMMA WrapsStep ==
  ASSUME ExplainInv, TypeInv', Grows, [Next]_vars
  PROVE  WrapsBehind'
<1>1. TypeInv
  BY DEF ExplainInv, ServeInv, SealInv
<1>2. UNCHANGED wraps \/ \E t \in Scopes : Grant(t)
  BY DEF Next, Delegator, Clock, Publish, SendNotice, AgeIndex, AgeEntry, SweepEntry, Lapse, Begin,
     Proceed, ListAnswered, ListInstalled, Refuse, AskSeverance, SeveranceAnswered, ReadHit, ReadFetch,
     FetchAnswered, FetchOk, FetchStale, FetchMissing, MissingResolved, Detect, Relinquish, Answer,
     QueryThrows, Restart, vars, env
<1>3. ASSUME NEW s \in Scopes, NEW g \in wraps'[s] PROVE g <= LastGen(s)'
  <2>1. g \in wraps[s] \/ g = LastGen(s)
    <3>1. wraps \in [Scopes -> SUBSET Gens]
      BY <1>1 DEF TypeInv, TypeOK
    <3>2. CASE UNCHANGED wraps
      BY <1>3, <3>2
    <3>3. ASSUME NEW t \in Scopes, Grant(t) PROVE g \in wraps[s] \/ g = LastGen(s)
      <4>1. wraps' = [wraps EXCEPT ![t] = @ \cup {LastGen(t)}]
        BY <3>3 DEF Grant
      <4>2. CASE s = t
        <5>1. wraps'[s] = wraps[s] \cup {LastGen(s)}
          BY <3>1, <4>1, <4>2
        <5>2. QED
          BY <1>3, <5>1
      <4>3. CASE s # t
        <5>1. wraps'[s] = wraps[s]
          BY <3>1, <4>1, <4>3
        <5>2. QED
          BY <1>3, <5>1
      <4>4. QED
        BY <4>2, <4>3
    <3>4. QED
      BY <1>2, <3>2, <3>3
  <2>2. LastGen(s) \in Nat /\ LastGen(s)' \in Nat /\ LastGen(s)' >= LastGen(s)
    BY <1>1, Numbers, NumbersNext DEF Grows
  <2>3. g \in Nat
    BY <1>1, <2>1, <2>2, BoundsAssumption DEF TypeInv, TypeOK, Gens
  <2>4. g <= LastGen(s)
    BY <2>1, <2>2 DEF ExplainInv, WrapsBehind
  <2>5. QED
    BY <2>2, <2>3, <2>4
<1>4. QED
  BY <1>3 DEF WrapsBehind

LEMMA StoreStep ==
  ASSUME ExplainInv, TypeInv', Grows, [Next]_vars, ~Restart
  PROVE  StoreBehind'
<1>1. TypeInv
  BY DEF ExplainInv, ServeInv, SealInv
<1>2. CASE \E c \in Calls : ListInstalled(c)
  BY <1>2, RefreshBehind
<1>3. ASSUME \A s \in Scopes : store'[s].gen = store[s].gen PROVE StoreBehind'
  <2>1. ASSUME NEW s \in Scopes PROVE store'[s].gen <= LastGen(s)'
    <3>1. /\ LastGen(s) \in Nat /\ LastGen(s)' \in Nat /\ LastGen(s)' >= LastGen(s)
          /\ store[s].gen \in Nat /\ store[s].gen <= LastGen(s)
      BY <1>1, Numbers, NumbersNext DEF Grows, ExplainInv, StoreBehind
    <3>2. QED
      BY <1>3, <3>1
  <2>2. QED
    BY <2>1 DEF StoreBehind
<1>4. CASE \E c \in Calls : Detect(c) \/ Relinquish(c)
  BY <1>3, <1>4, MarkingStep DEF ExplainInv, ServeInv
<1>5. CASE UNCHANGED store
  BY <1>3, <1>5
<1>6. QED
  BY <1>2, <1>4, <1>5, Untouched

\* A record is only made by a call that had a ground for it, and keeps it.
LEMMA RecordStep ==
  ASSUME ExplainInv, TypeInv', Grows, [Next]_vars, ~Restart
  PROVE  RevocationExplained'
<1>1. TypeInv
  BY DEF ExplainInv, ServeInv, SealInv
<1>2. ASSUME NEW s \in Scopes, revGen'[s] > 0
      PROVE  \E g \in Nat : g = revGen'[s] /\ Explained(s, g)'
  <2>1. revGen[s] \in Nat /\ revGen'[s] \in Nat
    BY <1>1, Numbers, NumbersNext
  <2>2. CASE revGen'[s] = revGen[s]
    <3>1. PICK g \in Nat : g = revGen[s] /\ g = revGen'[s]
      BY <2>1, <2>2
    <3>2. Explained(s, g)
      BY <1>2, <3>1 DEF ExplainInv, RevocationExplained, Explained
    <3>3. Explained(s, g)'
      BY <1>1, <3>2, ExplainedStays
    <3>4. QED
      BY <3>1, <3>3
  <2>3. CASE revGen'[s] # revGen[s]
    <3>1. PICK c \in Calls : Detect(c)
      <4>1. ASSUME NEW c \in Calls, ListInstalled(c) \/ Relinquish(c) PROVE UNCHANGED revGen
        BY <4>1 DEF ListInstalled, Relinquish, marks
      <4>2. QED
        BY <2>3, <4>1, Untouched
    <3>2. revGen' = [revGen EXCEPT ![calls[c].s] = Greater(@, Obj(c).gen)] /\ calls[c].pc = "detecting"
      BY <3>1 DEF Detect
    <3>3. s = calls[c].s /\ revGen'[s] = Greater(revGen[s], Obj(c).gen)
      BY <1>1, <2>3, <3>2 DEF TypeInv, TypeOK
    <3>4. PICK g \in Nat : g = Obj(c).gen /\ g = revGen'[s] /\ g > revGen[s]
      BY <2>1, <2>3, <3>3, CallKnown DEF Greater
    <3>5. Explained(s, g)
      <4>1. Explained(calls[c].s, Obj(c).gen) \/ revGen[calls[c].s] >= Obj(c).gen
        BY <3>2, CallKnown DEF Grounds
      <4>2. Explained(s, g) \/ revGen[s] >= g
        BY <3>3, <3>4, <4>1
      <4>3. QED
        BY <2>1, <3>4, <4>2
    <3>6. Explained(s, g)'
      BY <1>1, <3>5, ExplainedStays
    <3>7. QED
      BY <3>4, <3>6
  <2>4. QED
    BY <2>2, <2>3
<1>3. ASSUME NEW s \in Scopes, revGen'[s] > 0
      PROVE  \/ RotatedPast(s, revGen[s])'
             \/ (s \in notices /\ "miss" \in RelayFaults)'
             \/ relGen'[s] >= revGen'[s]
             \/ "lag" \in RelayFaults /\ \E n \in DOMAIN pubs'[s] : pubs'[s][n] < revGen'[s]
  BY <1>2, <1>3 DEF Explained, RotatedPast
<1>4. QED
  BY <1>3 DEF RevocationExplained

LEMMA ExplainInit == Init => ExplainInv
<1> SUFFICES ASSUME Init PROVE ExplainInv
  OBVIOUS
<1>1. ServeInv /\ TypeInv
  BY ServeInit, TypeInit
<1>2. WrapsBehind /\ RevocationExplained
  BY DEF Init, WrapsBehind, RevocationExplained
<1>3. StoreBehind
  <2>1. \A s \in Scopes : store[s].gen = 0 /\ LastGen(s) \in Nat
    BY <1>1, Numbers DEF Init, NoGrant
  <2>2. ASSUME NEW s \in Scopes PROVE store[s].gen <= LastGen(s)
    <3>1. store[s].gen = 0 /\ LastGen(s) \in Nat
      BY <2>1
    <3>2. QED
      BY <3>1
  <2>3. QED
    BY <2>2 DEF StoreBehind
<1>4. ASSUME NEW c \in Calls PROVE Behind(c) /\ UnkeyedDead(c) /\ Grounds(c)
  <2>1. calls[c] = IdleCall
    BY DEF Init
  <2>2. calls[c].s \in Scopes /\ calls[c].pc = "idle" /\ Obj(c).gen = 0
    BY <2>1, IdleType DEF IdleCall, Call, Obj, NoGrant
  <2>3. LastGen(calls[c].s) \in Nat
    BY <1>1, <2>2, Numbers
  <2>4. QED
    BY <2>2, <2>3 DEF Behind, UnkeyedDead, Grounds, Holding
<1>5. QED
  BY <1>1, <1>2, <1>3, <1>4 DEF ExplainInv

LEMMA ExplainRestart ==
  ASSUME ExplainInv, ServeInv', Restart
  PROVE  ExplainInv'
<1>1. TypeInv' /\ UNCHANGED <<pubs, wraps>>
  BY DEF ServeInv, SealInv, Restart, env
<1>2. WrapsBehind' /\ RevocationExplained'
  BY <1>1 DEF ExplainInv, WrapsBehind, LastGen, Restart, RevocationExplained
<1>3. StoreBehind'
  <2>1. \A s \in Scopes : store'[s].gen = 0 /\ LastGen(s)' \in Nat
    BY <1>1, NumbersNext DEF Restart, NoGrant
  <2>2. ASSUME NEW s \in Scopes PROVE store'[s].gen <= LastGen(s)'
    <3>1. store'[s].gen = 0 /\ LastGen(s)' \in Nat
      BY <2>1
    <3>2. QED
      BY <3>1
  <2>3. QED
    BY <2>2 DEF StoreBehind
<1>4. \A d \in Calls : Kept(d)
  BY <1>1, KeptIdle DEF Restart
<1>5. QED
  BY <1>2, <1>3, <1>4 DEF ExplainInv, Kept

LEMMA ExplainStep == ExplainInv /\ [Next]_vars => ExplainInv'
<1> SUFFICES ASSUME ExplainInv, [Next]_vars PROVE ExplainInv'
  OBVIOUS
<1>1. ServeInv' /\ TypeInv' /\ SealInv
  BY ServeStep DEF ExplainInv, ServeInv, SealInv
<1>2. CASE Restart
  BY <1>1, <1>2, ExplainRestart
<1>3. CASE ~Restart
  <2>1. Grows
    BY <1>1, <1>3, StepGrows
  <2>2. WrapsBehind' /\ StoreBehind' /\ RevocationExplained'
    BY <1>1, <1>3, <2>1, WrapsStep, StoreStep, RecordStep
  <2>3. ASSUME NEW d \in Calls PROVE Kept(d)
    <3>1. ASSUME NEW c \in Calls, Proceed(c) \/ QueryThrows(c) PROVE Kept(d)
      BY <1>1, <2>1, <3>1, KeptOthers, KeptProceed
    <3>2. ASSUME NEW c \in Calls, NEW op \in Ops, NEW s \in Scopes, Begin(c, op, s) PROVE Kept(d)
      BY <1>1, <2>1, <3>2, KeptBegin
    <3>3. CASE (\E s \in Scopes : Delegator(s)) \/ Clock \/ UNCHANGED vars
      BY <1>1, <2>1, <3>3, KeptAround
    <3>4. QED
      BY <1>3, <3>1, <3>2, <3>3 DEF Next
  <2>4. QED
    BY <1>1, <2>2, <2>3 DEF ExplainInv, Kept
<1>4. QED
  BY <1>2, <1>3

-----------------------------------------------------------------------------
\* An agent's record of revocation has a ground, however its reads, lists and
\* relinquishments interleave and whatever the relays leave out or repeat
\* (detectRevocation).
THEOREM Explaining == Spec => []RevocationExplained
<1>1. ExplainInv => RevocationExplained
  BY DEF ExplainInv
<1>2. QED
  BY <1>1, ExplainInit, ExplainStep, PTL DEF Spec
=============================================================================
