--------------------------- MODULE Derivation_proofs ---------------------------
(***************************************************************************)
(* That a tombstone means a severed child, for every number of parents,     *)
(* derived scopes, leaves, delegators and overlapping tool calls, whatever  *)
(* the relays refuse, lose or miss and wherever the runtime is restarted.   *)
(* The argument follows the copies: the Grant Index on the relays, the one  *)
(* the outbox keeps and the one each call works on replace one another      *)
(* freely, so each of them must tell the truth about every child by itself. *)
(***************************************************************************)
EXTENDS Derivation, TLAPS

\* Scopes of different makers are different, and none of them is None.
Distinct == /\ Children \cap OutScopes = {}
            /\ None \notin Source \cup OutScopes

-----------------------------------------------------------------------------
(* The inductive invariant. *)

Points == {"idle", "budget", "fresh", "publish", "wrap", "reload", "save", "look", "cascade",
           "sever", "notify", "load", "out", "back", "keep"}
CallType == [at : Points, on : Source \cup {None}, leaf : People \cup {None},
             to : Delegators \cup {None}, scope : Children \cup OutScopes \cup {None},
             first : BOOLEAN, work : SUBSET Children, copy : Index]
OutboxType == [loaded : BOOLEAN, index : Index, recs : [Delegators -> OutScopes \cup {None}]]
KinType == [parent : Source \cup {None}, leaf : People \cup {None}]

TypeInv ==
  /\ gen \in [Children \cup OutScopes -> {0, 1, 2}]
  /\ kin \in [Children -> KinType]
  /\ lineage \in Index
  /\ outbox \in OutboxType
  /\ call \in [Calls -> CallType]

\* A copy ix of the index is true of generations g: a tombstone is of a child
\* that was severed, an active row of one that was published, whose key the
\* copy still has, so that a cascade working from it will republish the child.
True(g, ix) ==
  \A c \in Children : /\ ix.row[c] = "revoked" => g[c] = 2
                      /\ ix.row[c] = "active" => c \in ix.issued /\ g[c] # 0

\* What call k may rely on at each of its points.
Placed(k) ==
  /\ call[k].at \in {"budget", "fresh"} => call[k].on # None
  /\ call[k].at = "publish" =>
       /\ call[k].scope \in Children
       /\ gen[call[k].scope] = 0 /\ kin[call[k].scope].parent # None
  /\ call[k].at \in {"wrap", "reload"} =>
       call[k].scope \in Children /\ gen[call[k].scope] # 0
  /\ call[k].at \in {"sever", "notify"} =>
       \A c \in call[k].work : call[k].copy.row[c] = "active"
  /\ call[k].at = "notify" => call[k].scope \in Children /\ gen[call[k].scope] = 2
  /\ call[k].at = "load" => call[k].to \in Delegators
  /\ call[k].at = "out" => call[k].scope \in OutScopes
  /\ True(gen, call[k].copy)

\* A fresh scope id has one maker.
OneMaker == \A j, k \in Calls :
  j # k /\ call[j].at = "publish" /\ call[k].at = "publish" => call[j].scope # call[k].scope

\* What was not minted was not published.
Unminted == \A c \in Children : kin[c].parent = None => gen[c] = 0

Invariant ==
  /\ TypeInv /\ Unminted
  /\ True(gen, lineage) /\ True(gen, outbox.index)
  /\ \A k \in Calls : Placed(k)
  /\ OneMaker

-----------------------------------------------------------------------------
(* The records keep their types. *)

LEMMA EmptyIndexType == EmptyIndex \in Index /\ \A g : True(g, EmptyIndex)
BY DEF EmptyIndex, Index, True

LEMMA IdleType == NoCall \in CallType /\ NoCall.at = "idle" /\ NoCall.copy = EmptyIndex
BY EmptyIndexType DEF NoCall, CallType, Points

\* Whatever a query of the index answers is an index, and true.
LEMMA AnswersTrue ==
  ASSUME Invariant, NEW ix \in IndexAnswers
  PROVE  ix \in Index /\ True(gen, ix)
BY EmptyIndexType DEF Invariant, TypeInv, IndexAnswers

\* A child published under its leaf's key may be recorded as active.
LEMMA WithChildTrue ==
  ASSUME NEW g, NEW ix \in Index, True(g, ix), NEW c \in Children, g[c] # 0
  PROVE  WithChild(ix, c) \in Index /\ True(g, WithChild(ix, c))
<1>1. WithChild(ix, c) \in Index
  BY DEF WithChild, Index
<1>2. ASSUME NEW d \in Children
      PROVE  /\ WithChild(ix, c).row[d] = IF d = c THEN "active" ELSE ix.row[d]
             /\ d \in WithChild(ix, c).issued <=> d \in ix.issued \/ d = c
  BY DEF WithChild, Index
<1>3. QED
  BY <1>1, <1>2 DEF True

\* A child that was severed may be recorded as a tombstone; the others' rows stay.
LEMMA TombstoneTrue ==
  ASSUME NEW g, NEW ix \in Index, True(g, ix), NEW c \in Children, g[c] = 2
  PROVE  /\ Tombstone(ix, c) \in Index /\ True(g, Tombstone(ix, c))
         /\ \A d \in Children \ {c} : Tombstone(ix, c).row[d] = ix.row[d]
<1>1. Tombstone(ix, c) \in Index
  BY DEF Tombstone, Index
<1>2. ASSUME NEW d \in Children
      PROVE  /\ Tombstone(ix, c).row[d] = IF d = c THEN "revoked" ELSE ix.row[d]
             /\ d \in Tombstone(ix, c).issued <=> d \in ix.issued /\ d # c
  BY DEF Tombstone, Index
<1>3. QED
  BY <1>1, <1>2 DEF True

\* What Outbox.save writes says of the children what the kept index said.
LEMMA RecordedTrue ==
  ASSUME NEW g, NEW ob \in OutboxType, True(g, ob.index)
  PROVE  WithRecords(ob) \in Index /\ True(g, WithRecords(ob))
<1> DEFINE outs == {ob.recs[d] : d \in Delegators} \ {None}
<1>1. outs \subseteq OutScopes
  BY DEF OutboxType
<1>2. ob.index \in Index /\ ob.recs \in [Delegators -> OutScopes \cup {None}]
  BY DEF OutboxType
<1>3. WithRecords(ob) = [ob.index EXCEPT !.issued = @ \cup outs, !.outbox = ob.recs]
  BY DEF WithRecords
<1>4. WithRecords(ob) \in Index /\ WithRecords(ob).row = ob.index.row
      /\ WithRecords(ob).issued = ob.index.issued \cup outs
  <2> HIDE DEF outs
  <2> QED
    BY <1>1, <1>2, <1>3 DEF Index
<1>5. QED
  BY <1>4 DEF True

-----------------------------------------------------------------------------
(* What a step of one call leaves of the others. *)

\* The generations and kinship a step of call k may change.
Moves(k) ==
  /\ \A c \in Children :
       \/ gen'[c] = gen[c]
       \/ gen[c] = 0 /\ gen'[c] = 1 /\ call[k].at = "publish" /\ call[k].scope = c
       \/ gen[c] # 0 /\ gen'[c] = 2
  /\ \A c \in Children : kin[c].parent # None => kin'[c] = kin[c]

\* Nothing else happens to the calls.
OnlyCall(k) == call' \in [Calls -> CallType] /\ \A j \in Calls \ {k} : call'[j] = call[j]

LEMMA TrueKept ==
  ASSUME Invariant, NEW k \in Calls, Moves(k), NEW ix \in Index, True(gen, ix)
  PROVE  True(gen', ix)
BY DEF Moves, True

LEMMA OthersPlaced ==
  ASSUME Invariant, NEW k \in Calls, Moves(k), NEW j \in Calls, j # k, call'[j] = call[j]
  PROVE  Placed(j)'
<1>1. Placed(j) /\ call[j] \in CallType
  BY DEF Invariant, TypeInv
<1>2. True(gen', call'[j].copy)
  BY <1>1, TrueKept DEF Placed, CallType
<1>3. call[j].at = "publish" => gen'[call[j].scope] = 0 /\ kin'[call[j].scope].parent # None
  BY <1>1 DEF Moves, Placed, Invariant, OneMaker
<1>4. call[j].at \in {"wrap", "reload"} => gen'[call[j].scope] # 0
  BY <1>1 DEF Moves, Placed
<1>5. call[j].at = "notify" => gen'[call[j].scope] = 2
  BY <1>1 DEF Moves, Placed
<1>6. QED
  BY <1>1, <1>2, <1>3, <1>4, <1>5 DEF Placed

\* A step of call k keeps the invariant when it moves as it may and leaves k
\* placed, the two shared copies true, and no second maker of a scope.
LEMMA Frame ==
  ASSUME Invariant, NEW k \in Calls, Moves(k), TypeInv', OnlyCall(k),
         Placed(k)', True(gen', lineage'), True(gen', outbox'.index),
         call'[k].at = "publish" =>
           \A j \in Calls \ {k} : call[j].at = "publish" => call[j].scope # call'[k].scope
  PROVE  Invariant'
<1>1. \A j \in Calls : Placed(j)'
  BY OthersPlaced DEF OnlyCall
<1>2. OneMaker'
  BY DEF OneMaker, Invariant, OnlyCall
<1>3. Unminted'
  BY DEF Unminted, Moves, Invariant, Placed
<1>4. QED
  BY <1>1, <1>2, <1>3 DEF Invariant

\* A step that leaves the relays' scopes, the kinship and the shared copies
\* alone, of which there are many.
LEMMA QuietFrame ==
  ASSUME Invariant, NEW k \in Calls, UNCHANGED <<gen, kin, lineage, outbox>>,
         OnlyCall(k), Placed(k)', call'[k].at # "publish"
  PROVE  Invariant'
<1>1. TypeInv'
  BY DEF Invariant, TypeInv, OnlyCall
<1>2. Moves(k)
  BY DEF Moves
<1>3. QED
  BY <1>1, <1>2, Frame DEF Invariant

\* A call that returns has nothing to answer for.
LEMMA ReturnPlaced ==
  ASSUME Invariant, NEW k \in Calls, Return(k)
  PROVE  Placed(k)' /\ call'[k] = NoCall /\ OnlyCall(k)
<1>1. call'[k] = NoCall /\ OnlyCall(k)
  BY IdleType DEF Return, Invariant, TypeInv, OnlyCall
<1>2. QED
  BY <1>1, IdleType, EmptyIndexType DEF Placed

LEMMA ReturnKept ==
  ASSUME Invariant, NEW k \in Calls, Return(k), UNCHANGED <<gen, kin, lineage, outbox>>
  PROVE  Invariant'
BY ReturnPlaced, QuietFrame, IdleType

\* A call that goes on to l keeps the rest of its record.
LEMMA GotoPlace ==
  ASSUME Invariant, NEW k \in Calls, NEW l \in Points, Goto(k, l)
  PROVE  /\ OnlyCall(k) /\ call'[k].at = l
         /\ call'[k].on = call[k].on /\ call'[k].scope = call[k].scope
         /\ call'[k].work = call[k].work /\ call'[k].copy = call[k].copy
BY DEF Goto, OnlyCall, Invariant, TypeInv, CallType

-----------------------------------------------------------------------------
(* The steps of a derivation. *)

LEMMA InvariantInit == DeriveInit => Invariant
BY EmptyIndexType, IdleType
   DEF DeriveInit, Invariant, TypeInv, Unminted, Placed, OneMaker, OutboxType, KinType

LEMMA DeriveKept ==
  ASSUME Distinct, Invariant, NEW k \in Calls, NEW p \in Source, NEW l \in People, Derive(k, p, l)
  PROVE  Invariant'
<1> DEFINE c == [NoCall EXCEPT !.at = "budget", !.on = p, !.leaf = l]
<1>1. c \in CallType /\ c.at = "budget" /\ c.on = p /\ c.copy = EmptyIndex
  BY IdleType DEF CallType, Points
<1>2. call' = [call EXCEPT ![k] = c] /\ UNCHANGED <<gen, kin, lineage, outbox>>
  BY DEF Derive, relayVars
<1> HIDE DEF c
<1>3. call'[k] = c /\ OnlyCall(k)
  BY <1>1, <1>2 DEF Invariant, TypeInv, OnlyCall
<1>4. Placed(k)'
  BY <1>1, <1>3, EmptyIndexType DEF Placed, Distinct
<1>5. QED
  BY <1>1, <1>2, <1>3, <1>4, QuietFrame

LEMMA BudgetKept ==
  ASSUME Invariant, NEW k \in Calls, Budget(k)
  PROVE  Invariant'
<1>1. UNCHANGED <<gen, kin, lineage, outbox>> /\ (Return(k) \/ Goto(k, "fresh"))
  BY DEF Budget, relayVars
<1>2. ASSUME Goto(k, "fresh")
      PROVE  Placed(k)' /\ OnlyCall(k) /\ call'[k].at # "publish"
  BY <1>1, <1>2, GotoPlace DEF Placed, Points, Invariant, Budget
<1>3. QED
  BY <1>1, <1>2, QuietFrame, ReturnKept

LEMMA RefetchKept ==
  ASSUME Distinct, Invariant, NEW k \in Calls, Refetch(k)
  PROVE  Invariant'
<1> USE DEF Refetch, relayVars
<1>1. CASE Return(k) /\ UNCHANGED kin
  BY <1>1, ReturnKept
<1>2. ASSUME NEW x \in Unused,
             kin' = [kin EXCEPT ![x] = [parent |-> call[k].on, leaf |-> call[k].leaf]],
             call' = [call EXCEPT ![k].at = "publish", ![k].scope = x]
      PROVE  Invariant'
  <2>1. call[k] \in CallType /\ Placed(k) /\ call[k].at = "fresh" /\ x \in Children
        /\ kin[x].parent = None /\ gen[x] = 0
    BY DEF Invariant, TypeInv, Unused, Unminted
  <2>2. call[k].on # None
    BY <2>1 DEF Placed
  <2>3. kin' \in [Children -> KinType] /\ kin'[x].parent # None
    BY <1>2, <2>1, <2>2 DEF Invariant, TypeInv, KinType, CallType
  <2>4. call'[k] \in CallType /\ call'[k].at = "publish" /\ call'[k].scope = x
        /\ call'[k].copy = call[k].copy
    BY <1>2, <2>1 DEF Invariant, TypeInv, CallType, Points
  <2>5. OnlyCall(k)
    BY <1>2, <2>4 DEF Invariant, TypeInv, OnlyCall
  <2>6. TypeInv'
    BY <2>3, <2>5 DEF Invariant, TypeInv, OnlyCall
  <2>7. Moves(k)
    BY <1>2, <2>1 DEF Moves, Invariant, TypeInv
  <2>8. Placed(k)'
    BY <2>1, <2>3, <2>4 DEF Placed
  <2>9. \A j \in Calls \ {k} : call[j].at = "publish" => call[j].scope # x
    BY <2>1 DEF Invariant, Placed
  <2>10. QED
    BY <2>4, <2>5, <2>6, <2>7, <2>8, <2>9, Frame DEF Invariant
<1>3. QED
  BY <1>1, <1>2

LEMMA PublishChildKept ==
  ASSUME Distinct, Invariant, NEW k \in Calls, PublishChild(k)
  PROVE  Invariant'
<1> DEFINE x == call[k].scope
<1>1. call[k] \in CallType /\ Placed(k) /\ call[k].at = "publish" /\ x \in Children /\ gen[x] = 0
  BY DEF Invariant, TypeInv, PublishChild, Placed
<1>2. gen' \in {gen, [gen EXCEPT ![x] = 1]} /\ UNCHANGED <<kin, lineage, outbox>>
  BY DEF PublishChild
<1>3. Moves(k)
  BY <1>1, <1>2 DEF Moves, Invariant, TypeInv
<1>4. True(gen', lineage') /\ True(gen', outbox'.index) /\ True(gen', call[k].copy)
  BY <1>1, <1>2, <1>3, TrueKept DEF Invariant, TypeInv, OutboxType, CallType, Placed
<1>5. CASE Return(k)
  BY <1>2, <1>3, <1>4, <1>5, ReturnPlaced, Frame, IdleType DEF Invariant, TypeInv, OnlyCall
<1>6. CASE Goto(k, "wrap") /\ gen' = [gen EXCEPT ![x] = 1]
  <2>1. OnlyCall(k) /\ call'[k].at = "wrap" /\ call'[k].scope = x /\ call'[k].copy = call[k].copy
    BY <1>6, GotoPlace DEF Points
  <2>2. Placed(k)'
    BY <1>1, <1>4, <1>6, <2>1 DEF Placed, Invariant, TypeInv
  <2>3. TypeInv'
    BY <1>2, <2>1 DEF Invariant, TypeInv, OnlyCall
  <2>4. QED
    BY <1>3, <1>4, <2>1, <2>2, <2>3, Frame
<1>7. QED
  BY <1>5, <1>6 DEF PublishChild, After, Stored, RelayOutcomes

LEMMA WrapChildKept ==
  ASSUME Invariant, NEW k \in Calls, WrapChild(k)
  PROVE  Invariant'
<1>1. UNCHANGED <<gen, kin, lineage, outbox>> /\ (Return(k) \/ Goto(k, "reload"))
  BY DEF WrapChild, After
<1>2. ASSUME Goto(k, "reload")
      PROVE  Placed(k)' /\ OnlyCall(k) /\ call'[k].at # "publish"
  BY <1>1, <1>2, GotoPlace DEF Placed, Points, Invariant, WrapChild
<1>3. QED
  BY <1>1, <1>2, QuietFrame, ReturnKept

LEMMA ReloadIndexKept ==
  ASSUME Invariant, NEW k \in Calls, ReloadIndex(k)
  PROVE  Invariant'
<1>1. PICK ix \in IndexAnswers :
        call' = [call EXCEPT ![k].at = "save", ![k].copy = WithChild(ix, call[k].scope)]
  BY DEF ReloadIndex
<1>2. call[k] \in CallType /\ call[k].scope \in Children /\ gen[call[k].scope] # 0
  BY DEF ReloadIndex, Invariant, Placed, TypeInv
<1>3. WithChild(ix, call[k].scope) \in Index /\ True(gen, WithChild(ix, call[k].scope))
  BY <1>2, AnswersTrue, WithChildTrue
<1>4. call'[k] \in CallType /\ call'[k].at = "save" /\ call'[k].copy = WithChild(ix, call[k].scope)
  BY <1>1, <1>2, <1>3 DEF CallType, Points, Invariant, TypeInv
<1>5. OnlyCall(k)
  BY <1>1, <1>4 DEF OnlyCall, Invariant, TypeInv
<1>6. UNCHANGED <<gen, kin, lineage, outbox>>
  BY DEF ReloadIndex, relayVars
<1>7. Placed(k)'
  BY <1>3, <1>4, <1>6 DEF Placed
<1>8. QED
  BY <1>4, <1>5, <1>6, <1>7, QuietFrame

LEMMA SaveLineageKept ==
  ASSUME Invariant, NEW k \in Calls, SaveLineage(k)
  PROVE  Invariant'
<1>1. lineage' \in {lineage, call[k].copy} /\ Return(k) /\ UNCHANGED <<gen, kin, outbox>>
  BY DEF SaveLineage, relayVars
<1>2. call[k].copy \in Index /\ True(gen, call[k].copy)
  BY DEF Invariant, TypeInv, CallType, Placed
<1>3. lineage' \in Index /\ True(gen', lineage') /\ True(gen', outbox'.index)
  BY <1>1, <1>2 DEF Invariant, TypeInv
<1>4. Placed(k)' /\ OnlyCall(k) /\ call'[k].at = "idle" /\ Moves(k)
  BY <1>1, ReturnPlaced, IdleType DEF Moves
<1>5. TypeInv'
  BY <1>1, <1>3, <1>4 DEF Invariant, TypeInv, OnlyCall
<1>6. QED
  BY <1>3, <1>4, <1>5, Frame

-----------------------------------------------------------------------------
(* The steps of a read and its cascade. *)

LEMMA ReadKept ==
  ASSUME Invariant, NEW k \in Calls, NEW p \in Source, Read(k, p)
  PROVE  Invariant'
<1> DEFINE c == [NoCall EXCEPT !.at = "look", !.on = p]
<1>1. c \in CallType /\ c.at = "look" /\ c.copy = EmptyIndex
  BY IdleType DEF CallType, Points
<1>2. call' = [call EXCEPT ![k] = c] /\ UNCHANGED <<gen, kin, lineage, outbox>>
  BY DEF Read, relayVars
<1> HIDE DEF c
<1>3. call'[k] = c /\ OnlyCall(k)
  BY <1>1, <1>2 DEF Invariant, TypeInv, OnlyCall
<1>4. Placed(k)'
  BY <1>1, <1>3, EmptyIndexType DEF Placed
<1>5. QED
  BY <1>1, <1>2, <1>3, <1>4, QuietFrame

LEMMA DetectKept ==
  ASSUME Invariant, NEW k \in Calls, Detect(k)
  PROVE  Invariant'
<1>1. UNCHANGED <<gen, kin, lineage, outbox>> /\ (Return(k) \/ Goto(k, "cascade"))
  BY DEF Detect, relayVars
<1>2. ASSUME Goto(k, "cascade")
      PROVE  Placed(k)' /\ OnlyCall(k) /\ call'[k].at # "publish"
  BY <1>1, <1>2, GotoPlace DEF Placed, Points, Invariant
<1>3. QED
  BY <1>1, <1>2, QuietFrame, ReturnKept

LEMMA StartCascadeKept ==
  ASSUME Invariant, NEW k \in Calls, StartCascade(k)
  PROVE  Invariant'
<1>1. UNCHANGED <<gen, kin, lineage, outbox>>
  BY DEF StartCascade, relayVars
<1>2. CASE Return(k)
  BY <1>1, <1>2, ReturnKept
<1>3. ASSUME NEW ix \in IndexAnswers,
             call' = [call EXCEPT ![k].at = "sever", ![k].copy = ix,
                                  ![k].work = ActiveKids(ix, call[k].on)]
      PROVE  Invariant'
  <2>1. ix \in Index /\ True(gen, ix) /\ call[k] \in CallType
    BY AnswersTrue DEF Invariant, TypeInv
  <2>2. ActiveKids(ix, call[k].on) \subseteq Children
        /\ \A c \in ActiveKids(ix, call[k].on) : ix.row[c] = "active"
    BY DEF ActiveKids
  <2>3. /\ call'[k] \in CallType /\ call'[k].at = "sever" /\ call'[k].copy = ix
        /\ call'[k].work = ActiveKids(ix, call[k].on)
    BY <1>3, <2>1, <2>2 DEF CallType, Points, Invariant, TypeInv
  <2>4. OnlyCall(k)
    BY <1>3, <2>3 DEF OnlyCall, Invariant, TypeInv
  <2>5. Placed(k)'
    BY <1>1, <2>1, <2>2, <2>3 DEF Placed
  <2>6. QED
    BY <1>1, <2>3, <2>4, <2>5, QuietFrame
<1>4. QED
  BY <1>2, <1>3 DEF StartCascade

\* One child done in the copy, once it is severed: by this call, or before it.
LEMMA SeveredKept ==
  ASSUME Invariant, NEW k \in Calls, NEW x \in Children, call[k].at \in {"sever", "notify"},
         Severs(k, x), gen[x] = 2, UNCHANGED <<gen, kin, lineage, outbox>>
  PROVE  Invariant'
<1> DEFINE ix == Tombstone(call[k].copy, x)
           rest == (call[k].work \ {x}) \cup ActiveKids(ix, x)
<1>1. call[k] \in CallType /\ Placed(k) /\ call[k].work \subseteq Children
  BY DEF Invariant, TypeInv, CallType
<1>2. /\ ix \in Index /\ True(gen, ix)
      /\ \A d \in Children \ {x} : ix.row[d] = call[k].copy.row[d]
  BY <1>1, TombstoneTrue DEF CallType, Placed
<1>3. rest \subseteq Children
  BY <1>1 DEF ActiveKids
<1>4. \A d \in rest : ix.row[d] = "active"
  BY <1>1, <1>2 DEF ActiveKids, Placed
<1>5. call' = [call EXCEPT ![k].at = IF rest = {} THEN "save" ELSE "sever",
                           ![k].scope = None, ![k].copy = ix, ![k].work = rest]
  BY DEF Severs
<1> HIDE DEF ix, rest
<1>6. /\ call'[k] \in CallType /\ call'[k].at \in {"save", "sever"} /\ call'[k].copy = ix
      /\ call'[k].work = rest
  BY <1>1, <1>2, <1>3, <1>5 DEF CallType, Points, Invariant, TypeInv
<1>7. OnlyCall(k)
  BY <1>5, <1>6 DEF OnlyCall, Invariant, TypeInv
<1>8. Placed(k)'
  BY <1>2, <1>4, <1>6 DEF Placed
<1>9. QED
  BY <1>6, <1>7, <1>8, QuietFrame

\* Every child of the work is active in the copy, so the copy still has its key
\* and severing it publishes a generation the leaf cannot open.
LEMMA SeverKept ==
  ASSUME Distinct, Invariant, NEW k \in Calls, NEW x \in Children, Sever(k, x)
  PROVE  Invariant'
<1>1. call[k] \in CallType /\ Placed(k) /\ call[k].at = "sever" /\ call[k].copy.row[x] = "active"
      /\ UNCHANGED <<kin, lineage, outbox>>
  BY DEF Invariant, TypeInv, Sever, Placed
<1>2. x \in call[k].copy.issued /\ gen[x] # 0
  BY <1>1 DEF Placed, True
<1>3. gen' \in {gen, [gen EXCEPT ![x] = 2]}
  BY <1>2 DEF Sever
<1>4. Moves(k)
  BY <1>1, <1>2, <1>3 DEF Moves, Invariant, TypeInv
<1>5. True(gen', lineage') /\ True(gen', outbox'.index) /\ True(gen', call[k].copy)
  BY <1>1, <1>4, TrueKept DEF Invariant, TypeInv, OutboxType, CallType, Placed
<1>6. CASE Return(k)
  <2>1. Placed(k)' /\ OnlyCall(k) /\ call'[k].at = "idle"
    BY <1>6, ReturnPlaced, IdleType
  <2>2. TypeInv'
    BY <1>1, <1>3, <2>1 DEF Invariant, TypeInv, OnlyCall
  <2>3. QED
    BY <1>4, <1>5, <2>1, <2>2, Frame
<1>7. CASE call' = [call EXCEPT ![k].at = "notify", ![k].scope = x] /\ gen' = [gen EXCEPT ![x] = 2]
  <2>1. /\ call'[k] \in CallType /\ call'[k].at = "notify" /\ call'[k].scope = x
        /\ call'[k].copy = call[k].copy /\ call'[k].work = call[k].work
    BY <1>1, <1>7 DEF CallType, Points, Invariant, TypeInv
  <2>2. OnlyCall(k)
    BY <1>7, <2>1 DEF OnlyCall, Invariant, TypeInv
  <2>3. TypeInv'
    BY <1>1, <1>7, <2>2 DEF Invariant, TypeInv, OnlyCall
  <2>4. Placed(k)'
    BY <1>1, <1>5, <1>7, <2>1 DEF Placed, Invariant, TypeInv
  <2>5. QED
    BY <1>4, <1>5, <2>1, <2>2, <2>3, <2>4, Frame
<1>8. QED
  BY <1>2, <1>6, <1>7 DEF Sever, Stored, RelayOutcomes

LEMMA NotifyKept ==
  ASSUME Invariant, NEW k \in Calls, Notify(k)
  PROVE  Invariant'
<1>1. call[k].scope \in Children /\ gen[call[k].scope] = 2 /\ call[k].at = "notify"
      /\ UNCHANGED <<gen, kin, lineage, outbox>>
  BY DEF Notify, Invariant, Placed
<1>2. Return(k) \/ Severs(k, call[k].scope)
  BY DEF Notify
<1>3. QED
  BY <1>1, <1>2, ReturnKept, SeveredKept

-----------------------------------------------------------------------------
(* The steps of the outbox. *)

\* The record of the delegator is found or minted in a copy ob of the outbox.
LEMMA WithRecordKept ==
  ASSUME Invariant, NEW k \in Calls, NEW d \in Delegators, NEW ob \in OutboxType,
         True(gen, ob.index), WithRecord(k, d, ob), UNCHANGED <<gen, kin, lineage>>
  PROVE  Invariant'
<1>1. ASSUME NEW c \in CallType, c.at = "out", c.scope \in OutScopes, c.copy = EmptyIndex,
             call' = [call EXCEPT ![k] = c],
             outbox' \in OutboxType, outbox'.index = ob.index
      PROVE  Invariant'
  <2>1. call'[k] = c /\ OnlyCall(k)
    BY <1>1 DEF Invariant, TypeInv, OnlyCall
  <2>2. TypeInv' /\ Moves(k)
    BY <1>1, <2>1 DEF Invariant, TypeInv, OnlyCall, Moves
  <2>3. Placed(k)' /\ True(gen', lineage') /\ True(gen', outbox'.index)
    BY <1>1, <2>1, EmptyIndexType DEF Placed, Invariant
  <2>4. QED
    BY <1>1, <2>1, <2>2, <2>3, Frame
<1>2. CASE ob.recs[d] # None
  <2> DEFINE c == [NoCall EXCEPT !.at = "out", !.to = d, !.scope = ob.recs[d]]
  <2>1. ob.recs[d] \in OutScopes
    BY <1>2 DEF OutboxType
  <2>2. c \in CallType /\ c.at = "out" /\ c.scope = ob.recs[d] /\ c.copy = EmptyIndex
    BY <2>1, IdleType DEF CallType, Points
  <2>3. outbox' = ob /\ call' = [call EXCEPT ![k] = c]
    BY <1>2 DEF WithRecord
  <2> HIDE DEF c
  <2>4. QED
    BY <1>1, <2>1, <2>2, <2>3
<1>3. CASE ob.recs[d] = None
  <2>1. PICK s \in UnusedOut :
          /\ outbox' = [ob EXCEPT !.recs[d] = s]
          /\ call' = [call EXCEPT ![k] = [NoCall EXCEPT !.at = "out", !.to = d, !.scope = s,
                                                      !.first = TRUE]]
    BY <1>3 DEF WithRecord
  <2> DEFINE c == [NoCall EXCEPT !.at = "out", !.to = d, !.scope = s, !.first = TRUE]
  <2>2. c \in CallType /\ c.at = "out" /\ c.scope \in OutScopes /\ c.copy = EmptyIndex
    BY IdleType DEF CallType, Points, UnusedOut
  <2>3. call' = [call EXCEPT ![k] = c]
    BY <2>1
  <2>4. outbox' \in OutboxType /\ outbox'.index = ob.index
    BY <2>1 DEF OutboxType, UnusedOut
  <2> HIDE DEF c
  <2>5. QED
    BY <1>1, <2>2, <2>3, <2>4
<1>4. QED
  BY <1>2, <1>3

LEMMA WriteKept ==
  ASSUME Invariant, NEW k \in Calls, NEW d \in Delegators, Write(k, d)
  PROVE  Invariant'
<1>1. UNCHANGED <<gen, kin, lineage>> /\ outbox \in OutboxType /\ True(gen, outbox.index)
  BY DEF Write, relayVars, Invariant, TypeInv
<1>2. CASE outbox.loaded
  BY <1>1, <1>2, WithRecordKept DEF Write
<1>3. CASE ~outbox.loaded
  <2> DEFINE c == [NoCall EXCEPT !.at = "load", !.to = d]
  <2>1. c \in CallType /\ c.at = "load" /\ c.to = d /\ c.copy = EmptyIndex
    BY IdleType DEF CallType, Points
  <2>2. call' = [call EXCEPT ![k] = c] /\ outbox' = [outbox EXCEPT !.loaded = TRUE]
    BY <1>3 DEF Write
  <2> HIDE DEF c
  <2>3. call'[k] = c /\ OnlyCall(k)
    BY <2>1, <2>2 DEF Invariant, TypeInv, OnlyCall
  <2>4. outbox' \in OutboxType /\ outbox'.index = outbox.index
    BY <1>1, <2>2 DEF OutboxType
  <2>5. TypeInv' /\ Moves(k)
    BY <1>1, <2>3, <2>4 DEF Invariant, TypeInv, OnlyCall, Moves
  <2>6. Placed(k)' /\ True(gen', lineage') /\ True(gen', outbox'.index)
    BY <1>1, <2>1, <2>3, <2>4, EmptyIndexType DEF Placed, Invariant
  <2>7. QED
    BY <2>1, <2>3, <2>5, <2>6, Frame
<1>4. QED
  BY <1>2, <1>3

LEMMA LoadOutboxKept ==
  ASSUME Invariant, NEW k \in Calls, LoadOutbox(k)
  PROVE  Invariant'
<1>1. PICK ix \in IndexAnswers :
         WithRecord(k, call[k].to,
             [outbox EXCEPT !.index = ix,
                            !.recs = [d \in Delegators |->
                                IF ix.outbox[d] \in ix.issued THEN ix.outbox[d] ELSE @[d]]])
  BY DEF LoadOutbox
<1> DEFINE recs == [d \in Delegators |->
                      IF ix.outbox[d] \in ix.issued THEN ix.outbox[d] ELSE outbox.recs[d]]
           ob == [outbox EXCEPT !.index = ix, !.recs = recs]
<1>2. ix \in Index /\ True(gen, ix) /\ outbox \in OutboxType
  BY AnswersTrue DEF Invariant, TypeInv
<1>3. recs \in [Delegators -> OutScopes \cup {None}]
  BY <1>2 DEF Index, OutboxType
<1>4. WithRecord(k, call[k].to, ob)
  BY <1>1
<1> HIDE DEF recs
<1>5. ob \in OutboxType /\ ob.index = ix
  BY <1>2, <1>3 DEF OutboxType
<1>6. UNCHANGED <<gen, kin, lineage>>
  BY DEF LoadOutbox, relayVars
<1>7. call[k].to \in Delegators
  BY DEF LoadOutbox, Invariant, Placed
<1> HIDE DEF ob
<1>8. QED
  BY <1>2, <1>4, <1>5, <1>6, <1>7, WithRecordKept

LEMMA PublishOutKept ==
  ASSUME Distinct, Invariant, NEW k \in Calls, PublishOut(k)
  PROVE  Invariant'
<1> DEFINE x == call[k].scope
<1>1. call[k].at = "out" /\ x \in OutScopes /\ x \notin Children /\ Placed(k)
  BY DEF PublishOut, Invariant, Placed, Distinct
<1>2. gen' \in {gen, [gen EXCEPT ![x] = 1]} /\ UNCHANGED <<kin, lineage, outbox>>
  BY DEF PublishOut
<1>3. gen' \in [Children \cup OutScopes -> {0, 1, 2}] /\ \A c \in Children : gen'[c] = gen[c]
  BY <1>1, <1>2 DEF Invariant, TypeInv
<1>4. Moves(k)
  BY <1>2, <1>3 DEF Moves
<1>5. True(gen', lineage') /\ True(gen', outbox'.index) /\ True(gen', call[k].copy)
  BY <1>2, <1>4, TrueKept DEF Invariant, TypeInv, OutboxType, CallType, Placed
<1>6. Return(k) \/ Goto(k, "back")
  BY DEF PublishOut, After
<1>7. OnlyCall(k) /\ call'[k].at \in {"idle", "back"} /\ Placed(k)'
  <2>1. CASE Return(k)
    BY <2>1, ReturnPlaced, IdleType
  <2>2. CASE Goto(k, "back")
    BY <2>2, <1>1, <1>5, GotoPlace DEF Points, Placed
  <2>3. QED
    BY <1>6, <2>1, <2>2
<1>8. TypeInv'
  BY <1>2, <1>3, <1>7 DEF Invariant, TypeInv, OnlyCall
<1>9. QED
  BY <1>4, <1>5, <1>7, <1>8, Frame

LEMMA GrantBackKept ==
  ASSUME Invariant, NEW k \in Calls, GrantBack(k)
  PROVE  Invariant'
<1>1. UNCHANGED <<gen, kin, lineage, outbox>> /\ (Return(k) \/ Goto(k, "keep"))
  BY DEF GrantBack, After
<1>2. ASSUME Goto(k, "keep")
      PROVE  Placed(k)' /\ OnlyCall(k) /\ call'[k].at # "publish"
  BY <1>1, <1>2, GotoPlace DEF Placed, Points, Invariant
<1>3. QED
  BY <1>1, <1>2, QuietFrame, ReturnKept

LEMMA SaveOutboxKept ==
  ASSUME Invariant, NEW k \in Calls, SaveOutbox(k)
  PROVE  Invariant'
<1>1. /\ outbox' = [outbox EXCEPT !.index = WithRecords(outbox)]
      /\ lineage' \in {lineage, WithRecords(outbox)} /\ Return(k) /\ UNCHANGED <<gen, kin>>
  BY DEF SaveOutbox, relayVars
<1>2. outbox \in OutboxType /\ WithRecords(outbox) \in Index /\ True(gen, WithRecords(outbox))
  BY RecordedTrue DEF Invariant, TypeInv
<1>3. outbox' \in OutboxType /\ outbox'.index = WithRecords(outbox)
  BY <1>1, <1>2 DEF OutboxType
<1>4. lineage' \in Index /\ True(gen', lineage') /\ True(gen', outbox'.index)
  BY <1>1, <1>2, <1>3 DEF Invariant, TypeInv
<1>5. Placed(k)' /\ OnlyCall(k) /\ call'[k].at = "idle" /\ Moves(k)
  BY <1>1, ReturnPlaced, IdleType DEF Moves
<1>6. TypeInv'
  BY <1>1, <1>3, <1>4, <1>5 DEF Invariant, TypeInv, OnlyCall
<1>7. QED
  BY <1>4, <1>5, <1>6, Frame

LEMMA RestartKept == ASSUME Invariant, Restart PROVE Invariant'
BY EmptyIndexType, IdleType
   DEF Restart, relayVars, Invariant, TypeInv, Unminted, Placed, OneMaker, OutboxType

-----------------------------------------------------------------------------

LEMMA InvariantKept == ASSUME Distinct, Invariant, [DeriveNext]_derivedVars PROVE Invariant'
<1>1. CASE UNCHANGED derivedVars
  <2>1. UNCHANGED <<gen, kin, lineage, outbox, call>>
    BY <1>1 DEF derivedVars
  <2>2. TypeInv' /\ Unminted' /\ OneMaker' /\ True(gen', lineage') /\ True(gen', outbox'.index)
    BY <2>1 DEF Invariant, TypeInv, Unminted, OneMaker
  <2>3. ASSUME NEW k \in Calls PROVE Placed(k)'
    BY <2>1 DEF Invariant, Placed, True
  <2>4. QED
    BY <2>2, <2>3 DEF Invariant
<1>2. ASSUME NEW p \in Parents, RotateParent(p) PROVE Invariant'
  BY <1>2 DEF RotateParent, Invariant, TypeInv, Unminted, Placed, OneMaker
<1>3. ASSUME NEW k \in Calls, CallStep(k) PROVE Invariant'
  BY <1>3, LoadOutboxKept, BudgetKept, RefetchKept, PublishChildKept, WrapChildKept,
     ReloadIndexKept, SaveLineageKept, DetectKept, StartCascadeKept, SeverKept, NotifyKept,
     PublishOutKept, GrantBackKept, SaveOutboxKept DEF CallStep
<1>4. QED
  BY <1>1, <1>2, <1>3, DeriveKept, ReadKept, WriteKept, RestartKept DEF DeriveNext

\* No cascade records a revoked row while the leaf's key still opens the scope
\* (cascadeDerivedRevocation), whichever calls overlap and whatever fails.
THEOREM Severing == ASSUME Distinct PROVE DeriveSpec => []TombstoneMeansSevered
<1>1. Invariant => TombstoneMeansSevered
  BY DEF Invariant, True, TombstoneMeansSevered
<1>2. QED
  BY <1>1, InvariantInit, InvariantKept, PTL DEF DeriveSpec

=============================================================================
