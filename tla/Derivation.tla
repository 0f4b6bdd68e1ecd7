----------------------------- MODULE Derivation -----------------------------
(* The agent as a publisher of its own: the scopes it derives from a grant   *)
(* that permits re-delegation (src/mcp/src/subgrants.ts and                  *)
(* redelegate-bound.ts), the cascade that severs them when the parent is     *)
(* revoked, and the output scope of src/mcp/src/outbox.ts.  The three keep   *)
(* their records in ONE replaceable event, the agent's own Grant Index, and  *)
(* every tool call reads and writes it across awaits of a single process.    *)
(*                                                                           *)
(* A derived scope is a member of Children.  Its generation on the relays is *)
(* 0 before it is published, 1 under the key the leaf was given, 2 once a    *)
(* cascade has republished it empty under a key nobody holds.  What a row of *)
(* nvoy_derived_children says of a child never changes but for its state, so *)
(* the parent and leaf of a child are kept once, in kin, and an index gives  *)
(* each child the state of its row.  The order of the rows and the cap of    *)
(* 500 rows are not modelled.                                                *)
EXTENDS Naturals, FiniteSets

CONSTANTS
    Parents,        \* scopes other publishers granted to this agent
    Children,       \* the derived scopes this run may create
    Leaves,         \* recipients of derived grants
    Self,           \* this agent, when it is its own leaf
    Delegators,     \* addressees of an output scope
    OutScopes,      \* the output scopes this run may create
    None,           \* no scope, no leaf
    Calls,          \* tool calls in flight at one time
    Tools,          \* the tools called: a subset of {"derive", "read", "write"}
    MaxChildren,    \* max_children of a parent's terms
    MaxGrantees,    \* max_grantees of a parent's terms
    RelayFaults,    \* what may go wrong: a subset of {"refuse", "lost", "miss"}
    MaxRestarts     \* bound on restarts of the runtime

\* The scopes, the people and None are distinct; the bounds are positive numbers.

VARIABLES
    rotated,        \* parents their publisher has rotated past this agent
    dead,           \* scopes this process marked revoked (GrantStore.revocations)
    gen,            \* generation on the relays of each scope this agent publishes
    holder,         \* who was handed the key of generation 1, or None
    notified,       \* children whose leaf was sent a kind-441 notice
    kin,            \* parent and leaf of each child, fixed when it is minted
    lineage,        \* the Grant Index on the relays
    outbox,         \* the Outbox object: loaded, its index object, its records
    call,           \* the tool calls
    restarts

derivedVars == <<rotated, dead, gen, holder, notified, kin, lineage, outbox, call, restarts>>
relayVars == <<rotated, gen, holder, notified>>

People == Leaves \cup {Self}
Source == Parents \cup Children
Index == [row    : [Children -> {"none", "active", "revoked"}],
          issued : SUBSET (Children \cup OutScopes),
          outbox : [Delegators -> OutScopes \cup {None}]]

\* What loadGrantIndex answers when the relays return no event.
EmptyIndex == [row    |-> [c \in Children |-> "none"],
               issued |-> {},
               outbox |-> [d \in Delegators |-> None]]

NoCall == [at |-> "idle", on |-> None, leaf |-> None, to |-> None, scope |-> None,
           first |-> FALSE, work |-> {}, copy |-> EmptyIndex]

DeriveInit ==
    /\ rotated = {} /\ dead = {} /\ notified = {} /\ restarts = 0
    /\ gen = [s \in Children \cup OutScopes |-> 0]
    /\ holder = [s \in Children \cup OutScopes |-> None]
    /\ kin = [c \in Children |-> [parent |-> None, leaf |-> None]]
    /\ lineage = EmptyIndex
    /\ outbox = [loaded |-> FALSE, index |-> EmptyIndex,
                 recs |-> [d \in Delegators |-> None]]
    /\ call = [k \in Calls |-> NoCall]

-----------------------------------------------------------------------------
(* The relays *)

\* A publish is stored and acknowledged, refused, or stored with the
\* acknowledgement lost; only the first lets the caller go on.
RelayOutcomes == {"ok"} \cup (RelayFaults \cap {"refuse", "lost"})
Stored(o) == o # "refuse"

\* fetchScope: a grant of generation 1 no longer opens the scope.
Superseded(s) == IF s \in Parents THEN s \in rotated ELSE gen[s] = 2

\* What a query of the Grant Index may answer.
IndexAnswers == {lineage} \cup IF "miss" \in RelayFaults THEN {EmptyIndex} ELSE {}

\* The grants this agent holds: its parents', and children it is the leaf of.
Held == Parents \cup {c \in Children : holder[c] = Self}

Goto(k, l) == call' = [call EXCEPT ![k].at = l]
Return(k) == call' = [call EXCEPT ![k] = NoCall]
After(k, o, l) == IF o = "ok" THEN Goto(k, l) ELSE Return(k)

\* A delegator rotates a parent scope past this agent.
RotateParent(p) ==
    /\ p \notin rotated
    /\ rotated' = rotated \cup {p}
    /\ UNCHANGED <<dead, gen, holder, notified, kin, lineage, outbox, call, restarts>>

-----------------------------------------------------------------------------
(* nvoy_grant_derive and issueDerivedGrant *)

\* The tool and validate(): the parent is active in this process and its data
\* set was just read; nothing is published otherwise.
Derive(k, p, l) ==
    /\ "derive" \in Tools /\ call[k].at = "idle"
    /\ p \in Held \ dead /\ ~Superseded(p)
    /\ call' = [call EXCEPT ![k] = [NoCall EXCEPT !.at = "budget", !.on = p, !.leaf = l]]
    /\ UNCHANGED <<relayVars, dead, kin, lineage, outbox, restarts>>

\* admitsAnother: revoked rows count, and a leaf that already has a row of the
\* parent takes no new place.
Siblings(ix, p) == {c \in Children : ix.row[c] # "none" /\ kin[c].parent = p}
Reached(ix, p) == {kin[c].leaf : c \in Siblings(ix, p)}
AdmitsAnother(ix, p, l) ==
    /\ Cardinality(Siblings(ix, p)) < MaxChildren
    /\ l \in Reached(ix, p) \/ Cardinality(Reached(ix, p)) < MaxGrantees

Budget(k) ==
    /\ call[k].at = "budget"
    /\ \E ix \in IndexAnswers :
         IF AdmitsAnother(ix, call[k].on, call[k].leaf) THEN Goto(k, "fresh") ELSE Return(k)
    /\ UNCHANGED <<relayVars, dead, kin, lineage, outbox, restarts>>

\* The second fetchScope of the parent, and a new scope id and key.
Unused == {c \in Children : kin[c].parent = None}

Refetch(k) ==
    /\ call[k].at = "fresh"
    /\ \/ /\ ~Superseded(call[k].on)
          /\ \E c \in Unused :
               /\ kin' = [kin EXCEPT ![c] = [parent |-> call[k].on, leaf |-> call[k].leaf]]
               /\ call' = [call EXCEPT ![k].at = "publish", ![k].scope = c]
       \/ /\ Superseded(call[k].on) \/ "miss" \in RelayFaults
          /\ Return(k)
          /\ UNCHANGED kin
    /\ UNCHANGED <<relayVars, dead, lineage, outbox, restarts>>

PublishChild(k) ==
    /\ call[k].at = "publish"
    /\ \E o \in RelayOutcomes :
         /\ gen' = IF Stored(o) THEN [gen EXCEPT ![call[k].scope] = 1] ELSE gen
         /\ After(k, o, "wrap")
    /\ UNCHANGED <<rotated, dead, holder, notified, kin, lineage, outbox, restarts>>

WrapChild(k) ==
    /\ call[k].at = "wrap"
    /\ \E o \in RelayOutcomes :
         /\ holder' = IF Stored(o) THEN [holder EXCEPT ![call[k].scope] = call[k].leaf]
                                   ELSE holder
         /\ After(k, o, "reload")
    /\ UNCHANGED <<rotated, dead, gen, notified, kin, lineage, outbox, restarts>>

WithChild(ix, c) == [ix EXCEPT !.row[c] = "active", !.issued = @ \cup {c}]

ReloadIndex(k) ==
    /\ call[k].at = "reload"
    /\ \E ix \in IndexAnswers :
         call' = [call EXCEPT ![k].at = "save", ![k].copy = WithChild(ix, call[k].scope)]
    /\ UNCHANGED <<relayVars, dead, kin, lineage, outbox, restarts>>

\* saveLineage, of an issue or of a cascade: the whole copy replaces the event.
SaveLineage(k) ==
    /\ call[k].at = "save"
    /\ \E o \in RelayOutcomes : lineage' = IF Stored(o) THEN call[k].copy ELSE lineage
    /\ Return(k)
    /\ UNCHANGED <<relayVars, dead, kin, outbox, restarts>>

-----------------------------------------------------------------------------
(* A read that finds the parent rotated: detectRevocation and the cascade *)

\* scope_read answers from memory when the grant is already marked, so a
\* cascade starts once per process and parent.
Read(k, p) ==
    /\ "read" \in Tools /\ call[k].at = "idle"
    /\ p \in Held \ dead
    /\ call' = [call EXCEPT ![k] = [NoCall EXCEPT !.at = "look", !.on = p]]
    /\ UNCHANGED <<relayVars, dead, kin, lineage, outbox, restarts>>

Detect(k) ==
    /\ call[k].at = "look"
    /\ IF Superseded(call[k].on)
       THEN dead' = dead \cup {call[k].on} /\ Goto(k, "cascade")
       ELSE Return(k) /\ UNCHANGED dead
    /\ UNCHANGED <<relayVars, kin, lineage, outbox, restarts>>

ActiveKids(ix, s) == {c \in Children : ix.row[c] = "active" /\ kin[c].parent = s}

StartCascade(k) ==
    /\ call[k].at = "cascade"
    /\ \E ix \in IndexAnswers :
         LET kids == ActiveKids(ix, call[k].on) IN
         IF kids = {} THEN Return(k)
         ELSE call' = [call EXCEPT ![k].at = "sever", ![k].copy = ix, ![k].work = kids]
    /\ UNCHANGED <<relayVars, dead, kin, lineage, outbox, restarts>>

\* One child is done in the copy: its key leaves it, its row is a tombstone, and
\* the children under it are next; after the last one the copy is saved.
Tombstone(ix, c) == [ix EXCEPT !.row[c] = "revoked", !.issued = @ \ {c}]
SeveredOne(k, c) ==
    call' = [call EXCEPT ![k].at = "save", ![k].scope = None,
                         ![k].copy = Tombstone(call[k].copy, c), ![k].work = {}]
Severs(k, c) ==
    LET ix   == Tombstone(call[k].copy, c)
        rest == (call[k].work \ {c}) \cup ActiveKids(ix, c)
    IN  call' = [call EXCEPT ![k].at = IF rest = {} THEN "save" ELSE "sever",
                             ![k].scope = None, ![k].copy = ix, ![k].work = rest]

\* Mutant of Sever: a failed publish is passed over.
SeverAnyway(k, c) ==
    /\ call[k].at = "sever" /\ c \in call[k].work
    /\ \E o \in RelayOutcomes : gen' = IF Stored(o) THEN [gen EXCEPT ![c] = 2] ELSE gen
    /\ call' = [call EXCEPT ![k].at = "notify", ![k].scope = c]
    /\ UNCHANGED <<rotated, dead, holder, notified, kin, lineage, outbox, restarts>>
\* Republish a child empty under a fresh key.  A throw leaves the cascade, and
\* the copy with every tombstone in it is dropped.
Sever(k, c) ==
    /\ call[k].at = "sever" /\ c \in call[k].work
    /\ IF c \in call[k].copy.issued
       THEN \E o \in RelayOutcomes :
              /\ gen' = IF Stored(o) THEN [gen EXCEPT ![c] = 2] ELSE gen
              /\ IF o = "ok"
                 THEN call' = [call EXCEPT ![k].at = "notify", ![k].scope = c]
                 ELSE Return(k)
       ELSE Severs(k, c) /\ UNCHANGED gen
    /\ UNCHANGED <<rotated, dead, holder, notified, kin, lineage, outbox, restarts>>

Notify(k) ==
    /\ call[k].at = "notify"
    /\ \E o \in RelayOutcomes :
         /\ notified' = IF Stored(o) THEN notified \cup {call[k].scope} ELSE notified
         /\ IF o = "ok" THEN Severs(k, call[k].scope) ELSE Return(k)
    /\ UNCHANGED <<rotated, dead, gen, holder, kin, lineage, outbox, restarts>>

-----------------------------------------------------------------------------
(* nvoy_outbox_write: Outbox.write, ensureLoaded and save *)

\* The record of the delegator, minted at its first write.
UnusedOut == {s \in OutScopes : gen[s] = 0 /\ (\A d \in Delegators : outbox.recs[d] # s)
                                /\ (\A j \in Calls : call[j].scope # s)}
WithRecord(k, d, ob) ==
    IF ob.recs[d] # None
    THEN /\ outbox' = ob
         /\ call' = [call EXCEPT ![k] = [NoCall EXCEPT !.at = "out", !.to = d,
                                                     !.scope = ob.recs[d]]]
    ELSE \E s \in UnusedOut :
           /\ outbox' = [ob EXCEPT !.recs[d] = s]
           /\ call' = [call EXCEPT ![k] = [NoCall EXCEPT !.at = "out", !.to = d,
                                                       !.scope = s, !.first = TRUE]]

\* loaded is set before the index is awaited, so a second write goes on without it.
Write(k, d) ==
    /\ "write" \in Tools /\ call[k].at = "idle"
    /\ IF outbox.loaded
       THEN WithRecord(k, d, outbox)
       ELSE /\ outbox' = [outbox EXCEPT !.loaded = TRUE]
            /\ call' = [call EXCEPT ![k] = [NoCall EXCEPT !.at = "load", !.to = d]]
    /\ UNCHANGED <<relayVars, dead, kin, lineage, restarts>>

\* The index object is kept from here on; the records it names replace the
\* ones made meanwhile.
LoadOutbox(k) ==
    /\ call[k].at = "load"
    /\ \E ix \in IndexAnswers :
         WithRecord(k, call[k].to,
             [outbox EXCEPT !.index = ix,
                            !.recs = [d \in Delegators |->
                                IF ix.outbox[d] \in ix.issued THEN ix.outbox[d] ELSE @[d]]])
    /\ UNCHANGED <<relayVars, dead, kin, lineage, restarts>>

PublishOut(k) ==
    /\ call[k].at = "out"
    /\ \E o \in RelayOutcomes :
         /\ gen' = IF Stored(o) THEN [gen EXCEPT ![call[k].scope] = 1] ELSE gen
         /\ IF call[k].first THEN After(k, o, "back") ELSE Return(k)
    /\ UNCHANGED <<rotated, dead, holder, notified, kin, lineage, outbox, restarts>>

GrantBack(k) ==
    /\ call[k].at = "back"
    /\ \E o \in RelayOutcomes :
         /\ holder' = IF Stored(o) THEN [holder EXCEPT ![call[k].scope] = call[k].to]
                                   ELSE holder
         /\ After(k, o, "keep")
    /\ UNCHANGED <<rotated, dead, gen, notified, kin, lineage, outbox, restarts>>

\* save: the records go into the index object kept since the load, and that
\* object replaces the event on the relays.
WithRecords(ob) ==
    LET outs == {ob.recs[d] : d \in Delegators} \ {None}
    IN  [ob.index EXCEPT !.issued = @ \cup outs, !.outbox = ob.recs]

SaveOutbox(k) ==
    /\ call[k].at = "keep"
    /\ outbox' = [outbox EXCEPT !.index = WithRecords(outbox)]
    /\ \E o \in RelayOutcomes : lineage' = IF Stored(o) THEN WithRecords(outbox) ELSE lineage
    /\ Return(k)
    /\ UNCHANGED <<relayVars, dead, kin, restarts>>

-----------------------------------------------------------------------------
\* The runtime stops at any await and starts again with an empty memory.
Restart ==
    /\ restarts < MaxRestarts
    /\ restarts' = restarts + 1
    /\ dead' = {}
    /\ outbox' = [loaded |-> FALSE, index |-> EmptyIndex,
                  recs |-> [d \in Delegators |-> None]]
    /\ call' = [k \in Calls |-> NoCall]
    /\ UNCHANGED <<relayVars, kin, lineage>>

CallStep(k) ==
    \/ Budget(k) \/ Refetch(k) \/ PublishChild(k) \/ WrapChild(k) \/ ReloadIndex(k)
    \/ SaveLineage(k) \/ Detect(k) \/ StartCascade(k) \/ (\E c \in Children : Sever(k, c))
    \/ Notify(k) \/ LoadOutbox(k) \/ PublishOut(k) \/ GrantBack(k) \/ SaveOutbox(k)

DeriveNext ==
    \/ \E p \in Parents : RotateParent(p)
    \/ \E k \in Calls :
         \/ \E p \in Source, l \in People : Derive(k, p, l)
         \/ \E p \in Source : Read(k, p)
         \/ \E d \in Delegators : Write(k, d)
         \/ CallStep(k)
    \/ Restart

DeriveSpec == DeriveInit /\ [][DeriveNext]_derivedVars

\* Every await of a started call is answered or times out.
LiveSpec == DeriveSpec /\ \A k \in Calls : WF_derivedVars(CallStep(k))

-----------------------------------------------------------------------------
(* Properties *)

\* A tombstone means the child is severed: no cascade records a revoked row
\* while the leaf's key still opens the scope (cascadeDerivedRevocation).
TombstoneMeansSevered ==
    \A c \in Children : lineage.row[c] = "revoked" => gen[c] = 2

\* A revocation the runtime has noticed reaches every leaf under the parent.
CascadeCompletes ==
    \A c \in Children :
        (kin[c].parent \in dead /\ lineage.row[c] = "active") ~> (gen[c] = 2)

=============================================================================
