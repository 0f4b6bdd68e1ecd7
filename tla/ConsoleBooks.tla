---------------------------- MODULE ConsoleBooks ----------------------------
(***************************************************************************)
(* What the delegator's console derives from the Grant Index and from the   *)
(* public grants of its key: the delegations and their status, the kinds of *)
(* grantee and of grant, the lineage of derived grants, the agent roster.   *)
(* Pure functions of an index [held, log, agents, kids]: the grantees of    *)
(* each scope, the event log, the registered agents, the derived grants.    *)
(***************************************************************************)
EXTENDS Naturals, Sequences, FiniteSets

CONSTANTS
  People,    \* public keys
  Me,        \* the delegator's
  Upstream,  \* a delegator who granted to Me
  Scopes,    \* scopes Me publishes
  Namespace, \* the namespace of each scope's name
  Caps,      \* public capability grants other apps publish under Me's key
  CapOf,     \* each: its grantee and its capability
  LedgerCap, \* events the log keeps
  Now        \* the clock: deadlines up to it have passed

NoDeadline == 0

\* An index, and its log of the newest LedgerCap events.
NewIndex == [held |-> [s \in Scopes |-> {}], log |-> <<>>, agents |-> {}, kids |-> {}]
Event(t, s, p, until) == [t |-> t, scope |-> s, agent |-> p, until |-> until]
Logged(x, ev) ==
  LET log == Append(x.log, ev)
      over == Len(log) - LedgerCap
  IN IF over > 0 THEN SubSeq(log, over + 1, Len(log)) ELSE log

-----------------------------------------------------------------------------
\* Delegations: one row for each pair ever granted, or held without a record.

Granted(x, s, p) == {i \in DOMAIN x.log : /\ x.log[i].t = "granted"
                                         /\ x.log[i].scope = s /\ x.log[i].agent = p}
Newest(S) == CHOOSE i \in S : \A j \in S : j <= i
Deadline(x, s, p) ==
  IF Granted(x, s, p) = {} THEN NoDeadline ELSE x.log[Newest(Granted(x, s, p))].until
Past(until) == until # NoDeadline /\ until <= Now

\* How a pair that is no longer held ended: by the newest event that ends it.
Ends(x, s, p) ==
  {i \in DOMAIN x.log : /\ x.log[i].scope = s
                        /\ \/ x.log[i].t \in {"relinquished", "revoked"} /\ x.log[i].agent = p
                           \/ x.log[i].t = "expired" /\ Past(Deadline(x, s, p))}
Dropped(x, s, p) == IF Ends(x, s, p) = {} THEN "revoked" ELSE x.log[Newest(Ends(x, s, p))].t

Status(x, s, p) ==
  CASE p \notin x.held[s] -> Dropped(x, s, p)
    [] p \in x.held[s] /\ Past(Deadline(x, s, p)) -> "expired"
    [] p \in x.held[s] /\ ~Past(Deadline(x, s, p)) -> "active"

Row(s, p, status, ext) == [scope |-> s, agent |-> p, status |-> status, external |-> ext]
Delegations(x) ==
  {Row(s, p, Status(x, s, p), FALSE) : <<s, p>> \in
     {sp \in Scopes \X People : Granted(x, sp[1], sp[2]) # {} \/ sp[2] \in x.held[sp[1]]}}

\* Public grants: revoked by an event that names them; another app's data
\* grant is the index's to show.
External(issued, revoked) ==
  {Row(c, CapOf[c].agent, IF c \in revoked THEN "revoked" ELSE "active", TRUE) :
     c \in {k \in issued : CapOf[k].cap # "data"}}

-----------------------------------------------------------------------------
\* Facets.

Admissions == {"admit", "admit+read", "mirror"}

\* What a grant conveys, by its scope's namespace or its capability.
ScopeKind(r) ==
  CASE r.external /\ CapOf[r.scope].cap \in Admissions -> "admission"
    [] r.external /\ CapOf[r.scope].cap \notin Admissions -> "action"
    [] ~r.external /\ Namespace[r.scope] = "credential" -> "credential"
    [] ~r.external /\ Namespace[r.scope] \in {"capability", "channel"} -> "action"
    [] ~r.external /\ Namespace[r.scope] \in {"data", "profile", "draft", "steer", "derived"} -> "data"
    [] OTHER -> "unnamespaced"

\* Who holds it.
GranteeKind(p, agents, rows) ==
  LET mine == {r \in rows : r.agent = p}
  IN CASE p = Me -> "self"
       [] p # Me /\ p \in agents -> "agent"
       [] p # Me /\ p \notin agents /\ mine # {} /\ (\A r \in mine : r.external /\ CapOf[r.scope].cap \in Admissions)
            -> "admitted"
       [] OTHER -> "unregistered"

-----------------------------------------------------------------------------
\* Lineage: the grants Me derived, each from a parent named by its publisher
\* and its scope.

Kids == [pub: {Me, Upstream}, scope: Scopes, to: People]
ChildrenOf(x, s, pub) == {k \in x.kids : k.scope = s /\ k.pub = pub}
ChildrenTo(x, p) == {k \in x.kids : k.to = p}

\* The children whose parent has no card.
Homeless(x, rows) == {k \in x.kids : \A r \in rows : r.scope # k.scope \/ k.pub # Me}

-----------------------------------------------------------------------------
\* The roster.

\* Enrolling changes nothing for the delegator's own key or a key enrolled.
CanEnrol(x, p) == p # Me /\ p \notin x.agents
Enrolled(x, p) == IF CanEnrol(x, p) THEN [x EXCEPT !.agents = @ \cup {p}] ELSE x
Removed(x, p) == [x EXCEPT !.agents = @ \ {p}]
=============================================================================
