---------------------------- MODULE ConsoleView -----------------------------
(***************************************************************************)
(* One browser tab of the delegator's console: the index and the inbox it   *)
(* has loaded, the pages it renders from them, and the operator's clicks.   *)
(* A page shows what it was rendered from: nothing repaints it but a click  *)
(* on it, another tab, or the end of a load.  Loads overlap: the refresh    *)
(* button, the expiry timer and the end of a save each start one.           *)
(***************************************************************************)
EXTENDS ConsoleBooks

CONSTANTS
  Requests,   \* access requests
  Owner,      \* whose key each asks to admit
  Choices,    \* the filters the operator may click: <<facet, value>>
  Groupings,  \* the axes the ledger may be grouped by
  Loads,      \* loads under way at once, at most
  DismissCap, \* dismissals the device remembers
  None,
  MaxElse,    \* changes of the index by another writer
  MaxActs,    \* operator's acts
  MaxFaults   \* reads and saves that fail

VARIABLES
  saved,      \* the newest index on the relays
  issued,     \* capability grants on the relays
  revoked,    \* and those a revocation names
  inbox,      \* access requests on the relays
  mem,        \* the index in memory
  own, ext,   \* the delegations in memory: the index's, and the batches of public grants appended
  reqs,       \* pending requests in memory
  warn,       \* some of the inbox could not be opened
  dismissed,  \* requests dismissed on this device, oldest first
  view,       \* the tab, its filters and what is open on it
  screen,     \* what the page on screen was rendered with
  load,       \* each load: what it is waiting for
  op,         \* the save under way
  elses, acts, faults

relays == <<saved, issued, revoked, inbox>>
memory == <<mem, own, ext, reqs, warn>>
page == <<view, screen>>
vars == <<relays, memory, dismissed, page, load, op, elses, acts, faults>>

Range1(s) == {s[i] : i \in DOMAIN s}
Rows == own \cup UNION Range1(ext)

-----------------------------------------------------------------------------
\* What a page shows.

Kind(r) == GranteeKind(r.agent, mem.agents, Rows)
Facet(r, f) ==
  CASE f = "type" -> ScopeKind(r)
    [] f = "status" -> r.status
    [] f = "kind" -> IF Kind(r) = "agent" THEN "agent" ELSE "identity"
    [] f = "agent" -> r.agent
    [] f = "scope" -> r.scope

\* The rows that pass the filters: one of the chosen values of every facet chosen.
Listed(v) ==
  {r \in Rows : \A c \in v.filter : \E d \in v.filter : d[1] = c[1] /\ d[2] = Facet(r, c[1])}

\* A card is in a group; the groups of grantees are in a section for each kind.
GroupOf(v, r) == Facet(r, v.group)
Visible(v, r) == GroupOf(v, r) \in v.openGroups /\ (v.group = "agent" => Kind(r) \in v.openSupers)

CardKids(r) == IF r.external THEN {} ELSE ChildrenOf(mem, r.scope, Me)
LedgerPage(v) ==
  [rows |-> Listed(v), reqs |-> {}, focused |-> {r \in Listed(v) : <<r.scope, r.agent>> = v.focus},
   kids |-> UNION {CardKids(r) : r \in Listed(v)} \cup Homeless(mem, Rows), empty |-> FALSE,
   keys |-> IF v.group = "agent" THEN {r.agent : r \in {x \in Listed(v) : Kind(x) = "unregistered"}} ELSE {}]
\* An agent's page: the grants it holds, what Me derived to it.
AgentPage(v) ==
  [rows |-> {r \in Rows : r.agent = v.target}, reqs |-> {}, focused |-> {},
   kids |-> ChildrenTo(mem, v.target), empty |-> FALSE, keys |-> {}]
AgentsPage(v) ==
  [rows |-> {r \in Rows : r.agent \in mem.agents}, reqs |-> {}, focused |-> {}, kids |-> {}, empty |-> FALSE,
   keys |-> mem.agents]
\* The requests: an empty list says the relays answered, unless some wraps were not opened.
RequestsPage(v) ==
  [rows |-> {}, reqs |-> reqs, focused |-> {}, kids |-> {}, empty |-> reqs = {} /\ ~warn, keys |-> {}]

Page(v) ==
  CASE v.tab = "ledger" -> LedgerPage(v)
    [] v.tab = "agent" -> AgentPage(v)
    [] v.tab = "agents" -> AgentsPage(v)
    [] v.tab = "requests" -> RequestsPage(v)

\* Rendering the ledger consumes a pending focus, and opens the group of its card.
Opened(v) ==
  IF v.tab # "ledger" THEN v
  ELSE [v EXCEPT !.focus = None,
                 !.openGroups = @ \cup {GroupOf(v, r) : r \in {r \in Listed(v) : <<r.scope, r.agent>> = v.focus}}]
Render(v) ==
  /\ view' = Opened(v)
  /\ screen' = [tab |-> v.tab, filter |-> v.filter, lineage |-> mem.kids, page |-> Page(v)]

-----------------------------------------------------------------------------
Blank == [rows |-> {}, reqs |-> {}, focused |-> {}, kids |-> {}, empty |-> FALSE, keys |-> {}]
FirstView ==
  [tab |-> "none", target |-> None, filter |-> {}, group |-> "agent",
   openGroups |-> {}, openSupers |-> {"agents"}, focus |-> None]

\* Agents may be enrolled already, from another browser.
Init ==
  /\ saved \in {[NewIndex EXCEPT !.agents = A] : A \in SUBSET (People \ {Me})}
  /\ issued = {} /\ revoked = {} /\ inbox = {}
  /\ mem = NewIndex /\ own = {} /\ ext = <<>> /\ reqs = {} /\ warn = FALSE
  /\ dismissed = <<>>
  /\ view = FirstView
  /\ screen = [tab |-> "none", filter |-> {}, lineage |-> {}, page |-> Blank]
  /\ load = [l \in Loads |-> "off"]
  /\ op = None
  /\ elses = 0 /\ acts = 0 /\ faults = 0

Act == acts < MaxActs /\ acts' = acts + 1
Fault == faults < MaxFaults /\ faults' = faults + 1

-----------------------------------------------------------------------------
\* A load.  Its parts land in memory one after another, whatever else runs.

Start(l) == load[l] = "off" /\ load' = [load EXCEPT ![l] = "index"]
Refresh(l) ==
  /\ view.tab # "none" /\ Act /\ Start(l)
  /\ UNCHANGED <<relays, memory, dismissed, page, op, elses, faults>>

\* The index; a load that cannot read it ends, and nothing is repainted.
GotIndex(l) ==
  /\ load[l] = "index"
  /\ load' = [load EXCEPT ![l] = "inbox"]
  /\ mem' = saved
  /\ UNCHANGED <<relays, own, ext, reqs, warn, dismissed, page, op, elses, acts, faults>>
LoadFails(l) ==
  /\ load[l] \in {"index", "names"} /\ Fault
  /\ load' = [load EXCEPT ![l] = "off"]
  /\ UNCHANGED <<relays, memory, dismissed, page, op, elses, acts>>

Pending(rs) == rs \ Range1(dismissed)
GotInbox(l) ==
  /\ load[l] = "inbox"
  /\ load' = [load EXCEPT ![l] = "caps"]
  /\ \/ reqs' = Pending(inbox) /\ warn' = FALSE /\ UNCHANGED faults
     \/ Fault /\ reqs' = {} /\ warn' = FALSE
     \/ Fault /\ \E rs \in SUBSET inbox : rs # inbox /\ reqs' = Pending(rs) /\ warn' = TRUE
  /\ own' = Delegations(mem) /\ ext' = <<>>
  /\ UNCHANGED <<relays, mem, dismissed, page, op, elses, acts>>

\* The public grants are appended to whatever is in memory by then.
GotCaps(l) ==
  /\ load[l] = "caps"
  /\ load' = [load EXCEPT ![l] = "names"]
  /\ \/ Fault /\ UNCHANGED ext
     \/ UNCHANGED <<ext, faults>> /\ External(issued, revoked) = {}
     \/ /\ External(issued, revoked) # {} /\ UNCHANGED faults
        /\ ext' = Append(ext, External(issued, revoked))
  /\ UNCHANGED <<relays, mem, own, reqs, warn, dismissed, page, op, elses, acts>>

\* Only then is the page repainted.
GotNames(l) ==
  /\ load[l] = "names"
  /\ load' = [load EXCEPT ![l] = "off"]
  /\ Render(view)
  /\ UNCHANGED <<relays, memory, dismissed, op, elses, acts, faults>>

-----------------------------------------------------------------------------
\* The operator's clicks.

Stays == UNCHANGED <<relays, memory, dismissed, load, op, elses, faults>>

\* The first page, rendered before anything is loaded, is the address's; a load begins.
Login(l, t, p) ==
  /\ view.tab = "none" /\ Start(l)
  /\ Render([view EXCEPT !.tab = t, !.target = p])
  /\ UNCHANGED <<relays, memory, dismissed, op, elses, acts, faults>>

ShowTab(t) == view.tab \notin {"none", t} /\ Act /\ Render([view EXCEPT !.tab = t]) /\ Stays

OpenAgentPage(p) ==
  /\ view.tab = "agents" /\ p \in screen.page.keys /\ Act
  /\ Render([view EXCEPT !.tab = "agent", !.target = p]) /\ Stays

\* Mutant of Focused: the kinds chosen stay chosen.
FocusedKeepsKinds(v, r) ==
  [v EXCEPT !.tab = "ledger", !.filter = {c \in @ : c[1] = "kind"}, !.focus = <<r.scope, r.agent>>]
\* A chip of the roster or a row of the agent's page opens its grant in the ledger.
Focused(v, r) == [v EXCEPT !.tab = "ledger", !.filter = {}, !.focus = <<r.scope, r.agent>>]
OpenDelegationInLedger(r) ==
  /\ view.tab \in {"agents", "agent"} /\ r \in screen.page.rows /\ Act
  /\ Render(Focused(view, r)) /\ Stays

\* The ledger's rail: kinds of value are toggled, a grantee or a text replaces the last.
Single == {"agent", "scope"}
Toggled(F, c) ==
  IF c \in F THEN F \ {c} ELSE {d \in F : ~(c[1] \in Single /\ d[1] = c[1])} \cup {c}
Filter(c) ==
  /\ view.tab = "ledger" /\ Act
  /\ Render([view EXCEPT !.filter = Toggled(@, c)]) /\ Stays
Clear == view.tab = "ledger" /\ view.filter # {} /\ Act /\ Render([view EXCEPT !.filter = {}]) /\ Stays
GroupBy(g) == view.tab = "ledger" /\ view.group # g /\ Act /\ Render([view EXCEPT !.group = g]) /\ Stays

\* Opening and closing a group or a section is kept, and repaints nothing.
Flip(S, x) == IF x \in S THEN S \ {x} ELSE S \cup {x}
Unfold(r) ==
  /\ view.tab = "ledger" /\ r \in screen.page.rows /\ Act
  /\ \/ view' = [view EXCEPT !.openGroups = Flip(@, GroupOf(view, r))]
     \/ view.group = "agent" /\ view' = [view EXCEPT !.openSupers = Flip(@, Kind(r))]
  /\ UNCHANGED screen /\ Stays

-----------------------------------------------------------------------------
\* Requests, and the roster.  The index in memory is changed before it is saved.

Forget(s) == IF Len(s) > DismissCap THEN SubSeq(s, Len(s) - DismissCap + 1, Len(s)) ELSE s
Dismiss(r) == dismissed' = Forget(Append(dismissed, r)) /\ reqs' = reqs \ {r}

Deny(r) ==
  /\ view.tab = "requests" /\ r \in screen.page.reqs /\ Act
  /\ Dismiss(r)
  /\ view' = view
  /\ screen' = [screen EXCEPT !.page.reqs = reqs', !.page.empty = reqs' = {} /\ ~warn]
  /\ UNCHANGED <<relays, mem, own, ext, warn, load, op, elses, faults>>

Save(kind, r, x) == op = None /\ mem' = x /\ op' = [kind |-> kind, req |-> r, snap |-> x]

\* Approving enrols the key to be admitted; once saved, the request is dismissed
\* and the composer opens over the list as it was; a carried value that cannot
\* be decrypted leaves it.
Composed(r) ==
  \/ Dismiss(r) /\ UNCHANGED faults
  \/ Fault /\ UNCHANGED <<reqs, dismissed>>
Approve(r) ==
  /\ view.tab = "requests" /\ r \in screen.page.reqs /\ Act
  /\ \/ /\ CanEnrol(mem, Owner[r])
        /\ Save("approve", r, Enrolled(mem, Owner[r]))
        /\ UNCHANGED <<reqs, dismissed, faults>>
     \/ /\ ~CanEnrol(mem, Owner[r])
        /\ Composed(r) /\ UNCHANGED <<mem, op>>
  /\ UNCHANGED <<relays, own, ext, warn, page, load, elses>>

\* Adding a key by hand, or registering a grantee the ledger shows as unregistered.
Register(p) ==
  /\ view.tab = "agents" \/ (view.tab = "ledger" /\ p \in screen.page.keys)
  /\ CanEnrol(mem, p) /\ Act
  /\ Save("register", None, Enrolled(mem, p))
  /\ UNCHANGED <<relays, own, ext, reqs, warn, dismissed, page, load, elses, faults>>

\* Offered for an agent whose card shows nothing active.
Remove(p) ==
  /\ view.tab = "agents" /\ p \in screen.page.keys /\ Act
  /\ \A r \in screen.page.rows : r.agent = p => r.status # "active"
  /\ Save("remove", None, Removed(mem, p))
  /\ UNCHANGED <<relays, own, ext, reqs, warn, dismissed, page, load, elses, faults>>

Landed(l) ==
  /\ op # None /\ op' = None /\ saved' = op.snap
  /\ \/ op.kind = "approve" /\ Composed(op.req) /\ UNCHANGED load
     \/ op.kind # "approve" /\ Start(l) /\ UNCHANGED <<reqs, dismissed, faults>>
  /\ UNCHANGED <<issued, revoked, inbox, mem, own, ext, warn, page, elses, acts>>

\* A save that fails leaves the change in memory.
Failed ==
  /\ op # None /\ op' = None /\ Fault
  /\ UNCHANGED <<relays, memory, dismissed, page, load, elses, acts>>

-----------------------------------------------------------------------------
\* What others put on the relays, and other sessions of Me.

Else == elses < MaxElse /\ elses' = elses + 1
Still == UNCHANGED <<memory, dismissed, page, load, op, acts, faults>>

Ask(r) == r \notin inbox /\ Else /\ inbox' = inbox \cup {r} /\ UNCHANGED <<saved, issued, revoked>> /\ Still
Issue(c) == c \notin issued /\ Else /\ issued' = issued \cup {c} /\ UNCHANGED <<saved, revoked, inbox>> /\ Still
Retire(c) ==
  /\ c \in issued \ revoked /\ Else /\ revoked' = revoked \cup {c}
  /\ UNCHANGED <<saved, issued, inbox>> /\ Still

Grants(x, s, p, until) ==
  [x EXCEPT !.held[s] = @ \cup {p}, !.log = Logged(x, Event("granted", s, p, until))]
Ended(x, s, p, t) ==
  [x EXCEPT !.held[s] = @ \ {p}, !.log = Logged(x, Event(t, s, p, NoDeadline))]
Elsewhere ==
  /\ Else
  /\ \/ \E s \in Scopes, p \in People, until \in {NoDeadline, Now} : saved' = Grants(saved, s, p, until)
     \/ \E s \in Scopes : \E p \in saved.held[s], t \in {"revoked", "relinquished", "expired"} :
          saved' = Ended(saved, s, p, t)
     \/ \E k \in Kids \ saved.kids : saved' = [saved EXCEPT !.kids = @ \cup {k}]
  /\ UNCHANGED <<issued, revoked, inbox>> /\ Still

-----------------------------------------------------------------------------
Next ==
  \/ \E l \in Loads : \/ Refresh(l) \/ GotIndex(l) \/ LoadFails(l) \/ GotInbox(l) \/ GotCaps(l) \/ GotNames(l)
                      \/ Landed(l)
                      \/ \E t \in {"agents", "requests", "ledger"} : Login(l, t, None)
                      \/ \E p \in People : Login(l, "agent", p)
  \/ \E t \in {"agents", "requests", "ledger"} : ShowTab(t)
  \/ \E p \in People : OpenAgentPage(p) \/ Register(p) \/ Remove(p)
  \/ \E r \in screen.page.rows : OpenDelegationInLedger(r) \/ Unfold(r)
  \/ \E c \in Choices : Filter(c)
  \/ Clear
  \/ \E g \in Groupings : GroupBy(g)
  \/ \E r \in Requests : Deny(r) \/ Approve(r) \/ Ask(r)
  \/ \E c \in Caps : Issue(c) \/ Retire(c)
  \/ Failed
  \/ Elsewhere

Spec == Init /\ [][Next]_vars

-----------------------------------------------------------------------------
\* A delegation opened from the roster or from the agent's page is on the
\* ledger's page, whatever was chosen there before, as long as it is in memory.
FocusFindsTarget ==
  [][\A r \in screen.page.rows :
       OpenDelegationInLedger(r) /\ r \in Rows => r \in screen'.page.focused]_vars

=============================================================================
