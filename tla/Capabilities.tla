---------------------------- MODULE Capabilities ----------------------------
(***************************************************************************)
(* The cold read of the public capability grants that name an identity      *)
(* (capabilities.ts): every configured relay is asked for the grants, then  *)
(* for the revocations of those found, and the answer says what that        *)
(* coverage can prove.  Grants, revocations and relay outages go on while   *)
(* the read is under way.                                                   *)
(***************************************************************************)
EXTENDS Naturals, FiniteSets

CONSTANTS
  Answerers, \* the configured relays
  Grants,    \* capability grants that may be made
  Lapsing,   \* those with an expiry
  Limit,     \* events one answer may hold (MAX_EVENTS)
  MaxReads   \* bound on reads

CapabilityAssumption == Lapsing \subseteq Grants /\ IsFiniteSet(Answerers) /\ Answerers # {}
ASSUME CapabilityAssumption

VARIABLES
  held,     \* the grants each relay holds
  cut,      \* the grants each relay holds a revocation of
  lapsed,   \* the grants whose time is up
  read,     \* the read under way
  report,   \* its last report: each row's status, and whether it is verified
  before,   \* what relays held when the read began: grants and revocations
  reads     \* reads begun

capVars == <<held, cut, lapsed, read, report, before, reads>>

NoRead == [pc |-> "idle", asked |-> {}, answered |-> {}, grants |-> {}, whole |-> FALSE, revoked |-> {}]
NoReport == [made |-> FALSE, verified |-> FALSE, rows |-> {}]
Statuses == {"active", "expired", "revoked", "unverifiable"}

CapTypeOK ==
  /\ held \in [Answerers -> SUBSET Grants] /\ cut \in [Answerers -> SUBSET Grants]
  /\ lapsed \subseteq Lapsing /\ reads \in 0 .. MaxReads
  /\ read \in [pc : {"idle", "grants", "revocations"}, asked : SUBSET Answerers, answered : SUBSET Answerers,
               grants : SUBSET Grants, whole : BOOLEAN, revoked : SUBSET Grants]
  /\ report \in [made : BOOLEAN, verified : BOOLEAN, rows : SUBSET (Grants \X Statuses)]
  /\ before \in [grants : SUBSET Grants, cut : SUBSET Grants]

CapsInit ==
  /\ held = [r \in Answerers |-> {}] /\ cut = [r \in Answerers |-> {}] /\ lapsed = {}
  /\ read = NoRead /\ report = NoReport /\ before = [grants |-> {}, cut |-> {}] /\ reads = 0

AllOf(f) == UNION {f[r] : r \in Answerers}

-----------------------------------------------------------------------------
\* A grantor's event reaches some of the relays, and later perhaps the rest.
Grant(g, rs) ==
  /\ \E r \in rs : g \notin held[r]
  /\ held' = [r \in Answerers |-> IF r \in rs THEN held[r] \cup {g} ELSE held[r]]
  /\ UNCHANGED <<cut, lapsed, read, report, before, reads>>

Revoke(g, rs) ==
  /\ g \in AllOf(held) /\ \E r \in rs : g \notin cut[r]
  /\ cut' = [r \in Answerers |-> IF r \in rs THEN cut[r] \cup {g} ELSE cut[r]]
  /\ UNCHANGED <<held, lapsed, read, report, before, reads>>

Lapse(g) ==
  /\ g \in Lapsing \ lapsed /\ lapsed' = lapsed \cup {g}
  /\ UNCHANGED <<held, cut, read, report, before, reads>>

Begin ==
  /\ read.pc = "idle" /\ reads < MaxReads /\ reads' = reads + 1
  /\ read' = [NoRead EXCEPT !.pc = "grants"] /\ report' = NoReport
  /\ before' = [grants |-> AllOf(held), cut |-> AllOf(cut)]
  /\ UNCHANGED <<held, cut, lapsed>>

\* What a relay may answer of the events s: all of them, or as many as an
\* answer holds.
Truncated(s) == {t \in SUBSET s : t = s \/ (Cardinality(t) = Limit /\ Cardinality(s) > Limit)}

\* One relay ends its answer with EOSE, or its query fails.
Answer(r, ok) ==
  /\ read.pc # "idle" /\ r \notin read.asked
  /\ IF ~ok THEN read' = [read EXCEPT !.asked = @ \cup {r}]
     ELSE \E got \in Truncated(IF read.pc = "grants" THEN held[r] ELSE cut[r] \cap read.grants) :
            read' = [read EXCEPT !.asked = @ \cup {r}, !.answered = @ \cup {r},
                       !.grants = IF read.pc = "grants" THEN @ \cup got ELSE @,
                       !.revoked = IF read.pc = "grants" THEN @ ELSE @ \cup got]
  /\ UNCHANGED <<held, cut, lapsed, report, before, reads>>

\* Mutant of Whole: one relay that answered is coverage.
WholeIfAny(k) == k.answered # {}

Whole(k) == k.answered = Answerers

Status(g, k) ==
  IF g \in k.revoked THEN "revoked"
  ELSE IF ~k.whole \/ ~Whole(k) THEN "unverifiable"
  ELSE IF g \in lapsed THEN "expired" ELSE "active"

\* With every relay asked for grants: a report when none was found, else the
\* second query.
Found ==
  /\ read.pc = "grants" /\ read.asked = Answerers
  /\ IF read.grants = {}
       THEN /\ report' = [made |-> TRUE, verified |-> Whole(read), rows |-> {}]
            /\ read' = NoRead
       ELSE /\ read' = [read EXCEPT !.pc = "revocations", !.asked = {}, !.answered = {},
                                   !.whole = Whole(read)]
            /\ UNCHANGED report
  /\ UNCHANGED <<held, cut, lapsed, before, reads>>

Report ==
  /\ read.pc = "revocations" /\ read.asked = Answerers
  /\ report' = [made |-> TRUE, verified |-> read.whole /\ Whole(read),
                rows |-> {<<g, Status(g, read)>> : g \in read.grants}]
  /\ read' = NoRead
  /\ UNCHANGED <<held, cut, lapsed, before, reads>>

CapsNext ==
  \/ \E g \in Grants, rs \in SUBSET Answerers : Grant(g, rs) \/ Revoke(g, rs)
  \/ \E g \in Grants : Lapse(g)
  \/ \E r \in Answerers, ok \in BOOLEAN : Answer(r, ok)
  \/ Begin \/ Found \/ Report

CapsSpec == CapsInit /\ [][CapsNext]_capVars

-----------------------------------------------------------------------------
\* A row says "active" only of a grant no configured relay held a revocation
\* of when the read began, whichever relays failed and whatever arrived in
\* between (readHeldCapabilities).
ActiveWasTrue == \A g \in Grants : <<g, "active">> \in report.rows => g \notin before.cut

=============================================================================
