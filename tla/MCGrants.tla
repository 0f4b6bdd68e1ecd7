------------------------------ MODULE MCGrants ------------------------------
(***************************************************************************)
(* What comes of grants, one component at a time: subscriptions to a        *)
(* granted scope (ScopeSubscription), the sweeps of one console             *)
(* (Delegator), the derived grants of one call after another (Derivation),  *)
(* and the fold of grants that makes a message a task (GrantFold).          *)
(***************************************************************************)
EXTENDS Delegator, ScopeSubscription, GrantFold

\* Two grantors, a voice of either, one of itself, a voice of a voice, a carrier.
issues ==
  {[by |-> "h", to |-> "g", cap |-> "task"], [by |-> "g", to |-> "h", cap |-> "shadow"],
   [by |-> "h", to |-> "h", cap |-> "shadow"], [by |-> "h", to |-> "v", cap |-> "shadow"],
   [by |-> "g", to |-> "v", cap |-> "task-relay"]}

VARIABLES
  unit,  \* the component that runs; the others rest at their start
  rotated, dead, gen, holder, dTold, kin, dIndex, outbox, call, restarts

Derived == INSTANCE Derivation WITH
  Parents <- {"p"}, Children <- {"x1", "x2", "x3"}, Leaves <- {"l1"}, Self <- "self",
  Delegators <- {"d1"}, OutScopes <- {"o1"}, None <- "none", Calls <- {"k1"},
  Tools <- {"derive", "read", "write"}, MaxChildren <- 2, MaxGrantees <- 1,
  RelayFaults <- {}, MaxRestarts <- 0, notified <- dTold, lineage <- dIndex

consoleVars == vars
derivedVars == <<rotated, dead, gen, holder, dTold, kin, dIndex, outbox, call, restarts>>

\* One component runs, the others stay as they start.
OnlyScope == unit = "scope" /\ UNCHANGED <<unit, consoleVars, derivedVars, foldVars>>
OnlyConsole == unit = "console" /\ UNCHANGED <<unit, subVars, derivedVars, foldVars>>
OnlyDerived == unit = "derived" /\ UNCHANGED <<unit, subVars, consoleVars, foldVars>>
OnlyFold == unit = "fold" /\ UNCHANGED <<unit, subVars, consoleVars, derivedVars>>

AllInit ==
  /\ unit \in {"scope", "console", "derived", "fold"}
  /\ SubInit
  /\ Init
  /\ Derived!DeriveInit
  /\ FoldInit
AllNext ==
  \/ OnlyScope /\ SubNext
  \/ OnlyConsole /\ Next
  \/ OnlyDerived /\ Derived!DeriveNext
  \/ OnlyFold /\ FoldNext
allVars == <<unit, subVars, consoleVars, derivedVars, foldVars>>

\* The fairness of each component's own specification.
AllFairness ==
  /\ WF_allVars(OnlyScope /\ Expire) /\ WF_allVars(OnlyScope /\ Sweep)
  /\ \A k \in Ticks : WF_allVars(OnlyScope /\ TickStep(k))
  /\ \A k \in Ticks, t \in Timers : SF_allVars(OnlyScope /\ Fire(k, t))
  /\ \A k \in Ticks : SF_allVars(OnlyScope /\ TickAnswered(k) /\ ticks'[k].n = latest)
  /\ WF_allVars(OnlyConsole /\ Sweeping("w1"))
  /\ WF_allVars(OnlyConsole /\ Working("w1"))
  /\ WF_allVars(OnlyDerived /\ Derived!CallStep("k1"))
AllSpec == AllInit /\ [][AllNext]_allVars /\ AllFairness

-----------------------------------------------------------------------------
\* A revocation the runtime noticed reaches every leaf under the parent.
CascadeCompletes == Derived!CascadeCompletes
=============================================================================
