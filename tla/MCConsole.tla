----------------------------- MODULE MCConsole ------------------------------
(***************************************************************************)
(* The delegator's two write paths and the console's pages, one at a time:  *)
(* the rotations of Delegator under faults and crashes, the derived grants  *)
(* of Derivation under faults and restarts, and a browser tab of            *)
(* ConsoleView.                                                             *)
(***************************************************************************)
EXTENDS Delegator, Derivation, TLC

VARIABLES
  unit,  \* the component that runs; the others rest at their start
  saved, issued, revoked, inbox, vMem, own, ext, reqs, warn, dismissed, view, screen,
  load, op, elses, acts, faults

View == INSTANCE ConsoleView WITH
  People <- {"me", "a"}, Me <- "me", Upstream <- "up", Scopes <- {"s1"},
  Namespace <- [s \in {"s1"} |-> "data"], Caps <- {"c1"},
  CapOf <- [c \in {"c1"} |-> [agent |-> "a", cap |-> "admit"]], LedgerCap <- 3,
  Now <- 1, Requests <- {"r1"}, Owner <- [r \in {"r1"} |-> "a"],
  Choices <- {<<"kind", "identity">>, <<"agent", "me">>},
  Groupings <- {"agent", "status"}, Loads <- {1}, DismissCap <- 2, MaxElse <- 2,
  MaxActs <- 3, MaxFaults <- 1, mem <- vMem

delegatorVars == vars
viewVars ==
  <<saved, issued, revoked, inbox, vMem, own, ext, reqs, warn, dismissed, view, screen,
  load, op, elses, acts, faults>>

\* One component runs, the others stay as they start.
OnlyDelegator == unit = "delegator" /\ UNCHANGED <<unit, derivedVars, viewVars>>
OnlyDerived == unit = "derived" /\ UNCHANGED <<unit, delegatorVars, viewVars>>
OnlyView == unit = "view" /\ UNCHANGED <<unit, delegatorVars, derivedVars>>

AllInit ==
  /\ unit \in {"delegator", "derived", "view"}
  /\ Init
  /\ DeriveInit
  /\ View!Init /\ (unit # "view" => saved = View!NewIndex)
AllNext ==
  \/ OnlyDelegator /\ Next
  \/ OnlyDerived /\ DeriveNext
  \/ OnlyView /\ View!Next
allVars == <<unit, delegatorVars, derivedVars, viewVars>>
AllSpec == AllInit /\ [][AllNext]_allVars

Symmetry == Permutations(Agents)

-----------------------------------------------------------------------------
\* A delegation opened from another page is found in the ledger (ledger.mjs).
FocusFindsTarget == View!FocusFindsTarget
=============================================================================
