------------------------------- MODULE MCHost -------------------------------
(***************************************************************************)
(* What runs on the host and never stops, one at a time: the ears on the    *)
(* relays (WakeWatch), the page over the hive memory (Viewer), the          *)
(* onboarding of two agents beside a release runner that works (Onboard)    *)
(* and the release runner under edits, bad releases, failing commands and   *)
(* killed ticks (DeployRunner).                                             *)
(***************************************************************************)
EXTENDS WakeWatch, Onboard, TLC

CONSTANTS
  e1, e2, r1, r2

\* No relay holds a policy: nothing is judged by the keyless ears.
NoPolicy == {[r \in Relays |-> {}]}
TwoTroubles == [e \in Ears |-> 2]

\* Each new agent's key, one of them a manifest whose deploy fails.
oneBad == "n1" :> {"k1"} @@ "n2" :> {"k2"}
contents == [blk : 1 .. 4, key : {"k0", "k1", "k2"}]
badContents == {c \in contents : c.key = "k2"}

VARIABLES
  unit,  \* the component that runs; the others rest at their start
  hive, sock, oldClose, waiting, asked, answers, poll, shown, logged, watch, faults,
  rMan, rFile, rStack, rRel, rDep, rRec, rFailed, rLock, rCheckout, rTick, rUsed,
  rAlarmed, rSpent

View == INSTANCE Viewer WITH
  Polls <- {"p1", "p2"}, Page <- 1, MaxWrites <- 2, MaxFaults <- 1
Releases == INSTANCE DeployRunner WITH
  Ids <- {"i1", "i2"}, Installed <- {"i1"}, Contents <- {"a", "b", "bad"},
  Bad <- {"bad"}, NoMan <- "none", MaxRel <- 2, MaxEdits <- 1, Reverts <- FALSE,
  MaxFaults <- 1, MaxKills <- 1, man <- rMan, file <- rFile, stack <- rStack,
  rel <- rRel, dep <- rDep, rec <- rRec, failed <- rFailed, lock <- rLock,
  checkout <- rCheckout, tick <- rTick, used <- rUsed, alarmed <- rAlarmed,
  spent <- rSpent

viewerVars ==
  <<hive, sock, oldClose, waiting, asked, answers, poll, shown, logged, watch, faults>>
releaseVars ==
  <<rMan, rFile, rStack, rRel, rDep, rRec, rFailed, rLock, rCheckout, rTick, rUsed,
  rAlarmed, rSpent>>

\* One component runs, the others stay as they start.
OnlyWatch == unit = "watch" /\ UNCHANGED <<unit, viewerVars, setupVars, releaseVars>>
OnlyViewer == unit = "viewer" /\ UNCHANGED <<unit, watchVars, setupVars, releaseVars>>
OnlySetup == unit = "setup" /\ UNCHANGED <<unit, watchVars, viewerVars, releaseVars>>
OnlyRelease == unit = "release" /\ UNCHANGED <<unit, watchVars, viewerVars, setupVars>>

AllInit ==
  /\ unit \in {"watch", "viewer", "setup", "release"}
  /\ WatchInit /\ (unit # "watch" => ear = "buzz")
  /\ View!Init
  /\ SetupInit([blk |-> 1, key |-> "k0"])
  /\ Releases!RunnerInit("a")
AllNext ==
  \/ OnlyWatch /\ WatchNext
  \/ OnlyViewer /\ View!Next
  \/ OnlySetup /\ SetupNext
  \/ OnlyRelease /\ Releases!RunnerNext
allVars == <<unit, watchVars, viewerVars, setupVars, releaseVars>>

\* The fairness of each component's own specification.
AllFairness ==
  /\ WF_allVars(OnlyWatch /\ StartEar) /\ WF_allVars(OnlyWatch /\ EarTick)
  /\ WF_allVars(OnlyWatch /\ Wake) /\ WF_allVars(OnlyWatch /\ CooldownEnds)
  /\ \A r \in Relays : /\ WF_allVars(OnlyWatch /\ Socket(r)) /\ WF_allVars(OnlyWatch /\ HearPolicy(r))
                       /\ WF_allVars(OnlyWatch /\ EndOfStored(r))
                       /\ \A e \in Events : WF_allVars(OnlyWatch /\ Hear(r, e))
  /\ WF_allVars(OnlyViewer /\ \E p \in {"p1", "p2"} : View!Begin(p))
  /\ WF_allVars(/\ OnlyViewer
                   /\ \/ View!Refused \/ View!Connected \/ View!Greeted
                      \/ View!OldClose \/ View!Serve \/ View!Deliver)
  /\ WF_allVars(OnlySetup /\ RunnerStep /\ Runner) /\ WF_allVars(OnlySetup /\ RunnerStep /\ RetryDue)
  /\ \A i \in {"n1", "n2"} : WF_allVars(OnlySetup /\ SetupStep(i))
  /\ WF_allVars(OnlyRelease /\ Releases!Runner) /\ WF_allVars(OnlyRelease /\ Releases!RetryDue)
AllSpec == AllInit /\ [][AllNext]_allVars /\ AllFairness

-----------------------------------------------------------------------------
\* With the daemon up for good the page comes to show every claim in force
\* (ensureConnected, pollOnce).
ViewCatchesUp == unit = "viewer" => View!ViewCatchesUp

\* Edits and releases reach the stacks (runtime-deploy-runner.py, main).
EstateSettles == Releases!EstateConverges
=============================================================================
