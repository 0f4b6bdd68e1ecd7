----------------------------- MODULE MCHarness ------------------------------
(***************************************************************************)
(* The seats a coding agent is woken in, one at a time: a session with the  *)
(* channel (ChannelSeat), the HTTPS door before it (ChannelDoor), a Codex   *)
(* thread fed over the network (CodexFeed), the desk's own thread           *)
(* (DesktopTurn), the fleet's Codex thread (FleetThread), a harness woken by *)
(* webhook (WebhookNotifier), and the pane that a session is launched in    *)
(* and stopped (PaneSession).                                               *)
(***************************************************************************)
EXTENDS DesktopTurn, ChannelDoor, PaneSession

VARIABLES
  unit,  \* the component that runs; the others rest at their start
  sQueue, readLog, replies, chan, lock, client, sFaults, fQueue, feed, fChan, disk, sup,
  srv, askable, fFaults, persons, injected, doubtful, passed, hQueue, hReadLog, state,
  hMem, kills, rounds, excused, admitted, fDisk, fSup, codex, threads, rollouts, tFaults,
  given, fPassed

two == {"e1", "e2"}
Seat == INSTANCE ChannelSeat WITH
  Envelopes <- two, Chans <- {"k1", "k2"}, NoChan <- "none", Misses <- 2, MaxFaults <- 2,
  queue <- sQueue, faults <- sFaults
Feed == INSTANCE CodexFeed WITH
  Envelopes <- two, Nothing <- "nothing", Start <- "start", Person <- "person",
  MaxFaults <- 1, MaxPersons <- 1, queue <- fQueue, chan <- fChan, faults <- fFaults
Hook == INSTANCE WebhookNotifier WITH
  Envelopes <- two, NoState <- "none", Empty <- "empty", Attempts <- 2, RenotifyMax <- 1,
  MaxWatch <- 1, MaxKills <- 1, queue <- hQueue, readLog <- hReadLog, mem <- hMem
Fleet == INSTANCE FleetThread WITH
  MaxAdmitted <- 2, MaxFaults <- 2, disk <- fDisk, sup <- fSup, faults <- tFaults,
  passed <- fPassed

seatVars == <<sQueue, readLog, replies, chan, lock, client, sFaults>>
feedVars ==
  <<fQueue, feed, fChan, disk, sup, srv, askable, fFaults, persons, injected, doubtful,
  passed>>
hookVars == <<hQueue, hReadLog, state, hMem, kills, rounds, excused>>
fleetVars ==
  <<admitted, fDisk, fSup, codex, threads, rollouts, tFaults, given, fPassed>>

\* One component runs, the others stay as they start.
OnlySeat ==
  /\ unit = "seat"
  /\ UNCHANGED <<unit, doorVars, feedVars, turnVars, hookVars, paneVars, fleetVars>>
OnlyDoor ==
  /\ unit = "door"
  /\ UNCHANGED <<unit, seatVars, feedVars, turnVars, hookVars, paneVars, fleetVars>>
OnlyFeed ==
  /\ unit = "feed"
  /\ UNCHANGED <<unit, seatVars, doorVars, turnVars, hookVars, paneVars, fleetVars>>
OnlyDesk ==
  /\ unit = "desk"
  /\ UNCHANGED <<unit, seatVars, doorVars, feedVars, hookVars, paneVars, fleetVars>>
OnlyHook ==
  /\ unit = "hook"
  /\ UNCHANGED <<unit, seatVars, doorVars, feedVars, turnVars, paneVars, fleetVars>>
OnlyPane ==
  /\ unit = "pane"
  /\ UNCHANGED <<unit, seatVars, doorVars, feedVars, turnVars, hookVars, fleetVars>>
OnlyFleet ==
  /\ unit = "fleet"
  /\ UNCHANGED <<unit, seatVars, doorVars, feedVars, turnVars, hookVars, paneVars>>

AllInit ==
  /\ unit \in {"seat", "door", "feed", "desk", "hook", "pane", "fleet"}
  /\ Seat!Init
  /\ Init /\ (unit # "pane" => user = "keeper")
  /\ DoorInit
  /\ Feed!Init /\ (unit # "feed" => askable)
  /\ DeskInit /\ (unit # "desk" => ~spawned)
  /\ Hook!Init
  /\ Fleet!Init
AllNext ==
  \/ OnlySeat /\ Seat!Next
  \/ OnlyDoor /\ DoorNext
  \/ OnlyFeed /\ Feed!Next
  \/ OnlyDesk /\ DeskNext
  \/ OnlyHook /\ Hook!Next
  \/ OnlyPane /\ Next
  \/ OnlyFleet /\ Fleet!Next
allVars == <<unit, seatVars, doorVars, feedVars, turnVars, hookVars, paneVars, fleetVars>>

\* The fairness of each component's own specification.
AllFairness ==
  /\ WF_allVars(OnlySeat /\ Seat!Client)
  /\ \A k \in {"k1", "k2"} :
       /\ WF_allVars(OnlySeat /\ Seat!Poll(k)) /\ WF_allVars(OnlySeat /\ Seat!Interval(k))
       /\ WF_allVars(OnlySeat /\ Seat!Heartbeat(k)) /\ WF_allVars(OnlySeat /\ Seat!Handshake(k))
  /\ \A e \in two : WF_allVars(OnlySeat /\ Seat!Read(e))
  /\ WF_allVars(OnlyFeed /\ Feed!Connect) /\ WF_allVars(OnlyFeed /\ Feed!Poll) /\ WF_allVars(OnlyFeed /\ Feed!Expire)
  /\ WF_allVars(OnlyFeed /\ Feed!Server) /\ WF_allVars(OnlyFeed /\ Feed!Supervisor)
  /\ WF_allVars(OnlyDesk /\ Adapter) /\ WF_allVars(OnlyDesk /\ Agent)
  /\ WF_allVars(OnlyHook /\ Hook!Notifier) /\ WF_allVars(OnlyHook /\ Hook!Tick)
  /\ WF_allVars(OnlyPane /\ Program) /\ WF_allVars(OnlyPane /\ Shell)
  /\ WF_allVars(OnlyFleet /\ Fleet!Supervisor) /\ WF_allVars(OnlyFleet /\ Fleet!Codex)
AllSpec == AllInit /\ [][AllNext]_allVars /\ AllFairness

-----------------------------------------------------------------------------
\* Every admitted envelope is read: the message is lost, the client sleeps, or its
\* channel dies, and it comes again (channel.mjs).
EveryEnvelopeRead == Seat!EveryEnvelopeRead


\* Every admitted envelope is posted, and posted again until it is read, whatever
\* kills the notifier between a POST and its cursor (admitted-webhook-notify).
EveryAdmittedPosted == Hook!EveryAdmittedPosted
=============================================================================
