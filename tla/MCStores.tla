------------------------------ MODULE MCStores ------------------------------
(***************************************************************************)
(* What is kept and told, one component at a time: the store of the hive    *)
(* memory with its losses and restores (HiveStore), the service before it   *)
(* (HiveService), the readings of held capabilities (Capabilities), the     *)
(* chat and draft tools (Mouth), the broker's post, profile and memory      *)
(* requests (Lanes) and the judging of arrivals by the keyed watcher        *)
(* (WakeWatch).                                                             *)
(***************************************************************************)
EXTENDS HiveStore, HiveService, Capabilities, Lanes, Mouth, WakeWatch

\* A claim, the claim that replaces it and is soon expired, a withdrawal.
first == [n |-> 1, writer |-> "w", d |-> "a", created |-> 1, status |-> "active", exp |-> 1]
second == [n |-> 2, writer |-> "w", d |-> "a", created |-> 2, status |-> "active", exp |-> 0]
withdrawal == [n |-> 3, writer |-> "w", d |-> "a", created |-> 2, status |-> "withdrawn", exp |-> 0]

StoreClaims == {first, second, withdrawal}
StoreImports == {first}

\* The service's configuration with two readers and two writers of one room; one
\* reader dropped; a file with a fault.
Config(readers, members) ==
  [readers |-> readers, owner |-> "p0", globals |-> {}, canons |-> {},
   writers |-> "wa" :> [pk |-> "pa", cap |-> 2] @@ "wb" :> [pk |-> "pb", cap |-> 2],
   rooms   |-> "r1" :> [members |-> members, writers |-> {"pa", "pb"}]]
twoReaders == "ra" :> "pa" @@ "rb" :> "pb"
both == Config(twoReaders, {"pa", "pb"})
noReader == Config("ra" :> "pa", {"pa", "pb"})
faulty == Config(twoReaders, {"pa"})
configs == {both, noReader, faulty}
room == {[type |-> "room", room |-> "r1"]}
bindings == [kind : {"reader"}, name : {"rb"}] \cup [kind : {"writer"}, name : {"wa", "wb"}]

\* The grant on one relay only, ended on the other, or never made.
policies == {[r \in {"r1", "r2"} |-> IF r = "r1" THEN {"grant"} ELSE s] : s \in {{}, {"end"}}}
               \cup {[r \in {"r1", "r2"} |-> {}]}
oneTrouble == [e \in {"keyed"} |-> 1]

VARIABLE unit  \* the component that runs; the others rest at their start

storeVars == vars

\* One component runs, the others stay as they start.
OnlyCaps == unit = "caps" /\ UNCHANGED <<unit, storeVars, serviceVars, mouthVars, laneVars, watchVars>>
OnlyStore == unit = "store" /\ UNCHANGED <<unit, capVars, serviceVars, mouthVars, laneVars, watchVars>>
OnlyService == unit = "service" /\ UNCHANGED <<unit, capVars, storeVars, mouthVars, laneVars, watchVars>>
OnlyMouth == unit = "mouth" /\ UNCHANGED <<unit, capVars, storeVars, serviceVars, laneVars, watchVars>>
OnlyLane == unit = "lane" /\ UNCHANGED <<unit, capVars, storeVars, serviceVars, mouthVars, watchVars>>
OnlyWatch == unit = "watch" /\ UNCHANGED <<unit, capVars, storeVars, serviceVars, mouthVars, laneVars>>

AllInit ==
  /\ unit \in {"caps", "store", "service", "mouth", "lane", "watch"}
  /\ Init
  /\ ServiceInit
  /\ CapsInit
  /\ MouthInit /\ (unit # "mouth" => ~remote /\ holders = {})
  /\ LaneInit /\ (unit # "lane" => lane = "post")
  /\ WatchInit /\ (unit # "watch" => policy = [r \in {"r1", "r2"} |-> {}])
AllNext ==
  \/ OnlyCaps /\ CapsNext
  \/ OnlyStore /\ Next
  \/ OnlyService /\ ServiceNext
  \/ OnlyMouth /\ MouthNext
  \/ OnlyLane /\ LaneNext
  \/ OnlyWatch /\ WatchNext
allVars == <<unit, capVars, storeVars, serviceVars, mouthVars, laneVars, watchVars>>
AllSpec == AllInit /\ [][AllNext]_allVars

=============================================================================
