------------------------------ MODULE Onboard -------------------------------
(***************************************************************************)
(* Setting up a new agent on the box.  The owner signs a request;           *)
(* nvoy-onboard runs its steps, each a tool of its own: stage a manifest    *)
(* with a uid/gid block no one has had (identity_allocation.mjs), pair it   *)
(* with the owner's Bunker (instance-pair.mjs), check it, and apply it      *)
(* (instance_apply.mjs): reserve the block, install the manifest, which     *)
(* starts a deploy, wait for the runner's record and seat the channel key.  *)
(***************************************************************************)
EXTENDS DeployRunner

CONSTANTS
  New,       \* the agents to set up
  KeysOf,    \* the keys the owner may name for each new agent
  MaxSigned, \* requests the owner signs for one agent
  MaxWaits,  \* applies that time out or die
  NoKey

ASSUME NewAssumption == New \subseteq Ids

VARIABLES
  request, \* the owner's newest signed request for each new agent
  staged,  \* staged manifest and the request it was staged for
  cred,    \* the key the seated Bunker credentials sign as
  ledger,  \* identity-blocks.jsonl
  ledLock, \* the record's lock: the agent whose apply holds it
  app,     \* each agent's apply
  seats,   \* agents whose channel principal is seated
  receipt, \* what the last onboard run reported of "started"
  ran,     \* history: the agents and blocks whose stacks have started
  waits

onVars == <<request, staged, cred, ledger, ledLock, app, seats, receipt, ran, waits>>
setupVars == <<runVars, onVars>>

NoRequest == [n |-> 0, key |-> NoKey]
NoStage == [man |-> NoMan, n |-> 0]
NotApplying == [pc |-> "idle"]

SetupInit(content) ==
  /\ RunnerInit(content)
  /\ request = [i \in New |-> NoRequest] /\ staged = [i \in New |-> NoStage] /\ cred = [i \in New |-> NoKey]
  /\ ledger = {} /\ ledLock = {} /\ app = [i \in New |-> NotApplying] /\ seats = {}
  /\ receipt = [i \in New |-> "none"] /\ ran = {<<i, content.blk>> : i \in Installed} /\ waits = 0

IsInstalled(i) == man[i] # NoMan

\* The stacks that started are remembered with the blocks they ran as.
RunnerStep ==
  /\ RunnerNext
  /\ ran' = ran \cup {<<i, stack'[i].man.blk>> : i \in {j \in Ids : stack'[j].man # NoMan}}
  /\ app' = [i \in New |-> IF app[i].pc = "wait" /\ failed' # failed /\ ~failed'.due
                             THEN [app[i] EXCEPT !.fresh = TRUE] ELSE app[i]]
  /\ UNCHANGED <<request, staged, cred, ledger, ledLock, seats, receipt, waits>>

-----------------------------------------------------------------------------
\* The owner signs the request, or signs it again; the key is the request's.
\* A request for an agent installed under another key is refused.
Sign(i) ==
  /\ request[i].n < MaxSigned
  /\ \E k \in KeysOf[i] :
       /\ \A j \in Ids : man[j] # NoMan => (man[j].key = k <=> j = i)
       /\ request' = [request EXCEPT ![i] = [n |-> @.n + 1, key |-> k]]
  /\ receipt' = [receipt EXCEPT ![i] = "none"]
  /\ UNCHANGED <<runVars, staged, cred, ledger, ledLock, app, seats, ran, waits>>

Taken == {man[i].blk : i \in {j \in Ids : man[j] # NoMan}} \cup {e[2] : e \in ledger}
\* The first block above the highest ever used: never a gap.
NextBlock == 1 + CHOOSE b \in Taken \cup {0} : \A c \in Taken : c <= b

\* What is staged: the block allocated now, the key of the request.
Built(i) == [blk |-> NextBlock, key |-> request[i].key]

\* Step "staged": a manifest staged for an earlier request is set aside.
Stage1(i) ==
  /\ request[i].n > 0 /\ ~IsInstalled(i) /\ app[i] = NotApplying
  /\ staged[i].n # request[i].n
  /\ Built(i) \in Contents /\ staged' = [staged EXCEPT ![i] = [man |-> Built(i), n |-> request[i].n]]
  /\ UNCHANGED <<runVars, request, cred, ledger, ledLock, app, seats, receipt, ran, waits>>

\* Step "paired": files already seated are taken for a pairing; otherwise the
\* Bunker must answer as the staged key.
Pair(i) ==
  /\ staged[i].n = request[i].n /\ request[i].n > 0 /\ ~IsInstalled(i) /\ cred[i] = NoKey
  /\ cred' = [cred EXCEPT ![i] = staged[i].man.key]
  /\ UNCHANGED <<runVars, request, staged, ledger, ledLock, app, seats, receipt, ran, waits>>

\* The check: the staged manifest shares no block and no key with an installed
\* one, no block with another agent's record, and its credentials are seated.
BlockClear(i) == \A j \in Ids \ {i} : man[j] # NoMan => man[j].blk # staged[i].man.blk
KeyClear(i) == \A j \in Ids \ {i} : man[j] # NoMan => man[j].key # staged[i].man.key
RecordClear(i) == \A e \in ledger : e[2] = staged[i].man.blk => e[1] = i
Checked(i) == ~IsInstalled(i) /\ BlockClear(i) /\ KeyClear(i) /\ RecordClear(i) /\ cred[i] # NoKey

\* Steps "checked" and "started".  What was refused is tried again with a new
\* request (a bound: the operator may try the same one for ever).
Apply(i) ==
  /\ app[i] = NotApplying /\ staged[i].n = request[i].n /\ request[i].n > 0
  /\ Checked(i) /\ receipt[i] # "refused"
  /\ app' = [app EXCEPT ![i] = [pc |-> "reserve"]]
  /\ UNCHANGED <<runVars, request, staged, cred, ledger, ledLock, seats, receipt, ran, waits>>

Refused(i) == app' = [app EXCEPT ![i] = NotApplying] /\ receipt' = [receipt EXCEPT ![i] = "refused"]

\* reserveBlock takes the record's lock, or refuses while another holds it.
TakeLedger(i) ==
  /\ app[i].pc = "reserve"
  /\ IF ledLock = {}
       THEN ledLock' = {i} /\ app' = [app EXCEPT ![i] = [pc |-> "record"]] /\ UNCHANGED receipt
       ELSE Refused(i) /\ UNCHANGED ledLock
  /\ UNCHANGED <<runVars, request, staged, cred, ledger, seats, ran, waits>>

\* Mutant of Reserve: the block that was clear at the check is appended.
ReserveChecked(i) ==
  /\ app[i].pc = "record" /\ ledLock' = {}
  /\ ledger' = ledger \cup {<<i, staged[i].man.blk>>} /\ app' = [app EXCEPT ![i] = [pc |-> "install"]]
  /\ UNCHANGED <<runVars, request, staged, cred, seats, receipt, ran, waits>>

\* The record is read again under the lock, refuses a clash or is appended to.
Reserve(i) ==
  /\ app[i].pc = "record" /\ ledLock' = {}
  /\ IF ~RecordClear(i)
       THEN Refused(i) /\ UNCHANGED ledger
       ELSE /\ ledger' = ledger \cup {<<i, staged[i].man.blk>>}
            /\ app' = [app EXCEPT ![i] = [pc |-> "install"]] /\ UNCHANGED receipt
  /\ UNCHANGED <<runVars, request, staged, cred, seats, ran, waits>>

\* A no-clobber link into the manifest root: the deploy's trigger.
Install(i) ==
  /\ app[i].pc = "install"
  /\ IF IsInstalled(i)
       THEN Refused(i) /\ UNCHANGED man
       ELSE /\ man' = [man EXCEPT ![i] = staged[i].man]
            /\ app' = [app EXCEPT ![i] = [pc |-> "wait", estate |-> man', fresh |-> FALSE]]
            /\ UNCHANGED receipt
  /\ UNCHANGED <<file, stack, rel, dep, rec, failed, lock, checkout, tick, used, alarmed, spent,
                 request, staged, cred, ledger, ledLock, seats, ran, waits>>

\* deployVerdict: the runner recorded this manifest, or an attempt at this very
\* estate failed since the install.
Deployed(i) == rec[i] = staged[i].man /\ file[i] # 0
FailedHere(i) == app[i].fresh /\ failed.attempt # <<>> /\ failed.attempt[2] = app[i].estate

Verdict(i) ==
  /\ app[i].pc = "wait"
  /\ \/ Deployed(i) /\ app' = [app EXCEPT ![i] = [pc |-> "seat"]] /\ UNCHANGED <<man, receipt>>
     \/ /\ ~Deployed(i) /\ FailedHere(i) /\ Refused(i)
        /\ man' = [man EXCEPT ![i] = IF @ = staged[i].man THEN NoMan ELSE @]
  /\ UNCHANGED <<file, stack, rel, dep, rec, failed, lock, checkout, tick, used, alarmed, spent,
                 request, staged, cred, ledger, ledLock, seats, ran, waits>>

\* No verdict in time, or the process ends: what was installed stays.
TimeOut(i) ==
  /\ app[i].pc = "wait" /\ waits < MaxWaits /\ waits' = waits + 1
  /\ app' = [app EXCEPT ![i] = NotApplying] /\ receipt' = [receipt EXCEPT ![i] = "pending"]
  /\ UNCHANGED <<runVars, request, staged, cred, ledger, ledLock, seats, ran>>

Seat(i) ==
  /\ app[i].pc = "seat" /\ seats' = seats \cup {i}
  /\ app' = [app EXCEPT ![i] = NotApplying] /\ receipt' = [receipt EXCEPT ![i] = "done"]
  /\ UNCHANGED <<runVars, request, staged, cred, ledger, ledLock, ran, waits>>

\* Onboarding run again: an agent whose manifest is installed has started.
RunAgain(i) ==
  /\ app[i] = NotApplying /\ IsInstalled(i) /\ receipt[i] # "done"
  /\ receipt' = [receipt EXCEPT ![i] = "done"]
  /\ UNCHANGED <<runVars, request, staged, cred, ledger, ledLock, app, seats, ran, waits>>

SetupStep(i) == Stage1(i) \/ Pair(i) \/ Apply(i) \/ TakeLedger(i) \/ Reserve(i) \/ Install(i)
  \/ Verdict(i) \/ Seat(i) \/ RunAgain(i)
SetupNext == RunnerStep \/ \E i \in New : Sign(i) \/ SetupStep(i) \/ TimeOut(i)

\* The operator runs onboarding again until it is done; the runner ticks.
SetupFairness ==
  /\ WF_setupVars(RunnerStep /\ Runner) /\ WF_setupVars(RunnerStep /\ RetryDue)
  /\ \A i \in New : WF_setupVars(SetupStep(i))

-----------------------------------------------------------------------------
\* "One decade per identity": no two agents' stacks have ever run as the same
\* block, though both may be staged with it (allocateIdentityBlock, reserveBlock).
OwnBlock == \A e, f \in ran : e[2] = f[2] => e[1] = f[1]

=============================================================================
