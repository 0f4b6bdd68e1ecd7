--------------------------- MODULE Onboard_proofs ----------------------------
(***************************************************************************)
(* That no two agents ever run as one block, for every number of agents,    *)
(* requests and applies, when nobody writes a manifest by hand: what is     *)
(* installed and what runs has a claim on its block, from the start or in   *)
(* the record, and the record gives a block to one agent only.              *)
(***************************************************************************)
EXTENDS Onboard, TLAPS

\* Who may run as which block: the agents installed at the start, and the record.
Claims(content) == ledger \cup {<<i, content.blk>> : i \in Installed}

Shapes ==
  /\ DOMAIN man = Ids /\ DOMAIN stack = Ids /\ DOMAIN staged = New /\ DOMAIN app = New
  /\ \A i \in New : "pc" \in DOMAIN app[i]
  /\ spent = [edits |-> 0, faults |-> spent.faults, kills |-> spent.kills]

\* What was installed at the start stays.
Rooted(content) == \A i \in Installed : man[i] = content

\* Manifests, stacks and what ever ran have a claim.
Claimed(content) ==
  /\ \A i \in Ids : man[i] # NoMan => <<i, man[i].blk>> \in Claims(content)
  /\ \A i \in Ids : stack[i].man # NoMan => <<i, stack[i].man.blk>> \in Claims(content)
  /\ ran \subseteq Claims(content)

\* One agent for each block of the record, and none of those of the start.
OneEach(content) ==
  /\ \A e, f \in ledger : e[2] = f[2] => e[1] = f[1]
  /\ \A e \in ledger : Installed # {} => e[2] # content.blk

\* An apply under way is of a new agent, whose staged block was clear of those of
\* the start, and, from the installation on, is in the record.
Applying(content) ==
  \A i \in New : app[i].pc # "idle" =>
    /\ i \notin Installed
    /\ Installed # {} => staged[i].man.blk # content.blk
    /\ app[i].pc \notin {"reserve", "record"} => <<i, staged[i].man.blk>> \in ledger

Invariant(content) ==
  Shapes /\ Rooted(content) /\ Claimed(content) /\ OneEach(content) /\ Applying(content)

-----------------------------------------------------------------------------
LEMMA InvariantInit ==
  ASSUME NEW content \in Contents, SetupInit(content)
  PROVE  Invariant(content)
<1>1. Shapes
  BY DEF SetupInit, RunnerInit, Shapes, NotApplying
<1>2. Rooted(content)
  BY EstateAssumption DEF SetupInit, RunnerInit, Rooted
<1>3. Claimed(content)
  BY EstateAssumption DEF SetupInit, RunnerInit, Claimed, Claims, Down
<1>4. OneEach(content) /\ Applying(content)
  BY DEF SetupInit, RunnerInit, OneEach, Applying, NotApplying
<1> QED BY <1>1, <1>2, <1>3, <1>4 DEF Invariant

LEMMA OwnBlockHolds ==
  ASSUME NEW content, Invariant(content), \A i, j \in Installed : i = j
  PROVE  OwnBlock
BY DEF Invariant, Claimed, OneEach, Claims, OwnBlock

-----------------------------------------------------------------------------
\* A step of the runner starts a stack from the manifest of now, or takes it down.
LEMMA RunnerKeeps ==
  ASSUME Shapes, MaxEdits = 0, RunnerNext
  PROVE  /\ man' = man
         /\ DOMAIN stack' = Ids
         /\ spent' = [edits |-> 0, faults |-> spent'.faults, kills |-> spent'.kills]
         /\ \A i \in Ids : stack'[i].man \in {stack[i].man, man[i], NoMan}
<1>1. CASE Begin \/ Read \/ Judge \/ GiveUp \/ Promote \/ Exit \/ Unlock \/ RetryDue \/ Release
  BY <1>1 DEF Begin, Read, Judge, GiveUp, Promote, Exit, Unlock, RetryDue, Release, Shapes
<1>2. CASE Look \/ Stage \/ Kill
  BY <1>2 DEF Look, Named, Stage, Kill, Fault, Shapes
<1>3. CASE BringUp
  BY <1>3 DEF BringUp, Fault, Started, Shapes
<1>4. CASE BringBack
  BY <1>4 DEF BringBack, Fault, Started, Down, Shapes
<1>5. ASSUME NEW i \in Ids, Edit(i) PROVE FALSE
  BY <1>5 DEF Edit, Shapes
<1> QED BY <1>1, <1>2, <1>3, <1>4, <1>5 DEF RunnerNext, Runner

LEMMA KeptByRunner ==
  ASSUME NEW content, Invariant(content), MaxEdits = 0, RunnerStep
  PROVE  Invariant(content)'
<1>1. /\ man' = man /\ ledger' = ledger /\ staged' = staged
      /\ DOMAIN stack' = Ids
      /\ spent' = [edits |-> 0, faults |-> spent'.faults, kills |-> spent'.kills]
      /\ \A i \in Ids : stack'[i].man \in {stack[i].man, man[i], NoMan}
  BY RunnerKeeps DEF RunnerStep, Invariant
<1>2. DOMAIN app' = New /\ \A i \in New : "pc" \in DOMAIN app'[i] /\ app'[i].pc = app[i].pc
  BY DEF RunnerStep, Invariant, Shapes
<1>3. Shapes' /\ Rooted(content)' /\ OneEach(content)' /\ Applying(content)'
  BY <1>1, <1>2 DEF Invariant, Shapes, Rooted, OneEach, Applying
<1>4. \A i \in Ids : stack'[i].man # NoMan => <<i, stack'[i].man.blk>> \in Claims(content)
  BY <1>1 DEF Invariant, Claimed
<1>5. Claimed(content)'
  BY <1>1, <1>4 DEF Invariant, Claimed, Claims, RunnerStep
<1> QED BY <1>3, <1>5 DEF Invariant

-----------------------------------------------------------------------------
\* The steps of onboarding that neither stage, apply, record nor install.
LEMMA KeptAside ==
  ASSUME NEW content, Invariant(content), NEW i \in New,
         Sign(i) \/ Pair(i) \/ RunAgain(i)
  PROVE  Invariant(content)'
<1>1. UNCHANGED <<man, stack, staged, app, spent, ledger, ran>>
  BY DEF Sign, Pair, RunAgain, runVars
<1> QED BY <1>1 DEF Invariant, Shapes, Rooted, Claimed, Claims, OneEach, Applying

\* A manifest is staged only for an agent that is not applying.
LEMMA KeptByStage1 ==
  ASSUME NEW content, Invariant(content), NEW i \in New, Stage1(i)
  PROVE  Invariant(content)'
<1>1. UNCHANGED <<man, stack, app, spent, ledger, ran>> /\ app[i].pc = "idle"
  BY DEF Stage1, runVars, NotApplying
<1>2. DOMAIN staged' = New /\ \A j \in New \ {i} : staged'[j] = staged[j]
  BY DEF Stage1, Invariant, Shapes
<1> QED BY <1>1, <1>2 DEF Invariant, Shapes, Rooted, Claimed, Claims, OneEach, Applying

\* The check passes over the manifests installed at the start.
LEMMA KeptByApply ==
  ASSUME NEW content \in Contents, Invariant(content), NEW i \in New, Apply(i)
  PROVE  Invariant(content)'
<1>1. UNCHANGED <<man, stack, staged, spent, ledger, ran>> /\ app' = [app EXCEPT ![i] = [pc |-> "reserve"]]
  BY DEF Apply, runVars
<1>2. i \notin Installed /\ (Installed # {} => staged[i].man.blk # content.blk)
  BY EstateAssumption DEF Apply, Checked, BlockClear, IsInstalled, Invariant, Rooted
<1>3. Shapes' /\ Rooted(content)' /\ Claimed(content)' /\ OneEach(content)'
  BY <1>1 DEF Invariant, Shapes, Rooted, Claimed, Claims, OneEach
<1>4. Applying(content)'
  BY <1>1, <1>2 DEF Invariant, Shapes, Applying
<1> QED BY <1>3, <1>4 DEF Invariant

\* The steps that only move an apply on, or end it.
LEMMA KeptByMove ==
  ASSUME NEW content, Invariant(content), NEW i \in New,
         TakeLedger(i) \/ TimeOut(i) \/ Seat(i)
  PROVE  Invariant(content)'
<1>1. UNCHANGED <<man, stack, staged, spent, ledger, ran>>
  BY DEF TakeLedger, TimeOut, Seat, runVars
<1>2. app[i].pc # "idle" /\ \E a \in {[pc |-> "idle"], [pc |-> "record"]} :
                               app' = [app EXCEPT ![i] = a] /\ (a.pc = "record" => app[i].pc = "reserve")
  BY DEF TakeLedger, TimeOut, Seat, Refused, NotApplying
<1>3. Shapes' /\ Rooted(content)' /\ Claimed(content)' /\ OneEach(content)'
  BY <1>1, <1>2 DEF Invariant, Shapes, Rooted, Claimed, Claims, OneEach
<1>4. Applying(content)'
  BY <1>1, <1>2 DEF Invariant, Shapes, Applying
<1> QED BY <1>3, <1>4 DEF Invariant

\* The record is read again before it is appended to.
LEMMA KeptByReserve ==
  ASSUME NEW content, Invariant(content), NEW i \in New, Reserve(i)
  PROVE  Invariant(content)'
<1>1. UNCHANGED <<man, stack, staged, spent, ran>> /\ app[i].pc = "record"
  BY DEF Reserve, runVars
<1>2. CASE ~RecordClear(i)
  <2>1. ledger' = ledger /\ app' = [app EXCEPT ![i] = NotApplying]
    BY <1>2 DEF Reserve, Refused
  <2> QED BY <1>1, <2>1 DEF Invariant, Shapes, Rooted, Claimed, Claims, OneEach, Applying, NotApplying
<1>3. CASE RecordClear(i)
  <2>1. ledger' = ledger \cup {<<i, staged[i].man.blk>>} /\ app' = [app EXCEPT ![i] = [pc |-> "install"]]
    BY <1>3 DEF Reserve
  <2>2. Shapes' /\ Rooted(content)' /\ Claimed(content)' /\ Applying(content)'
    BY <1>1, <2>1 DEF Invariant, Shapes, Rooted, Claimed, Claims, Applying
  <2>3. OneEach(content)'
    BY <1>1, <1>3, <2>1 DEF Invariant, OneEach, Applying, RecordClear
  <2> QED BY <2>2, <2>3 DEF Invariant
<1> QED BY <1>2, <1>3

\* What is installed is what was recorded.
LEMMA KeptByInstall ==
  ASSUME NEW content, Invariant(content), NEW i \in New, Install(i)
  PROVE  Invariant(content)'
<1>1. UNCHANGED <<stack, staged, spent, ledger, ran>> /\ app[i].pc = "install"
  BY DEF Install
<1>2. i \in Ids /\ i \notin Installed /\ <<i, staged[i].man.blk>> \in ledger
  BY <1>1, NewAssumption DEF Invariant, Applying
<1>3. CASE IsInstalled(i)
  <2>1. man' = man /\ app' = [app EXCEPT ![i] = NotApplying]
    BY <1>3 DEF Install, Refused
  <2> QED BY <1>1, <2>1 DEF Invariant, Shapes, Rooted, Claimed, Claims, OneEach, Applying, NotApplying
<1>4. CASE ~IsInstalled(i)
  <2>1. man' = [man EXCEPT ![i] = staged[i].man]
        /\ app' = [app EXCEPT ![i] = [pc |-> "wait", estate |-> man', fresh |-> FALSE]]
    BY <1>4 DEF Install
  <2>2. Shapes' /\ OneEach(content)' /\ Applying(content)'
    BY <1>1, <1>2, <2>1 DEF Invariant, Shapes, OneEach, Applying
  <2>3. Rooted(content)' /\ Claimed(content)'
    BY <1>1, <1>2, <2>1, EstateAssumption DEF Invariant, Shapes, Rooted, Claimed, Claims
  <2> QED BY <2>2, <2>3 DEF Invariant
<1> QED BY <1>3, <1>4

\* A refused apply takes away only what it installed.
LEMMA KeptByVerdict ==
  ASSUME NEW content, Invariant(content), NEW i \in New, Verdict(i)
  PROVE  Invariant(content)'
<1>1. UNCHANGED <<stack, staged, spent, ledger, ran>> /\ app[i].pc = "wait"
  BY DEF Verdict
<1>2. i \in Ids /\ i \notin Installed /\ <<i, staged[i].man.blk>> \in ledger
  BY <1>1, NewAssumption DEF Invariant, Applying
<1>3. \E a \in {[pc |-> "idle"], [pc |-> "seat"]} : app' = [app EXCEPT ![i] = a]
  BY DEF Verdict, Refused, NotApplying
<1>4. man' = man \/ \E m \in {man[i], NoMan} : man' = [man EXCEPT ![i] = m]
  BY DEF Verdict
<1>5. Shapes' /\ OneEach(content)'
  BY <1>1, <1>3, <1>4 DEF Invariant, Shapes, OneEach
<1>6. Applying(content)'
  BY <1>1, <1>2, <1>3 DEF Invariant, Shapes, Applying
<1>7. Rooted(content)' /\ Claimed(content)'
  BY <1>1, <1>2, <1>4, EstateAssumption DEF Invariant, Shapes, Rooted, Claimed, Claims
<1> QED BY <1>5, <1>6, <1>7 DEF Invariant

-----------------------------------------------------------------------------
LEMMA InvariantKept ==
  ASSUME NEW content \in Contents, Invariant(content), MaxEdits = 0, [SetupNext]_setupVars
  PROVE  Invariant(content)'
<1>1. CASE RunnerStep
  BY <1>1, KeptByRunner
<1>2. ASSUME NEW i \in New, Sign(i) \/ SetupStep(i) \/ TimeOut(i)
      PROVE  Invariant(content)'
  BY <1>2, KeptAside, KeptByStage1, KeptByApply, KeptByMove, KeptByReserve, KeptByInstall,
     KeptByVerdict DEF SetupStep
<1>3. CASE UNCHANGED setupVars
  BY <1>3 DEF setupVars, runVars, onVars, Invariant, Shapes, Rooted, Claimed, Claims, OneEach, Applying
<1> QED BY <1>1, <1>2, <1>3 DEF SetupNext

\* "One decade per identity": when nobody writes a manifest by hand, and one agent at
\* most is installed at the start, no two agents' stacks ever run as the same block,
\* whatever is staged together, whichever applies overlap, fail or are refused
\* (allocateIdentityBlock, reserveBlock).
THEOREM Owning ==
  ASSUME NEW content \in Contents, MaxEdits = 0, \A i, j \in Installed : i = j
  PROVE  SetupInit(content) /\ [][SetupNext]_setupVars => []OwnBlock
<1>1. SetupInit(content) => Invariant(content)
  BY InvariantInit
<1>2. Invariant(content) /\ [SetupNext]_setupVars => Invariant(content)'
  BY InvariantKept
<1>3. Invariant(content) => OwnBlock
  BY OwnBlockHolds
<1> QED BY <1>1, <1>2, <1>3, PTL
=============================================================================
