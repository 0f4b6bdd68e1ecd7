--------------------------- MODULE Stores_proofs ----------------------------
(***************************************************************************)
(* Theorems of five components that share no state, for every value of the  *)
(* constants: what a read of held capabilities may say (Capabilities), that *)
(* a request buys one event (Lanes), that what a caller is told is done     *)
(* (Mouth), that arrivals are judged by all of the policy (WakeWatch), and  *)
(* that a message is a task by a grant in force (GrantFold).                *)
(***************************************************************************)
EXTENDS Capabilities, Lanes, Mouth, WakeWatch, GrantFold, FiniteSetTheorems,
  WellFoundedInduction, TLAPS

-----------------------------------------------------------------------------
(***************************************************************************)
(* Capabilities: its types, and that "active" is never said of a grant a    *)
(* configured relay held a revocation of when the read began, while an      *)
(* answer can hold every event there is.                                    *)
(***************************************************************************)

\* What the cap on an answer must allow.
AnswersFit == /\ IsFiniteSet(Grants) /\ Limit \in Nat /\ Cardinality(Grants) <= Limit
              /\ MaxReads \in Nat

\* A grant of this read that was revoked before it is one some relay still
\* has the revocation of; had that relay answered, the read would know it.
Witnessed(g) == \E r \in Answerers : g \in cut[r] /\ (r \in read.answered => g \in read.revoked)

\* The grants revoked when the read began: still so on some relay, and known to
\* the second query from whichever relay has answered it.
CutKnown ==
  /\ read.pc = "grants" => \A g \in before.cut : \E r \in Answerers : g \in cut[r]
  /\ read.pc = "revocations" => \A g \in before.cut : Witnessed(g) \/ g \notin read.grants

CapInvariant == CapTypeOK /\ CutKnown /\ ActiveWasTrue

-----------------------------------------------------------------------------
\* An answer that can hold every grant is never cut short (MAX_EVENTS).
LEMMA NothingTruncated ==
  ASSUME AnswersFit, NEW s \in SUBSET Grants
  PROVE  Truncated(s) = {s}
<1>1. Cardinality(s) <= Cardinality(Grants) /\ Cardinality(s) \in Nat /\ Cardinality(Grants) \in Nat
  BY FS_Subset, FS_CardinalityType DEF AnswersFit
<1>2. ~(Cardinality(s) > Limit)
  BY <1>1 DEF AnswersFit
<1>3. QED
  BY <1>2 DEF Truncated

LEMMA CapInvariantInit == ASSUME AnswersFit, CapsInit PROVE CapInvariant
BY DEF AnswersFit, CapsInit, CapInvariant, CapTypeOK, CutKnown, ActiveWasTrue, NoRead, NoReport

\* What a relay may be given at any time: its events are only added to.
LEMMA KeptByEvents ==
  ASSUME CapInvariant, held' \in [Answerers -> SUBSET Grants], cut' \in [Answerers -> SUBSET Grants],
         \A r \in Answerers : cut[r] \subseteq cut'[r], lapsed' \subseteq Lapsing,
         UNCHANGED <<read, report, before, reads>>
  PROVE  CapInvariant'
<1>1. CapTypeOK' /\ ActiveWasTrue'
  BY DEF CapInvariant, CapTypeOK, ActiveWasTrue
<1>2. CutKnown'
  BY DEF CapInvariant, CutKnown, Witnessed
<1>3. QED
  BY <1>1, <1>2 DEF CapInvariant

LEMMA KeptByGrant ==
  ASSUME CapInvariant, NEW g \in Grants, NEW rs \in SUBSET Answerers, Grant(g, rs)
  PROVE  CapInvariant'
<1>1. held' \in [Answerers -> SUBSET Grants]
  BY DEF Grant, CapInvariant, CapTypeOK
<1>2. QED
  BY <1>1, KeptByEvents DEF Grant, CapInvariant, CapTypeOK

LEMMA KeptByRevoke ==
  ASSUME CapInvariant, NEW g \in Grants, NEW rs \in SUBSET Answerers, Revoke(g, rs)
  PROVE  CapInvariant'
<1>1. cut' \in [Answerers -> SUBSET Grants] /\ \A r \in Answerers : cut[r] \subseteq cut'[r]
  BY DEF Revoke, CapInvariant, CapTypeOK
<1>2. QED
  BY <1>1, KeptByEvents DEF Revoke, CapInvariant, CapTypeOK

LEMMA KeptByLapse ==
  ASSUME CapInvariant, NEW g \in Grants, Lapse(g)
  PROVE  CapInvariant'
<1>1. lapsed' \subseteq Lapsing
  BY DEF Lapse, CapInvariant, CapTypeOK
<1>2. QED
  BY <1>1, KeptByEvents DEF Lapse, CapInvariant, CapTypeOK

LEMMA KeptByBegin ==
  ASSUME AnswersFit, CapInvariant, Begin
  PROVE  CapInvariant'
<1>1. before' \in [grants : SUBSET Grants, cut : SUBSET Grants]
  BY DEF Begin, CapInvariant, CapTypeOK, AllOf
<1>2. reads' \in 0 .. MaxReads
  BY DEF AnswersFit, Begin, CapInvariant, CapTypeOK
<1>3. /\ read' \in [pc : {"idle", "grants", "revocations"}, asked : SUBSET Answerers,
                    answered : SUBSET Answerers, grants : SUBSET Grants, whole : BOOLEAN,
                    revoked : SUBSET Grants]
      /\ report' \in [made : BOOLEAN, verified : BOOLEAN, rows : SUBSET (Grants \X Statuses)]
  BY DEF Begin, NoRead, NoReport
<1>4. CapTypeOK'
  BY <1>1, <1>2, <1>3 DEF Begin, CapInvariant, CapTypeOK
<1>5. CutKnown' /\ ActiveWasTrue'
  BY DEF Begin, CutKnown, ActiveWasTrue, NoRead, NoReport, AllOf
<1>6. QED
  BY <1>4, <1>5 DEF CapInvariant

LEMMA KeptByGrantAnswer ==
  ASSUME AnswersFit, CapInvariant, NEW r \in Answerers, NEW ok \in BOOLEAN, Answer(r, ok)
  PROVE  CapInvariant'
<1> DEFINE given == IF read.pc = "grants" THEN held[r] ELSE cut[r] \cap read.grants
<1>1. given \in SUBSET Grants
  BY DEF CapInvariant, CapTypeOK
<1>2. Truncated(given) = {given}
  BY <1>1, NothingTruncated
<1>3. UNCHANGED <<held, cut, lapsed, report, before, reads>>
  BY DEF Answer
<1>4. CASE ~ok
  <2>1. read' = [read EXCEPT !.asked = @ \cup {r}]
    BY <1>4 DEF Answer
  <2>2. QED
    BY <1>3, <2>1 DEF CapInvariant, CapTypeOK, CutKnown, Witnessed, ActiveWasTrue
<1>5. CASE ok
  <2>1. read' = [read EXCEPT !.asked = @ \cup {r}, !.answered = @ \cup {r},
                   !.grants = IF read.pc = "grants" THEN @ \cup given ELSE @,
                   !.revoked = IF read.pc = "grants" THEN @ ELSE @ \cup given]
    BY <1>2, <1>5 DEF Answer
  <2>2. CapTypeOK' /\ ActiveWasTrue'
    BY <1>1, <1>3, <2>1 DEF CapInvariant, CapTypeOK, ActiveWasTrue
  <2>3. CASE read.pc = "grants"
    <3>1. read'.pc = "grants"
      BY <2>1, <2>3 DEF CapInvariant, CapTypeOK
    <3>2. CutKnown'
      BY <1>3, <2>3, <3>1 DEF CapInvariant, CutKnown
    <3>3. QED
      BY <2>2, <3>2 DEF CapInvariant
  <2>4. CASE read.pc = "revocations"
    <3>1. /\ read'.pc = "revocations" /\ read'.grants = read.grants
          /\ read'.answered = read.answered \cup {r}
          /\ read'.revoked = read.revoked \cup (cut[r] \cap read.grants)
      BY <2>1, <2>4 DEF CapInvariant, CapTypeOK
    <3>2. \A g \in before.cut : Witnessed(g)' \/ g \notin read.grants
      BY <1>3, <2>4, <3>1 DEF CapInvariant, CutKnown, Witnessed
    <3>3. QED
      BY <1>3, <2>2, <3>1, <3>2 DEF CapInvariant, CutKnown
  <2>5. read.pc \in {"grants", "revocations"}
    BY DEF Answer, CapInvariant, CapTypeOK
  <2>6. QED
    BY <2>3, <2>4, <2>5
<1>6. QED
  BY <1>4, <1>5

LEMMA KeptByFound ==
  ASSUME CapInvariant, Found
  PROVE  CapInvariant'
<1>1. CASE read.grants = {}
  <2>1. /\ report' = [made |-> TRUE, verified |-> Whole(read), rows |-> {}]
        /\ read' = NoRead
        /\ UNCHANGED <<held, cut, lapsed, before, reads>>
    BY <1>1 DEF Found
  <2>2. NoRead \in [pc : {"idle", "grants", "revocations"}, asked : SUBSET Answerers,
                   answered : SUBSET Answerers, grants : SUBSET Grants, whole : BOOLEAN,
                   revoked : SUBSET Grants]
    BY DEF NoRead
  <2>3. report' \in [made : BOOLEAN, verified : BOOLEAN, rows : SUBSET (Grants \X Statuses)]
    BY <2>1 DEF Whole
  <2>4. CapTypeOK'
    BY <2>1, <2>2, <2>3 DEF CapInvariant, CapTypeOK
  <2>5. CutKnown' /\ ActiveWasTrue'
    BY <2>1 DEF CutKnown, ActiveWasTrue, NoRead
  <2>6. QED
    BY <2>4, <2>5 DEF CapInvariant
<1>2. CASE read.grants # {}
  <2>1. /\ read' = [read EXCEPT !.pc = "revocations", !.asked = {}, !.answered = {},
                               !.whole = Whole(read)]
        /\ UNCHANGED <<report, held, cut, lapsed, before, reads>>
    BY <1>2 DEF Found
  <2>2. QED
    BY <2>1 DEF Found, CapInvariant, CapTypeOK, CutKnown, Witnessed, ActiveWasTrue, Whole
<1>3. QED
  BY <1>1, <1>2

\* A grant is called active only when every relay answered the second query:
\* the one that held its revocation among them.
LEMMA KeptByReport ==
  ASSUME CapInvariant, Report
  PROVE  CapInvariant'
<1>1. \A g \in Grants : Status(g, read) \in Statuses
  BY DEF Status, Statuses
<1>2. \A g \in read.grants : Status(g, read) = "active" => g \notin before.cut
  <2> SUFFICES ASSUME NEW g \in read.grants, Status(g, read) = "active", g \in before.cut
               PROVE  FALSE
    OBVIOUS
  <2>1. g \notin read.revoked /\ read.answered = Answerers
    BY DEF Status, Whole
  <2>2. Witnessed(g)
    BY DEF Report, CapInvariant, CutKnown
  <2>3. QED
    BY <2>1, <2>2 DEF Witnessed
<1>3. CapTypeOK'
  BY <1>1 DEF Report, CapInvariant, CapTypeOK, NoRead, Whole
<1>4. CutKnown' /\ ActiveWasTrue'
  BY <1>2 DEF Report, CutKnown, ActiveWasTrue, NoRead
<1>5. QED
  BY <1>3, <1>4 DEF CapInvariant

LEMMA CapInvariantKept ==
  ASSUME AnswersFit, CapInvariant, [CapsNext]_capVars
  PROVE  CapInvariant'
<1>1. CASE UNCHANGED capVars
  BY <1>1 DEF capVars, CapInvariant, CapTypeOK, CutKnown, Witnessed, ActiveWasTrue
<1>2. CASE CapsNext
  BY <1>2, KeptByGrant, KeptByRevoke, KeptByLapse, KeptByGrantAnswer, KeptByBegin, KeptByFound,
     KeptByReport DEF CapsNext
<1>3. QED
  BY <1>1, <1>2

-----------------------------------------------------------------------------
\* Types: of the relays' events, the read under way and its report, whatever
\* relays fail (readHeldCapabilities).
THEOREM Typing == ASSUME AnswersFit PROVE CapsSpec => []CapTypeOK
<1>1. CapsInit => CapInvariant
  BY CapInvariantInit
<1>2. CapInvariant /\ [CapsNext]_capVars => CapInvariant'
  BY CapInvariantKept
<1>3. CapInvariant => CapTypeOK
  BY DEF CapInvariant
<1>4. QED
  BY <1>1, <1>2, <1>3, PTL DEF CapsSpec

\* "active" is only said of a grant that no configured relay held a revocation
\* of when the read began (readHeldCapabilities).
THEOREM ActiveTrue == ASSUME AnswersFit PROVE CapsSpec => []ActiveWasTrue
<1>1. CapsInit => CapInvariant
  BY CapInvariantInit
<1>2. CapInvariant /\ [CapsNext]_capVars => CapInvariant'
  BY CapInvariantKept
<1>3. CapInvariant => ActiveWasTrue
  BY DEF CapInvariant
<1>4. QED
  BY <1>1, <1>2, <1>3, PTL DEF CapsSpec

-----------------------------------------------------------------------------
(***************************************************************************)
(* Lanes: the record written before the event is signed decides, for each   *)
(* later run, where it goes on.                                             *)
(***************************************************************************)

RecordStates == {"none", "frozen", "signed", "sent", "published", "refused"}
ChildSteps == {"check", "count", "freeze", "sign", "send", "settle", "legs", "exit"}

ChildType == child = Idle \/ (child.pc \in ChildSteps /\ child.r \in Requests
                                /\ child = [pc |-> child.pc, r |-> child.r])

\* An event was frozen for a request exactly when it has a record.
MadeOnce ==
  /\ record \in [Requests -> RecordStates]
  /\ made = [r \in Requests |-> IF record[r] = "none" THEN 0 ELSE 1]

\* A run that is still to freeze its event found no record; one past that has one.
RunPlaced ==
  /\ child.pc \in {"count", "freeze"} => record[child.r] = "none"
  /\ child.pc \in {"sign", "send", "settle", "legs", "exit"} => record[child.r] # "none"

\* What was taken is the first event frozen.
FirstTaken == \A e \in out : e.n = 1

LaneInvariant == ChildType /\ MadeOnce /\ RunPlaced /\ FirstTaken

-----------------------------------------------------------------------------
LEMMA LaneInvariantInit == LaneInit => LaneInvariant
BY DEF LaneInit, LaneInvariant, ChildType, MadeOnce, RunPlaced, FirstTaken, Idle, RecordStates

\* The steps outside a run leave the record, the count and what was sent alone.
LEMMA KeptOutside ==
  ASSUME LaneInvariant, UNCHANGED <<record, made, out>>, child' \in {child, Idle}
  PROVE  LaneInvariant'
BY DEF LaneInvariant, ChildType, MadeOnce, RunPlaced, FirstTaken, Idle

LEMMA KeptBySpawn ==
  ASSUME LaneInvariant, NEW r \in Requests, Spawn(r)
  PROVE  LaneInvariant'
BY DEF Spawn, LaneInvariant, ChildType, ChildSteps, MadeOnce, RunPlaced, FirstTaken

\* A run that goes on to the step pc, having changed nothing that was made.
LEMMA Goes ==
  ASSUME LaneInvariant, NEW pc \in ChildSteps, child # Idle, Go(pc), UNCHANGED <<record, made, out>>,
         pc \in {"count", "freeze"} => record[child.r] = "none",
         pc \in {"sign", "send", "settle", "legs", "exit"} => record[child.r] # "none"
  PROVE  LaneInvariant'
<1>1. child.r \in Requests /\ child' = [pc |-> pc, r |-> child.r]
  BY DEF LaneInvariant, ChildType, Go
<1>2. ChildType' /\ RunPlaced'
  BY <1>1 DEF ChildType, RunPlaced
<1>3. QED
  BY <1>2 DEF LaneInvariant, MadeOnce, FirstTaken

\* A refusal ends the run; it never turns a record back into none.
LEMMA Refuses ==
  ASSUME LaneInvariant, NEW rec \in RecordStates, child # Idle, Refuse(rec), UNCHANGED <<made, out>>,
         rec = "none" <=> record[child.r] = "none"
  PROVE  LaneInvariant'
<1>1. child' = Idle /\ child.r \in Requests
  BY DEF Refuse, LaneInvariant, ChildType
<1>2. MadeOnce'
  BY <1>1 DEF Refuse, LaneInvariant, MadeOnce, Mine
<1>3. QED
  BY <1>1, <1>2 DEF LaneInvariant, ChildType, RunPlaced, FirstTaken, Idle

LEMMA Running ==
  ASSUME LaneInvariant, NEW pc \in ChildSteps, At(pc)
  PROVE  child # Idle /\ child.r \in Requests /\ child.pc = pc
BY DEF At, Idle, LaneInvariant, ChildType, ChildSteps

LEMMA KeptByCheck ==
  ASSUME LaneInvariant, Check
  PROVE  LaneInvariant'
<1>1. child # Idle /\ child.r \in Requests
  BY Running DEF Check, ChildSteps
<1>2. record[child.r] \in RecordStates /\ UNCHANGED <<made, out>>
  BY <1>1 DEF Check, LaneInvariant, MadeOnce
<1>3. CASE Refuse(record[Mine])
  BY <1>1, <1>2, <1>3, Refuses DEF Mine
<1>4. CASE Go(Resume) /\ UNCHANGED record
  <2>1. Resume \in ChildSteps
    BY <1>2 DEF Resume, RecordStates, ChildSteps, Mine
  <2>2. /\ Resume \in {"count", "freeze"} => record[child.r] = "none"
        /\ Resume \in {"sign", "send", "settle", "legs", "exit"} => record[child.r] # "none"
    BY <1>2 DEF Resume, RecordStates, Mine
  <2>3. QED
    BY <1>1, <1>2, <1>4, <2>1, <2>2, Goes
<1>5. QED
  BY <1>3, <1>4 DEF Check

LEMMA KeptByCount ==
  ASSUME LaneInvariant, Count
  PROVE  LaneInvariant'
<1>1. child # Idle /\ child.r \in Requests /\ record[child.r] = "none"
  BY Running DEF Count, ChildSteps, LaneInvariant, RunPlaced
<1>2. CASE Go("freeze") /\ UNCHANGED record
  BY <1>1, <1>2, Goes DEF Count, ChildSteps
<1>3. CASE Refuse("none")
  BY <1>1, <1>3, Refuses DEF Count, RecordStates
<1>4. QED
  BY <1>2, <1>3 DEF Count

\* The only step that makes an event writes the record with it.
LEMMA KeptByFreeze ==
  ASSUME LaneInvariant, Freeze
  PROVE  LaneInvariant'
<1>1. child # Idle /\ child.r \in Requests /\ record[child.r] = "none"
  BY Running DEF Freeze, ChildSteps, LaneInvariant, RunPlaced
<1>2. MadeOnce'
  BY <1>1 DEF Freeze, LaneInvariant, MadeOnce, RecordStates, Mine
<1>3. child' = [pc |-> "sign", r |-> child.r]
  BY <1>1 DEF Freeze, Go, LaneInvariant, ChildType
<1>4. record'[child.r] = "frozen"
  BY <1>1 DEF Freeze, LaneInvariant, MadeOnce, Mine
<1>5. ChildType' /\ RunPlaced'
  BY <1>1, <1>3, <1>4 DEF ChildType, ChildSteps, RunPlaced
<1>6. QED
  BY <1>2, <1>5 DEF Freeze, LaneInvariant, FirstTaken

\* A step that replaces a record by another that is not none.
LEMMA Records ==
  ASSUME LaneInvariant, NEW pc \in ChildSteps \ {"count", "freeze"}, child # Idle, Go(pc),
         NEW rec \in RecordStates \ {"none"}, record[child.r] # "none",
         record' = [record EXCEPT ![child.r] = rec], UNCHANGED <<made, out>>
  PROVE  LaneInvariant'
<1>1. child.r \in Requests /\ child' = [pc |-> pc, r |-> child.r]
  BY DEF LaneInvariant, ChildType, Go
<1>2. MadeOnce'
  BY <1>1 DEF LaneInvariant, MadeOnce
<1>3. record'[child.r] # "none"
  BY <1>1 DEF LaneInvariant, MadeOnce
<1>4. ChildType' /\ RunPlaced'
  BY <1>1, <1>3 DEF ChildType, RunPlaced
<1>5. QED
  BY <1>2, <1>4 DEF LaneInvariant, FirstTaken

LEMMA KeptBySign ==
  ASSUME LaneInvariant, Sign
  PROVE  LaneInvariant'
<1>1. child # Idle /\ child.r \in Requests /\ record[child.r] # "none"
  BY Running DEF Sign, ChildSteps, LaneInvariant, RunPlaced
<1>2. QED
  BY <1>1, Records DEF Sign, ChildSteps, RecordStates, Mine

LEMMA KeptBySettle ==
  ASSUME LaneInvariant, Settle
  PROVE  LaneInvariant'
<1>1. child # Idle /\ child.r \in Requests /\ record[child.r] # "none"
  BY Running DEF Settle, ChildSteps, LaneInvariant, RunPlaced
<1>2. CASE lane = "profile"
  BY <1>1, <1>2, Records DEF Settle, ChildSteps, RecordStates, Mine
<1>3. CASE lane # "profile"
  BY <1>1, <1>3, Records DEF Settle, ChildSteps, RecordStates, Mine
<1>4. QED
  BY <1>2, <1>3

LEMMA KeptBySend ==
  ASSUME LaneInvariant, Send
  PROVE  LaneInvariant'
<1>1. child # Idle /\ child.r \in Requests /\ record[child.r] # "none" /\ UNCHANGED made
  BY Running DEF Send, ChildSteps, LaneInvariant, RunPlaced
<1>2. CASE Refuse("refused") /\ UNCHANGED out
  BY <1>1, <1>2, Refuses DEF RecordStates
<1>3. CASE Go("settle") /\ UNCHANGED record /\ UNCHANGED out
  BY <1>1, <1>3, Goes DEF ChildSteps
<1>4. CASE Go("settle") /\ UNCHANGED record /\ Took
  <2>1. made[child.r] = 1
    BY <1>1 DEF LaneInvariant, MadeOnce
  <2>2. FirstTaken'
    BY <1>4, <2>1 DEF Took, Mine, LaneInvariant, FirstTaken
  <2>3. child' = [pc |-> "settle", r |-> child.r]
    BY <1>1, <1>4 DEF Go, LaneInvariant, ChildType
  <2>4. ChildType' /\ RunPlaced'
    BY <1>1, <1>4, <2>3 DEF ChildType, ChildSteps, RunPlaced
  <2>5. QED
    BY <1>1, <1>4, <2>2, <2>4 DEF LaneInvariant, MadeOnce
<1>5. QED
  BY <1>2, <1>3, <1>4 DEF Send

LEMMA KeptByLegs ==
  ASSUME LaneInvariant, Legs
  PROVE  LaneInvariant'
<1>1. child # Idle /\ child.r \in Requests /\ record[child.r] # "none"
  BY Running DEF Legs, ChildSteps, LaneInvariant, RunPlaced
<1>2. CASE Go("exit")
  BY <1>1, <1>2, Goes DEF Legs, ChildSteps
<1>3. CASE child' = Idle
  BY <1>3, KeptOutside DEF Legs
<1>4. QED
  BY <1>2, <1>3 DEF Legs

LEMMA LaneInvariantKept == LaneInvariant /\ [LaneNext]_laneVars => LaneInvariant'
<1> SUFFICES ASSUME LaneInvariant, [LaneNext]_laneVars PROVE LaneInvariant'
  OBVIOUS
<1>1. CASE UNCHANGED laneVars
  BY <1>1, KeptOutside DEF laneVars
<1>2. CASE ClockTicks \/ Withdraw
  BY <1>2, KeptOutside DEF ClockTicks, Withdraw
<1>3. CASE RunStops \/ Restart \/ Exit
  BY <1>3, KeptOutside DEF RunStops, Restart, Exit
<1>4. ASSUME NEW r \in Requests, NEW op \in LaneOps[lane], Ask(r, op) PROVE LaneInvariant'
  BY <1>4, KeptOutside DEF Ask
<1>5. CASE Run
  BY <1>3, <1>5, KeptByCheck, KeptByCount, KeptByFreeze, KeptBySign, KeptBySend, KeptBySettle,
     KeptByLegs DEF Run
<1>6. QED
  BY <1>1, <1>2, <1>3, <1>4, <1>5, KeptBySpawn DEF LaneNext

-----------------------------------------------------------------------------
\* Whatever is retried after a stop is the event that was frozen first: each
\* request buys one event (the record of instance-broker-post.mjs).
THEOREM OneEvent == LaneSpec => []OneEventPerRequest
<1>1. LaneInit => LaneInvariant
  BY LaneInvariantInit
<1>2. LaneInvariant /\ [LaneNext]_laneVars => LaneInvariant'
  BY LaneInvariantKept
<1>3. LaneInvariant => OneEventPerRequest
  BY DEF LaneInvariant, FirstTaken, OneEventPerRequest
<1>4. QED
  BY <1>1, <1>2, <1>3, PTL DEF LaneSpec

-----------------------------------------------------------------------------
(***************************************************************************)
(* Mouth: what is left of each tool's steps says what has been done.        *)
(***************************************************************************)

\* What may be left to do of a call of each tool.
PastNote == {<<"self?", "sign?", "cc?">>, <<"sign?", "cc?">>, <<"cc?">>}
Todos(tool) ==
  CASE tool = "post" -> {<<>>, <<"note">>, NoteSteps}
    [] tool = "dm" -> {<<>>, <<"note", "self?", "sign?", "cc?">>, <<"sign", "note", "self?", "sign?", "cc?">>, DmSteps}
                        \cup PastNote
    [] tool = "offer" -> {<<>>, <<"record">>, <<"grant", "record">>, <<"sign", "grant", "record">>,
                          <<"scope", "sign", "grant", "record">>, OfferSteps}
    [] tool = "withdraw" -> {<<>>, <<"bump">>, <<"tomb", "bump">>, WithdrawSteps}
    [] tool = "request" -> {<<>>, <<"note">>, RequestSteps}
    [] OTHER -> {<<>>}

Speaking == {"post", "dm", "request"}

LEMMA StepTable ==
  ASSUME NEW tool \in Tools, NEW s \in Todos(tool), s # <<>>
  PROVE  /\ Tail(s) \in Todos(tool)
         /\ Head(s) \in {"sign", "local"} =>
              Tail(s) \notin PastNote \cup {<<>>, <<"record">>, <<"bump">>}
         /\ Head(s) \in {"self?", "sign?", "cc?"} <=> s \in PastNote
         /\ s \in PastNote => tool = "dm" /\ Tail(s) \in PastNote \cup {<<>>}
         /\ Head(s) = "note" => tool \in Speaking
         /\ Head(s) \in {"scope", "grant", "record"} => tool = "offer"
         /\ Head(s) = "scope" => Tail(s) # <<"record">> /\ Tail(s) # <<>>
         /\ Head(s) = "grant" => Tail(s) = <<"record">>
         /\ Head(s) = "record" <=> s = <<"record">>
         /\ Head(s) = "record" => Tail(s) = <<>>
         /\ Head(s) \in {"tomb", "bump"} => tool = "withdraw"
         /\ Head(s) = "tomb" => Tail(s) = <<"bump">>
         /\ Head(s) = "bump" <=> s = <<"bump">>
         /\ Head(s) = "bump" => Tail(s) = <<>>
<1>1. CASE tool = "post"
  <2>1. CASE s = <<"sign", "note">>
    <3>1. Head(s) = "sign" /\ Tail(s) = <<"note">>
      BY <2>1
    <3> QED BY <1>1, <2>1, <3>1 DEF Todos, PastNote, Speaking, NoteSteps, DmSteps, OfferSteps, WithdrawSteps, RequestSteps
  <2>2. CASE s = <<"note">>
    <3>1. Head(s) = "note" /\ Tail(s) = <<>>
      BY <2>2
    <3> QED BY <1>1, <2>2, <3>1 DEF Todos, PastNote, Speaking, NoteSteps, DmSteps, OfferSteps, WithdrawSteps, RequestSteps
  <2> QED BY <1>1, <2>1, <2>2 DEF Todos, PastNote, NoteSteps, DmSteps, OfferSteps, WithdrawSteps, RequestSteps
<1>2. CASE tool = "dm"
  <2>1. CASE s = <<"sign", "sign", "note", "self?", "sign?", "cc?">>
    <3>1. Head(s) = "sign" /\ Tail(s) = <<"sign", "note", "self?", "sign?", "cc?">>
      BY <2>1
    <3> QED BY <1>2, <2>1, <3>1 DEF Todos, PastNote, Speaking, NoteSteps, DmSteps, OfferSteps, WithdrawSteps, RequestSteps
  <2>2. CASE s = <<"sign", "note", "self?", "sign?", "cc?">>
    <3>1. Head(s) = "sign" /\ Tail(s) = <<"note", "self?", "sign?", "cc?">>
      BY <2>2
    <3> QED BY <1>2, <2>2, <3>1 DEF Todos, PastNote, Speaking, NoteSteps, DmSteps, OfferSteps, WithdrawSteps, RequestSteps
  <2>3. CASE s = <<"note", "self?", "sign?", "cc?">>
    <3>1. Head(s) = "note" /\ Tail(s) = <<"self?", "sign?", "cc?">>
      BY <2>3
    <3> QED BY <1>2, <2>3, <3>1 DEF Todos, PastNote, Speaking, NoteSteps, DmSteps, OfferSteps, WithdrawSteps, RequestSteps
  <2>4. CASE s = <<"self?", "sign?", "cc?">>
    <3>1. Head(s) = "self?" /\ Tail(s) = <<"sign?", "cc?">>
      BY <2>4
    <3> QED BY <1>2, <2>4, <3>1 DEF Todos, PastNote, Speaking, NoteSteps, DmSteps, OfferSteps, WithdrawSteps, RequestSteps
  <2>5. CASE s = <<"sign?", "cc?">>
    <3>1. Head(s) = "sign?" /\ Tail(s) = <<"cc?">>
      BY <2>5
    <3> QED BY <1>2, <2>5, <3>1 DEF Todos, PastNote, Speaking, NoteSteps, DmSteps, OfferSteps, WithdrawSteps, RequestSteps
  <2>6. CASE s = <<"cc?">>
    <3>1. Head(s) = "cc?" /\ Tail(s) = <<>>
      BY <2>6
    <3> QED BY <1>2, <2>6, <3>1 DEF Todos, PastNote, Speaking, NoteSteps, DmSteps, OfferSteps, WithdrawSteps, RequestSteps
  <2> QED BY <1>2, <2>1, <2>2, <2>3, <2>4, <2>5, <2>6 DEF Todos, PastNote, NoteSteps, DmSteps, OfferSteps, WithdrawSteps, RequestSteps
<1>3. CASE tool = "offer"
  <2>1. CASE s = <<"sign", "scope", "sign", "grant", "record">>
    <3>1. Head(s) = "sign" /\ Tail(s) = <<"scope", "sign", "grant", "record">>
      BY <2>1
    <3> QED BY <1>3, <2>1, <3>1 DEF Todos, PastNote, Speaking, NoteSteps, DmSteps, OfferSteps, WithdrawSteps, RequestSteps
  <2>2. CASE s = <<"scope", "sign", "grant", "record">>
    <3>1. Head(s) = "scope" /\ Tail(s) = <<"sign", "grant", "record">>
      BY <2>2
    <3> QED BY <1>3, <2>2, <3>1 DEF Todos, PastNote, Speaking, NoteSteps, DmSteps, OfferSteps, WithdrawSteps, RequestSteps
  <2>3. CASE s = <<"sign", "grant", "record">>
    <3>1. Head(s) = "sign" /\ Tail(s) = <<"grant", "record">>
      BY <2>3
    <3> QED BY <1>3, <2>3, <3>1 DEF Todos, PastNote, Speaking, NoteSteps, DmSteps, OfferSteps, WithdrawSteps, RequestSteps
  <2>4. CASE s = <<"grant", "record">>
    <3>1. Head(s) = "grant" /\ Tail(s) = <<"record">>
      BY <2>4
    <3> QED BY <1>3, <2>4, <3>1 DEF Todos, PastNote, Speaking, NoteSteps, DmSteps, OfferSteps, WithdrawSteps, RequestSteps
  <2>5. CASE s = <<"record">>
    <3>1. Head(s) = "record" /\ Tail(s) = <<>>
      BY <2>5
    <3> QED BY <1>3, <2>5, <3>1 DEF Todos, PastNote, Speaking, NoteSteps, DmSteps, OfferSteps, WithdrawSteps, RequestSteps
  <2> QED BY <1>3, <2>1, <2>2, <2>3, <2>4, <2>5 DEF Todos, PastNote, NoteSteps, DmSteps, OfferSteps, WithdrawSteps, RequestSteps
<1>4. CASE tool = "withdraw"
  <2>1. CASE s = <<"sign", "tomb", "bump">>
    <3>1. Head(s) = "sign" /\ Tail(s) = <<"tomb", "bump">>
      BY <2>1
    <3> QED BY <1>4, <2>1, <3>1 DEF Todos, PastNote, Speaking, NoteSteps, DmSteps, OfferSteps, WithdrawSteps, RequestSteps
  <2>2. CASE s = <<"tomb", "bump">>
    <3>1. Head(s) = "tomb" /\ Tail(s) = <<"bump">>
      BY <2>2
    <3> QED BY <1>4, <2>2, <3>1 DEF Todos, PastNote, Speaking, NoteSteps, DmSteps, OfferSteps, WithdrawSteps, RequestSteps
  <2>3. CASE s = <<"bump">>
    <3>1. Head(s) = "bump" /\ Tail(s) = <<>>
      BY <2>3
    <3> QED BY <1>4, <2>3, <3>1 DEF Todos, PastNote, Speaking, NoteSteps, DmSteps, OfferSteps, WithdrawSteps, RequestSteps
  <2> QED BY <1>4, <2>1, <2>2, <2>3 DEF Todos, PastNote, NoteSteps, DmSteps, OfferSteps, WithdrawSteps, RequestSteps
<1>5. CASE tool = "request"
  <2>1. CASE s = <<"local", "note">>
    <3>1. Head(s) = "local" /\ Tail(s) = <<"note">>
      BY <2>1
    <3> QED BY <1>5, <2>1, <3>1 DEF Todos, PastNote, Speaking, NoteSteps, DmSteps, OfferSteps, WithdrawSteps, RequestSteps
  <2>2. CASE s = <<"note">>
    <3>1. Head(s) = "note" /\ Tail(s) = <<>>
      BY <2>2
    <3> QED BY <1>5, <2>2, <3>1 DEF Todos, PastNote, Speaking, NoteSteps, DmSteps, OfferSteps, WithdrawSteps, RequestSteps
  <2> QED BY <1>5, <2>1, <2>2 DEF Todos, PastNote, NoteSteps, DmSteps, OfferSteps, WithdrawSteps, RequestSteps
<1> QED BY <1>1, <1>2, <1>3, <1>4, <1>5 DEF Tools

-----------------------------------------------------------------------------
Placed == {"offered", "gone"}

CallEnds == {"none", "told", "error", "lost"}
CallRecords ==
  [tool : Tools \cup {"none"}, of : Calls \cup {NoCall}, todo : UNION {Todos(t) : t \in Tools \cup {"none"}}, end : CallEnds]

MouthTyped ==
  /\ call \in [Calls -> CallRecords]
  /\ \A c \in Calls : call[c].todo \in Todos(call[c].tool)
  /\ \A c \in Calls : call[c].end = "told" => call[c].todo = <<>> /\ call[c].tool # "none"
  /\ desk \in [Calls -> {"none", "scope", "offered", "gone"}] /\ offers \in [Calls -> Nat]
  /\ DOMAIN signer = {"connect", "heard", "asked"} /\ signer.asked \subseteq Calls

\* The signer is asked for a call that waits for it.
Waits == \A c \in signer.asked : Signing(c)

\* A note is out once nothing but copies of it is left to send.
Spoken(c) ==
  call[c].tool \in Speaking /\ (call[c].end = "told" \/ call[c].todo \in PastNote) => <<c, "note">> \in landed

\* An offer is on the desk before it is recorded, and what is recorded is over.
Put(c) ==
  /\ call[c].tool = "offer" /\ (call[c].end = "told" \/ call[c].todo = <<"record">>) => desk[c] \in Placed
  /\ offers[c] > 0 => call[c].tool = "offer" /\ call[c].todo = <<>> /\ desk[c] \in Placed
  /\ offers[c] > 1 => desk[c] = "gone"

\* A withdrawal is of an offer that is over, and bumps it once its tombstone is out.
TakenBack(c) ==
  call[c].tool = "withdraw" =>
    /\ call[c].of \in Calls /\ call[c].of # c
    /\ call[call[c].of].tool = "offer" /\ call[call[c].of].todo = <<>>
    /\ call[c].end = "told" \/ call[c].todo = <<"bump">> => desk[call[c].of] = "gone"

MouthInvariant == MouthTyped /\ Waits /\ \A c \in Calls : Spoken(c) /\ Put(c) /\ TakenBack(c)

-----------------------------------------------------------------------------
LEMMA NothingLeft == Todos("none") = {<<>>} /\ \A tool \in Tools : <<>> \in Todos(tool)
BY DEF Todos, Tools

LEMMA UnbornFits == Unborn \in CallRecords
BY NothingLeft DEF Unborn, CallRecords, CallEnds

LEMMA MouthInvariantInit == MouthInit => MouthInvariant
<1> SUFFICES ASSUME MouthInit PROVE MouthInvariant
  OBVIOUS
<1>1. call = [c \in Calls |-> Unborn] /\ Unborn.tool = "none" /\ Unborn.end = "none" /\ Unborn.todo = <<>>
  BY DEF MouthInit, Unborn
<1>2. MouthTyped
  BY <1>1, UnbornFits, NothingLeft DEF MouthInit, MouthTyped
<1>3. Waits /\ \A c \in Calls : Spoken(c) /\ Put(c) /\ TakenBack(c)
  BY <1>1 DEF MouthInit, Waits, Spoken, Put, TakenBack, Speaking
<1> QED BY <1>2, <1>3 DEF MouthInvariant

LEMMA ToldIsDoneHolds == MouthInvariant => ToldIsDone
<1> SUFFICES ASSUME MouthInvariant, NEW c \in Calls, call[c].end = "told"
             PROVE CASE call[c].tool = "offer" -> desk[c] \in {"offered", "gone"}
                     [] call[c].tool = "withdraw" -> desk[call[c].of] = "gone"
                     [] OTHER -> <<c, "note">> \in landed
  BY DEF ToldIsDone
<1>1. call[c] \in CallRecords /\ call[c].tool # "none" /\ Spoken(c) /\ Put(c) /\ TakenBack(c)
  BY DEF MouthInvariant, MouthTyped
<1>2. call[c].tool \in Tools
  BY <1>1 DEF CallRecords
<1>3. CASE call[c].tool = "offer"
  BY <1>1, <1>3 DEF Put, Placed
<1>4. CASE call[c].tool = "withdraw"
  BY <1>1, <1>4 DEF TakenBack
<1>5. CASE call[c].tool \in Speaking
  BY <1>1, <1>5 DEF Spoken, Speaking
<1> QED BY <1>2, <1>3, <1>4, <1>5 DEF Tools, Speaking

-----------------------------------------------------------------------------
Moved(c, t, e) == call' = [call EXCEPT ![c].todo = t, ![c].end = e]

LEMMA MoveMoves ==
  ASSUME MouthTyped, NEW c \in Calls, NEW t \in Todos(call[c].tool), NEW e \in CallEnds,
         e = "told" => t = <<>> /\ call[c].tool # "none", Moved(c, t, e)
  PROVE  /\ call' \in [Calls -> CallRecords]
         /\ call'[c] = [tool |-> call[c].tool, of |-> call[c].of, todo |-> t, end |-> e]
         /\ \A d \in Calls \ {c} : call'[d] = call[d]
         /\ \A d \in Calls : call'[d].todo \in Todos(call'[d].tool)
         /\ \A d \in Calls : call'[d].end = "told" => call'[d].todo = <<>> /\ call'[d].tool # "none"
<1>1. call[c] \in CallRecords /\ call[c].tool \in Tools \cup {"none"} /\ call[c].of \in Calls \cup {NoCall}
  BY DEF MouthTyped, CallRecords
<1>2. call'[c] = [call[c] EXCEPT !.todo = t, !.end = e] /\ \A d \in Calls \ {c} : call'[d] = call[d]
  BY DEF Moved, MouthTyped
<1>3. call'[c] = [tool |-> call[c].tool, of |-> call[c].of, todo |-> t, end |-> e]
  BY <1>1, <1>2 DEF CallRecords
<1>4. DOMAIN call' = Calls /\ call' = [d \in Calls |-> call'[d]]
  BY DEF Moved, MouthTyped
<1>5. call'[c] \in CallRecords
  BY <1>1, <1>3 DEF CallRecords
<1>6. call' \in [Calls -> CallRecords]
  BY <1>2, <1>4, <1>5 DEF MouthTyped
<1>7. ASSUME NEW d \in Calls
      PROVE  call'[d].todo \in Todos(call'[d].tool) /\ (call'[d].end = "told" => call'[d].todo = <<>> /\ call'[d].tool # "none")
  <2>1. CASE d = c
    BY <1>3, <2>1
  <2>2. CASE d # c
    BY <1>2, <2>2 DEF MouthTyped
  <2> QED BY <2>1, <2>2
<1> QED BY <1>2, <1>3, <1>6, <1>7

\* A call under way goes on to t, or ends as e says.
StepFits(c, t, e) ==
  /\ call[c].todo # <<>> /\ t \in Todos(call[c].tool) /\ e \in CallEnds /\ Moved(c, t, e)
  /\ e = "told" => t = <<>>
  /\ DOMAIN signer' = {"connect", "heard", "asked"} /\ signer'.asked \subseteq signer.asked \ {c}
  /\ desk' \in [Calls -> {"none", "scope", "offered", "gone"}] /\ offers' \in [Calls -> Nat]
  /\ \A d \in Calls \ {c} : desk'[d] \in {desk[d], "gone"}
  /\ \A d \in Calls \ {c} : offers'[d] # offers[d] =>
       call[d].tool = "offer" /\ call[d].todo = <<>> /\ desk'[d] = "gone"
  /\ offers'[c] > 0 => offers'[c] = 1 /\ call[c].tool = "offer" /\ t = <<>> /\ desk'[c] \in Placed
  /\ landed \subseteq landed'
  /\ call[c].tool \in Speaking /\ (e = "told" \/ t \in PastNote) => <<c, "note">> \in landed'
  /\ call[c].tool = "offer" /\ (e = "told" \/ t = <<"record">>) => desk'[c] \in Placed
  /\ call[c].tool = "withdraw" /\ (e = "told" \/ t = <<"bump">>) => desk'[call[c].of] = "gone"

\* No other call is disturbed by it.
LEMMA StepKeeps ==
  ASSUME MouthInvariant, NEW c \in Calls, NEW t, NEW e, StepFits(c, t, e)
  PROVE  MouthInvariant'
<1> USE DEF StepFits
<1>0. call[c].tool # "none"
  <2>1. Todos("none") = {<<>>}
    BY DEF Todos
  <2> QED BY <2>1 DEF MouthInvariant, MouthTyped
<1>1. /\ call' \in [Calls -> CallRecords]
      /\ call'[c] = [tool |-> call[c].tool, of |-> call[c].of, todo |-> t, end |-> e]
      /\ \A d \in Calls \ {c} : call'[d] = call[d]
      /\ \A d \in Calls : call'[d].todo \in Todos(call'[d].tool)
      /\ \A d \in Calls : call'[d].end = "told" => call'[d].todo = <<>> /\ call'[d].tool # "none"
  BY <1>0, MoveMoves DEF MouthInvariant
<1>2. MouthTyped'
  BY <1>1 DEF MouthInvariant, MouthTyped
<1>3. Waits'
  BY <1>1 DEF MouthInvariant, MouthTyped, Waits, Signing, AtStep
<1>4. Spoken(c)' /\ Put(c)'
  BY <1>1 DEF Spoken, Put, Placed
<1>5. TakenBack(c)'
  <2>1. ASSUME call[c].tool = "withdraw"
        PROVE call[c].of \in Calls \ {c} /\ call'[call[c].of].tool = "offer" /\ call'[call[c].of].todo = <<>>
    BY <1>1, <2>1 DEF MouthInvariant, TakenBack
  <2> QED BY <1>1, <2>1 DEF TakenBack
<1>6. ASSUME NEW d \in Calls \ {c} PROVE Spoken(d)' /\ Put(d)' /\ TakenBack(d)'
  <2>1. call'[d] = call[d] /\ Spoken(d) /\ Put(d) /\ TakenBack(d)
    BY <1>1 DEF MouthInvariant
  <2>2. Spoken(d)' /\ Put(d)'
    BY <2>1 DEF Spoken, Put, Placed
  <2>3. ASSUME call[d].tool = "withdraw" PROVE call[d].of # c /\ call'[call[d].of] = call[call[d].of]
    BY <1>1, <2>1, <2>3 DEF TakenBack
  <2>4. TakenBack(d)'
    BY <2>1, <2>3 DEF TakenBack
  <2> QED BY <2>2, <2>4
<1> QED BY <1>2, <1>3, <1>4, <1>5, <1>6 DEF MouthInvariant

-----------------------------------------------------------------------------
\* What the step a call is at says about the call.
LEMMA StepOf ==
  ASSUME MouthInvariant, NEW c \in Calls, call[c].todo # <<>>
  PROVE  /\ call[c].tool \in Tools /\ call[c].todo \in Todos(call[c].tool)
         /\ <<>> \in Todos(call[c].tool)
         /\ offers[c] = 0 /\ call[c].end # "told"
<1>1. call[c] \in CallRecords /\ call[c].todo \in Todos(call[c].tool)
  BY DEF MouthInvariant, MouthTyped
<1>2. call[c].tool \in Tools
  BY <1>1, NothingLeft DEF CallRecords
<1> QED BY <1>1, <1>2, NothingLeft DEF MouthInvariant, MouthTyped, Put

\* A call that ends with an error: what it has done stays done.
LEMMA BreakKeeps ==
  ASSUME MouthInvariant, NEW c \in Calls, call[c].todo # <<>>, Break(c),
         DOMAIN signer' = {"connect", "heard", "asked"}, signer'.asked \subseteq signer.asked \ {c},
         desk' \in [Calls -> {"none", "scope", "offered", "gone"}], offers' = offers,
         \A d \in Calls \ {c} : desk'[d] \in {desk[d], "gone"}, landed \subseteq landed'
  PROVE  MouthInvariant'
<1>1. Moved(c, <<>>, "error") /\ <<>> \in Todos(call[c].tool) /\ offers[c] = 0
  BY StepOf DEF Break, Moved
<1>2. <<>> \notin PastNote /\ <<>> # <<"record">> /\ <<>> # <<"bump">>
  BY DEF PastNote
<1>3. StepFits(c, <<>>, "error")
  BY <1>1, <1>2 DEF StepFits, MouthInvariant, MouthTyped, CallEnds
<1> QED BY <1>3, StepKeeps

\* A signature or a look at the key is neither the note nor the grant nor the tombstone;
\* a copy is sent after the note.
LEMMA QuietStepKeeps ==
  ASSUME MouthInvariant, NEW c \in Calls, call[c].todo # <<>>,
         Head(call[c].todo) \in {"sign", "local", "self?", "sign?", "cc?"}, GoOn(c, Rest(c)),
         DOMAIN signer' = {"connect", "heard", "asked"}, signer'.asked \subseteq signer.asked \ {c},
         desk' = desk, offers' = offers, landed \subseteq landed'
  PROVE  MouthInvariant'
<1> DEFINE t == Rest(c)
           e == IF t = <<>> THEN "told" ELSE "none"
<1>1. t \in Todos(call[c].tool) /\ e \in CallEnds /\ Moved(c, t, e)
  BY StepOf, StepTable DEF GoOn, Rest, Moved, CallEnds
<1>2. CASE call[c].todo \in PastNote
  <2>1. call[c].tool = "dm" /\ <<c, "note">> \in landed'
    BY <1>2, StepOf, StepTable DEF MouthInvariant, Spoken, Speaking
  <2>2. offers[c] = 0 /\ StepFits(c, t, e)
    BY <1>1, <2>1, StepOf DEF StepFits, MouthInvariant, MouthTyped
  <2> QED BY <2>2, StepKeeps
<1>3. CASE call[c].todo \notin PastNote
  <2>1. t \notin PastNote \cup {<<>>, <<"record">>, <<"bump">>}
    BY <1>3, StepOf, StepTable DEF Rest
  <2>2. offers[c] = 0 /\ StepFits(c, t, e)
    BY <1>1, <2>1, StepOf DEF StepFits, MouthInvariant, MouthTyped
  <2> QED BY <2>2, StepKeeps
<1> QED BY <1>2, <1>3

-----------------------------------------------------------------------------
\* The signer.

LEMMA KeptByAskSigner ==
  ASSUME MouthInvariant, NEW c \in Calls, AskSigner(c)
  PROVE  MouthInvariant'
<1>1. UNCHANGED <<desk, offers, landed>> /\ Signing(c)
  BY DEF AskSigner
<1>2. CASE ~remote
  <2>1. GoOn(c, Rest(c)) /\ signer' = signer /\ c \notin signer.asked
    BY <1>2 DEF AskSigner
  <2>2. call[c].todo # <<>> /\ Head(call[c].todo) \in {"sign", "sign?"}
    BY <1>1 DEF Signing, AtStep
  <2> QED BY <1>1, <2>1, <2>2, QuietStepKeeps DEF MouthInvariant, MouthTyped
<1>3. CASE remote
  <2>1. call' = call /\ DOMAIN signer' = {"connect", "heard", "asked"} /\ signer'.asked \subseteq signer.asked \cup {c}
    BY <1>3 DEF AskSigner, MouthInvariant, MouthTyped
  <2> QED BY <1>1, <2>1 DEF MouthInvariant, MouthTyped, Waits, Signing, AtStep, Spoken, Put, TakenBack
<1> QED BY <1>2, <1>3

LEMMA KeptByAnswer ==
  ASSUME MouthInvariant, NEW c \in Calls, Signed(c) \/ Unsigned(c)
  PROVE  MouthInvariant'
<1>1. /\ UNCHANGED <<desk, offers, landed>> /\ signer' = [signer EXCEPT !.asked = @ \ {c}] /\ c \in signer.asked
  BY DEF Signed, Unsigned
<1>2. call[c].todo # <<>> /\ Head(call[c].todo) \in {"sign", "sign?"}
  BY <1>1 DEF MouthInvariant, Waits, Signing, AtStep
<1>3. DOMAIN signer' = {"connect", "heard", "asked"} /\ signer'.asked = signer.asked \ {c}
  BY <1>1 DEF MouthInvariant, MouthTyped
<1>4. CASE GoOn(c, Rest(c))
  BY <1>1, <1>2, <1>3, <1>4, QuietStepKeeps
<1>5. CASE Soft(c) /\ GoOn(c, <<>>)
  <2>1. call[c].todo \in PastNote /\ call[c].tool = "dm" /\ <<c, "note">> \in landed'
    BY <1>1, <1>5, StepOf, StepTable DEF Soft, MouthInvariant, Spoken, Speaking
  <2>2. Moved(c, <<>>, "told") /\ <<>> \in Todos(call[c].tool)
    BY <1>2, <1>5, StepOf DEF GoOn, Moved
  <2>3. offers[c] = 0 /\ StepFits(c, <<>>, "told")
    BY <1>1, <1>2, <1>3, <2>1, <2>2, StepOf DEF StepFits, MouthInvariant, MouthTyped, CallEnds
  <2> QED BY <2>3, StepKeeps
<1>6. CASE Break(c)
  BY <1>1, <1>2, <1>3, <1>6, BreakKeeps DEF MouthInvariant, MouthTyped
<1> QED BY <1>4, <1>5, <1>6 DEF Signed, Unsigned

LEMMA KeptByLocal ==
  ASSUME MouthInvariant, NEW c \in Calls, Local(c)
  PROVE  MouthInvariant'
<1>1. UNCHANGED <<signer, desk, offers, landed>> /\ call[c].todo # <<>> /\ Head(call[c].todo) = "local"
  BY DEF Local, AtStep
<1>2. c \notin signer.asked
  BY <1>1 DEF MouthInvariant, Waits, Signing, AtStep
<1>3. CASE Break(c)
  BY <1>1, <1>2, <1>3, BreakKeeps DEF MouthInvariant, MouthTyped
<1>4. CASE GoOn(c, Rest(c))
  BY <1>1, <1>2, <1>4, QuietStepKeeps DEF MouthInvariant, MouthTyped
<1> QED BY <1>3, <1>4 DEF Local

-----------------------------------------------------------------------------
\* The relays and the ledger.

LEMMA LandsDoes ==
  ASSUME MouthInvariant, NEW c \in Calls, Publishing(c), Lands(c)
  PROVE  /\ desk' \in [Calls -> {"none", "scope", "offered", "gone"}] /\ landed \subseteq landed'
         /\ \A d \in Calls \ {c} : desk'[d] \in {desk[d], "gone"}
         /\ Head(call[c].todo) = "note" => <<c, "note">> \in landed'
         /\ Head(call[c].todo) = "grant" => desk'[c] = "offered"
         /\ Head(call[c].todo) = "tomb" => desk'[call[c].of] = "gone"
         /\ Head(call[c].todo) \in {"self?", "cc?"} => desk' = desk
<1>1. call[c].todo # <<>> /\ desk \in [Calls -> {"none", "scope", "offered", "gone"}]
  BY DEF Publishing, MouthInvariant, MouthTyped
<1>2. CASE Head(call[c].todo) = "tomb"
  <2>1. call[c].of \in Calls
    BY <1>1, <1>2, StepOf, StepTable DEF MouthInvariant, TakenBack
  <2> QED BY <1>1, <1>2, <2>1 DEF Lands, AtStep
<1>3. CASE Head(call[c].todo) \in {"scope", "grant"}
  BY <1>1, <1>3 DEF Lands, AtStep
<1>4. CASE Head(call[c].todo) \notin {"scope", "grant", "tomb"}
  BY <1>1, <1>4 DEF Lands, AtStep
<1> QED BY <1>2, <1>3, <1>4

LEMMA PublishingUnasked ==
  ASSUME MouthInvariant, NEW c \in Calls, Publishing(c)
  PROVE  c \notin signer.asked /\ call[c].todo # <<>>
BY DEF MouthInvariant, Waits, Signing, AtStep, Publishing

LEMMA KeptByPublish ==
  ASSUME MouthInvariant, NEW c \in Calls, Publish(c)
  PROVE  MouthInvariant'
<1> DEFINE s == call[c].todo
           t == Rest(c)
           e == IF t = <<>> THEN "told" ELSE "none"
<1>1. UNCHANGED <<signer, offers>> /\ Publishing(c) /\ Lands(c) /\ GoOn(c, Rest(c))
  BY DEF Publish
<1>2. s # <<>> /\ c \notin signer.asked
  BY <1>1, PublishingUnasked
<1>3. t \in Todos(call[c].tool) /\ e \in CallEnds /\ Moved(c, t, e)
  BY <1>1, <1>2, StepOf, StepTable DEF GoOn, Rest, Moved, CallEnds
<1>4. call[c].tool \in Speaking /\ (e = "told" \/ t \in PastNote) => <<c, "note">> \in landed'
  <2>1. CASE Head(s) = "note"
    BY <1>1, <2>1, LandsDoes
  <2>2. CASE Head(s) \in {"self?", "cc?"}
    BY <1>1, <1>2, <2>2, StepOf, StepTable, LandsDoes DEF MouthInvariant, Spoken
  <2>3. CASE Head(s) \in {"scope", "grant", "tomb"}
    BY <1>2, <2>3, StepOf, StepTable DEF Speaking
  <2> QED BY <1>1, <2>1, <2>2, <2>3 DEF Publishing
<1>5. call[c].tool = "offer" /\ (e = "told" \/ t = <<"record">>) => desk'[c] \in Placed
  <2>1. ASSUME call[c].tool = "offer" PROVE Head(s) \in {"scope", "grant"}
    BY <1>1, <1>2, <2>1, StepOf, StepTable DEF Publishing, Speaking
  <2>2. Head(s) = "scope" => t # <<>> /\ t # <<"record">>
    BY <1>2, StepOf, StepTable DEF Rest
  <2>3. Head(s) = "grant" => desk'[c] = "offered"
    BY <1>1, LandsDoes
  <2> QED BY <2>1, <2>2, <2>3 DEF Placed
<1>6. call[c].tool = "withdraw" /\ (e = "told" \/ t = <<"bump">>) => desk'[call[c].of] = "gone"
  <2>1. ASSUME call[c].tool = "withdraw" PROVE Head(s) = "tomb"
    BY <1>1, <1>2, <2>1, StepOf, StepTable DEF Publishing, Speaking
  <2>2. Head(s) = "tomb" => desk'[call[c].of] = "gone"
    BY <1>1, LandsDoes
  <2> QED BY <2>1, <2>2
<1>7. /\ desk' \in [Calls -> {"none", "scope", "offered", "gone"}] /\ landed \subseteq landed'
      /\ \A d \in Calls \ {c} : desk'[d] \in {desk[d], "gone"}
  BY <1>1, LandsDoes
<1>8. offers[c] = 0 /\ StepFits(c, t, e)
  BY <1>1, <1>2, <1>3, <1>4, <1>5, <1>6, <1>7, StepOf DEF StepFits, MouthInvariant, MouthTyped
<1> QED BY <1>8, StepKeeps

LEMMA KeptByFailure ==
  ASSUME MouthInvariant, NEW c \in Calls, NEW lands \in BOOLEAN, PublishFails(c, lands)
  PROVE  MouthInvariant'
<1>1. UNCHANGED <<signer, offers>> /\ Publishing(c)
  BY DEF PublishFails
<1>2. call[c].todo # <<>> /\ c \notin signer.asked
  BY <1>1, PublishingUnasked
<1>3. /\ desk' \in [Calls -> {"none", "scope", "offered", "gone"}] /\ landed \subseteq landed'
      /\ \A d \in Calls \ {c} : desk'[d] \in {desk[d], "gone"}
      /\ Head(call[c].todo) \in {"self?", "cc?"} => desk' = desk
  BY LandsDoes DEF PublishFails, MouthInvariant, MouthTyped
<1>4. CASE Soft(c)
  <2>1. GoOn(c, Rest(c)) /\ Head(call[c].todo) \in {"self?", "cc?"}
    BY <1>1, <1>4 DEF PublishFails, Publishing, Soft
  <2> QED BY <1>1, <1>2, <1>3, <2>1, QuietStepKeeps DEF MouthInvariant, MouthTyped
<1>5. CASE ~Soft(c)
  <2>1. Break(c)
    BY <1>5 DEF PublishFails
  <2> QED BY <1>1, <1>2, <1>3, <2>1, BreakKeeps DEF MouthInvariant, MouthTyped
<1> QED BY <1>4, <1>5

LEMMA KeptByNote ==
  ASSUME MouthInvariant, NEW c \in Calls, Note(c)
  PROVE  MouthInvariant'
<1>1. UNCHANGED <<signer, desk, landed>> /\ GoOn(c, Rest(c)) /\ call[c].todo # <<>>
  BY DEF Note, AtStep
<1>2. c \notin signer.asked
  BY DEF Note, MouthInvariant, Waits, Signing, AtStep
<1>3. CASE AtStep(c, "record")
  <2>1. call[c].tool = "offer" /\ Rest(c) = <<>> /\ desk[c] \in Placed
    BY <1>3, StepOf, StepTable DEF AtStep, Rest, MouthInvariant, Put
  <2>2. Moved(c, <<>>, "told") /\ <<>> \in Todos(call[c].tool)
    BY <1>1, <2>1, StepOf DEF GoOn, Moved
  <2>3. offers' = [offers EXCEPT ![c] = 1]
    BY <1>3 DEF Note, AtStep
  <2>4. StepFits(c, <<>>, "told")
    BY <1>1, <1>2, <2>1, <2>2, <2>3 DEF StepFits, MouthInvariant, MouthTyped, Speaking, CallEnds
  <2> QED BY <2>4, StepKeeps
<1>4. CASE AtStep(c, "bump")
  <2>1. call[c].tool = "withdraw" /\ Rest(c) = <<>> /\ call[c].todo = <<"bump">>
    BY <1>4, StepOf, StepTable DEF AtStep, Rest
  <2>2. /\ call[c].of \in Calls \ {c} /\ desk[call[c].of] = "gone"
        /\ call[call[c].of].tool = "offer" /\ call[call[c].of].todo = <<>>
    BY <2>1 DEF MouthInvariant, TakenBack
  <2>3. Moved(c, <<>>, "told") /\ <<>> \in Todos(call[c].tool) /\ offers[c] = 0
    BY <1>1, <2>1, StepOf DEF GoOn, Moved
  <2>4. offers' = [offers EXCEPT ![call[c].of] = @ + 1]
    BY <1>4 DEF Note, AtStep
  <2>5. StepFits(c, <<>>, "told")
    BY <1>1, <1>2, <2>1, <2>2, <2>3, <2>4 DEF StepFits, MouthInvariant, MouthTyped, Speaking, CallEnds
  <2> QED BY <2>5, StepKeeps
<1> QED BY <1>3, <1>4 DEF Note

-----------------------------------------------------------------------------
\* Calls that begin, and the service starting again.

\* A call that begins, or is answered at once: the others go on.
BeginFits(c, new) ==
  /\ call[c] = Unborn /\ call' = [call EXCEPT ![c] = new]
  /\ new \in CallRecords /\ new.tool # "none" /\ new.todo \in Todos(new.tool)
  /\ new.end = "told" => new.todo = <<>>
  /\ new.tool \in Speaking \cup {"offer"} => new.end # "told" /\ new.todo \notin PastNote \cup {<<"record">>}
  /\ new.tool = "withdraw" =>
       /\ new.of \in Calls \ {c} /\ call[new.of].tool = "offer" /\ call[new.of].todo = <<>>
       /\ new.todo # <<"bump">> /\ (new.end = "told" => desk[new.of] = "gone")
  /\ UNCHANGED <<signer, desk, offers, landed>>

LEMMA BeginKeeps ==
  ASSUME MouthInvariant, NEW c \in Calls, NEW new, BeginFits(c, new)
  PROVE  MouthInvariant'
<1> USE DEF BeginFits
<1>1. call'[c] = new /\ call' \in [Calls -> CallRecords] /\ \A d \in Calls \ {c} : call'[d] = call[d]
  BY DEF MouthInvariant, MouthTyped
<1>2. call[c].tool = "none" /\ call[c].todo = <<>> /\ offers[c] = 0 /\ c \notin signer.asked
  BY DEF Unborn, MouthInvariant, MouthTyped, Put, Waits, Signing, AtStep
<1>3. MouthTyped'
  BY <1>1 DEF MouthInvariant, MouthTyped
<1>4. Waits'
  BY <1>1, <1>2 DEF MouthInvariant, MouthTyped, Waits, Signing, AtStep
<1>5. Spoken(c)' /\ Put(c)' /\ TakenBack(c)'
  <2>1. Spoken(c)'
    BY <1>1 DEF Spoken
  <2>2. Put(c)'
    <3>1. offers'[c] = 0 /\ (new.tool = "offer" => new.end # "told" /\ new.todo # <<"record">>)
      BY <1>2
    <3> HIDE DEF BeginFits
    <3> QED BY <1>1, <3>1 DEF Put
  <2>3. new.tool = "withdraw" => new.of \in Calls \ {c} /\ call'[new.of] = call[new.of]
    BY <1>1
  <2>4. TakenBack(c)'
    BY <1>1, <2>3 DEF TakenBack
  <2> QED BY <2>1, <2>2, <2>4
<1>6. ASSUME NEW d \in Calls \ {c} PROVE Spoken(d)' /\ Put(d)' /\ TakenBack(d)'
  <2>1. call'[d] = call[d] /\ Spoken(d) /\ Put(d) /\ TakenBack(d)
    BY <1>1 DEF MouthInvariant
  <2>2. ASSUME call[d].tool = "withdraw" PROVE call[d].of # c /\ call'[call[d].of] = call[call[d].of]
    BY <1>1, <1>2, <2>1, <2>2 DEF TakenBack
  <2> QED BY <2>1, <2>2 DEF Spoken, Put, TakenBack
<1> QED BY <1>3, <1>4, <1>5, <1>6 DEF MouthInvariant

LEMMA StepsFit ==
  ASSUME NEW tool \in Tools
  PROVE  Steps(tool) \in Todos(tool) /\ Steps(tool) \notin PastNote \cup {<<>>, <<"record">>, <<"bump">>}
<1>1. CASE tool = "post"
  BY <1>1 DEF Steps, Todos, NoteSteps, PastNote
<1>2. CASE tool = "dm"
  BY <1>2 DEF Steps, Todos, DmSteps, PastNote
<1>3. CASE tool = "offer"
  BY <1>3 DEF Steps, Todos, OfferSteps, PastNote
<1>4. CASE tool = "withdraw"
  BY <1>4 DEF Steps, Todos, WithdrawSteps, PastNote
<1>5. CASE tool = "request"
  BY <1>5 DEF Steps, Todos, RequestSteps, PastNote
<1> QED BY <1>1, <1>2, <1>3, <1>4, <1>5 DEF Tools

LEMMA KeptByCall ==
  ASSUME MouthInvariant, NEW c \in Calls, NEW tool \in Tools, NEW a, Call(c, tool, a)
  PROVE  MouthInvariant'
<1> DEFINE does == IF Decide(tool, a) = "draft" THEN "offer" ELSE tool
           barred == Decide(tool, a) = "refuse" \/ (Decide(tool, a) = "draft" /\ ~HasDesk)
           todo == IF barred THEN <<>> ELSE Steps(does)
           new == [tool |-> does, of |-> NoCall, todo |-> todo, end |-> IF barred THEN "error" ELSE "none"]
<1>0. does \in Tools \ {"withdraw"}
  BY DEF Call, Tools
<1>1. call[c] = Unborn /\ UNCHANGED <<signer, desk, offers, landed>> /\ call' = [call EXCEPT ![c] = new]
  BY DEF Call
<1> HIDE DEF does, barred
<1>2. todo \in Todos(does) /\ todo \notin PastNote \cup {<<"record">>, <<"bump">>}
  BY <1>0, StepsFit, NothingLeft DEF PastNote
<1>3. new \in CallRecords
  BY <1>0, <1>2 DEF CallRecords, CallEnds
<1> HIDE DEF todo
<1>4. BeginFits(c, new)
  BY <1>0, <1>1, <1>2, <1>3 DEF BeginFits, Tools
<1> QED BY <1>4, BeginKeeps

LEMMA KeptByWithdraw ==
  ASSUME MouthInvariant, NEW c \in Calls, NEW d \in Calls, WithdrawOffer(c, d)
  PROVE  MouthInvariant'
<1> DEFINE todo == IF offers[d] > 1 THEN <<>> ELSE Steps("withdraw")
           new == [tool |-> "withdraw", of |-> d, todo |-> todo, end |-> IF offers[d] > 1 THEN "told" ELSE "none"]
<1>1. c # d /\ offers[d] > 0 /\ call' = [call EXCEPT ![c] = new]
  BY DEF WithdrawOffer
<1>2. call[d].tool = "offer" /\ call[d].todo = <<>> /\ (offers[d] > 1 => desk[d] = "gone")
  BY <1>1 DEF MouthInvariant, Put
<1>3. todo \in Todos("withdraw") /\ todo # <<"bump">>
  BY StepsFit, NothingLeft DEF Tools
<1>4. new \in CallRecords
  BY <1>3 DEF CallRecords, CallEnds, Tools
<1>5. BeginFits(c, new)
  BY <1>1, <1>2, <1>3, <1>4 DEF BeginFits, WithdrawOffer, Speaking
<1> QED BY <1>5, BeginKeeps

\* Calls under way end unanswered, and the ledger of offers is forgotten.
LEMMA KeptByRestart == ASSUME MouthInvariant, ServiceRestarts PROVE MouthInvariant'
<1>1. /\ offers' = [c \in Calls |-> 0] /\ UNCHANGED <<desk, landed>>
      /\ signer' = [connect |-> "none", heard |-> TRUE, asked |-> {}]
      /\ call' = [c \in Calls |-> IF call[c].todo # <<>> THEN [call[c] EXCEPT !.todo = <<>>, !.end = "lost"] ELSE call[c]]
  BY DEF ServiceRestarts
<1>2. ASSUME NEW c \in Calls
      PROVE  /\ call'[c] \in CallRecords /\ call'[c].tool = call[c].tool /\ call'[c].of = call[c].of
             /\ call'[c].todo = <<>> /\ (call'[c].end = "told" => call[c].end = "told")
             /\ <<>> \in Todos(call[c].tool)
  <2>1. call[c] \in CallRecords
    BY DEF MouthInvariant, MouthTyped
  <2>2. <<>> \in UNION {Todos(t) : t \in Tools \cup {"none"}} /\ <<>> \in Todos(call[c].tool)
    BY <2>1, NothingLeft DEF CallRecords
  <2> QED BY <1>1, <2>1, <2>2 DEF CallRecords, CallEnds
<1>3. MouthTyped' /\ Waits'
  BY <1>1, <1>2 DEF MouthInvariant, MouthTyped, Waits
<1>4. <<>> \notin PastNote /\ <<>> # <<"record">> /\ <<>> # <<"bump">>
  BY DEF PastNote
<1>5. ASSUME NEW c \in Calls PROVE Spoken(c)' /\ Put(c)' /\ TakenBack(c)'
  <2>1. Spoken(c) /\ Put(c) /\ TakenBack(c) /\ offers'[c] = 0 /\ desk' = desk /\ landed' = landed
    BY <1>1 DEF MouthInvariant
  <2>2. Spoken(c)'
    BY <1>2, <1>4, <2>1 DEF Spoken
  <2>3. Put(c)'
    BY <1>2, <1>4, <2>1 DEF Put
  <2>4. call[c].tool = "withdraw" =>
          call[c].of \in Calls /\ call'[call[c].of].tool = call[call[c].of].tool /\ call'[call[c].of].todo = <<>>
    BY <1>2, <2>1 DEF TakenBack
  <2>5. TakenBack(c)'
    BY <1>2, <1>4, <2>1, <2>4 DEF TakenBack
  <2> QED BY <2>2, <2>3, <2>5
<1> QED BY <1>3, <1>5 DEF MouthInvariant

\* The connection to the bunker and the grants held decide only where calls go.
LEMMA KeptBySetting ==
  ASSUME MouthInvariant,
         ConnectEnds \/ Deaf \/ (\E hs \in SUBSET Delegators : Regrant(hs)) \/ UNCHANGED mouthVars
  PROVE  MouthInvariant'
<1>1. UNCHANGED <<call, desk, offers, landed>> /\ DOMAIN signer' = {"connect", "heard", "asked"} /\ signer'.asked = signer.asked
  BY DEF ConnectEnds, Deaf, Regrant, mouthVars, MouthInvariant, MouthTyped
<1> QED BY <1>1 DEF MouthInvariant, MouthTyped, Waits, Signing, AtStep, Spoken, Put, TakenBack

LEMMA MouthInvariantKept == MouthInvariant /\ [MouthNext]_mouthVars => MouthInvariant'
<1> SUFFICES ASSUME MouthInvariant, [MouthNext]_mouthVars PROVE MouthInvariant'
  OBVIOUS
<1> QED
  BY KeptByCall, KeptByWithdraw, KeptByAskSigner, KeptByAnswer, KeptByPublish, KeptByLocal, KeptByNote,
     KeptByFailure, KeptByRestart, KeptBySetting DEF MouthNext

\* What a caller of the chat and draft tools is told has been done, is done, for every
\* number of calls and faults: the note is on a relay, the offer was put on the desk,
\* the withdrawn offer can no longer be read there, whatever publishes failed on the
\* way, whichever withdrawals overlap and whenever the service restarts (publish,
\* withdraw).
THEOREM Telling == MouthSpec => []ToldIsDone
BY MouthInvariantInit, MouthInvariantKept, ToldIsDoneHolds, PTL DEF MouthSpec

-----------------------------------------------------------------------------
(***************************************************************************)
(* WakeWatch: the keyed watcher counts each relay's report once.            *)
(***************************************************************************)

\* The relays whose stored policy the running ear has read to its end, and all of it.
Reported == {r \in Relays : link[r] = "eose"}
Union == UNION {policy[r] : r \in Relays}

KeyedFields == {"saw", "done", "ready", "held", "pending", "cooling", "queued", "covered", "wrong", "excused"}
EarShapes ==
  /\ DOMAIN link = Relays /\ DOMAIN keyed = KeyedFields /\ keyed.done \in Nat
  /\ ~up => Reported = {}
  /\ ear # "keyed" => ~keyed.wrong

\* What is known of policy is on the relays, all of it that a reporting relay has.
PolicyHeard ==
  /\ keyed.saw \subseteq Union
  /\ up => \A r \in Reported : policy[r] \subseteq keyed.saw

\* Unless excused, each report is counted once until all have come.
ReportsCounted ==
  ~keyed.excused =>
    /\ ~keyed.wrong
    /\ up /\ ~keyed.ready => keyed.done = Cardinality(Reported)
    /\ up /\ keyed.ready => keyed.saw = Union

EarInvariant == EarShapes /\ (ear = "keyed" => PolicyHeard /\ ReportsCounted)

-----------------------------------------------------------------------------
LEMMA EarInvariantInit == WatchInit => EarInvariant
BY FS_EmptySet DEF WatchInit, EarInvariant, EarShapes, PolicyHeard, ReportsCounted, Reported, FreshKeyed, KeyedFields

\* What the judging of arrivals leaves alone, and when it cannot go wrong.
LEMMA EvaluateKeeps ==
  ASSUME NEW k, NEW es, DOMAIN k = KeyedFields
  PROVE  LET j == Evaluate(k, es) IN
         /\ DOMAIN j = KeyedFields
         /\ j.saw = k.saw /\ j.done = k.done /\ j.ready = k.ready /\ j.excused = k.excused
         /\ (k.saw = Union /\ ~k.wrong) => ~j.wrong
BY DEF Evaluate, InUnion, Union, KeyedFields

LEMMA DrainKeeps ==
  ASSUME NEW k, DOMAIN k = KeyedFields
  PROVE  LET j == Drain(k) IN
         /\ DOMAIN j = KeyedFields
         /\ j.saw = k.saw /\ j.done = k.done /\ j.ready /\ j.excused = k.excused
         /\ (k.saw = Union /\ ~k.wrong) => ~j.wrong
BY EvaluateKeeps DEF Drain, KeyedFields

\* A keyed ear that only moves on in what it was judged to wake.
LEMMA EarKept ==
  ASSUME EarInvariant, UNCHANGED <<ear, link, policy, up>>,
         DOMAIN keyed' = KeyedFields, keyed'.saw = keyed.saw, keyed'.done = keyed.done,
         keyed'.ready = keyed.ready, keyed'.excused = keyed.excused, keyed'.wrong = keyed.wrong
  PROVE  EarInvariant'
BY DEF EarInvariant, EarShapes, PolicyHeard, ReportsCounted, Reported, Union


\* Sockets that open, ask again or end: fewer have reported, and no fewer of the keyed ear's.
LEMMA KeptBySockets ==
  ASSUME EarInvariant, UNCHANGED <<ear, policy, up, keyed>>, DOMAIN link' = Relays,
         \A r \in Relays : link'[r] = "eose" => link[r] = "eose",
         ear = "keyed" => \A r \in Relays : link[r] = "eose" => link'[r] = "eose"
  PROVE  EarInvariant'
<1>1. Reported' \subseteq Reported /\ (ear = "keyed" => Reported' = Reported)
  BY DEF Reported
<1> QED BY <1>1 DEF EarInvariant, EarShapes, PolicyHeard, ReportsCounted, Union

LEMMA KeptBySocket ==
  ASSUME EarInvariant, NEW r \in Relays, Socket(r)
  PROVE  EarInvariant'
<1>1. UNCHANGED <<ear, policy, up, keyed>>
  BY DEF Socket, OpenSocket, Login, NoPong, Refresh, Follow
<1>2. \E s \in {"open", "login", "down", link[r]} : link' = [link EXCEPT ![r] = s]
  BY DEF Socket, OpenSocket, Login, NoPong, Refresh, Follow, EarInvariant, EarShapes
<1>3. ear = "keyed" => link[r] # "eose"
  BY DEF Socket, OpenSocket, Login, NoPong, Refresh, Follow
<1>4. /\ DOMAIN link' = Relays
      /\ \A q \in Relays : link'[q] = "eose" => link[q] = "eose"
      /\ ear = "keyed" => \A q \in Relays : link[q] = "eose" => link'[q] = "eose"
  BY <1>2, <1>3 DEF EarInvariant, EarShapes
<1> QED BY <1>1, <1>4, KeptBySockets

LEMMA KeptByStart == ASSUME EarInvariant, StartEar PROVE EarInvariant'
<1>1. UNCHANGED <<ear, link, policy>> /\ ~up /\ up' /\ keyed' = FreshKeyed(keyed)
  BY DEF StartEar, net
<1>2. Reported' = {} /\ Reported = {}
  BY <1>1 DEF EarInvariant, EarShapes, Reported
<1> QED BY <1>1, <1>2, FS_EmptySet DEF EarInvariant, EarShapes, PolicyHeard, ReportsCounted, FreshKeyed, KeyedFields

LEMMA KeptByStop == ASSUME EarInvariant, StopEar PROVE EarInvariant'
<1>1. UNCHANGED <<ear, policy, keyed>> /\ ~up' /\ link' = [r \in Relays |-> "down"]
  BY DEF StopEar
<1> QED BY <1>1 DEF EarInvariant, EarShapes, PolicyHeard, ReportsCounted, Reported, Union

\* A socket lost before policy settled is an excuse.
LEMMA KeptByLoss ==
  ASSUME EarInvariant, NEW r \in Relays, LoseSocket(r)
  PROVE  EarInvariant'
<1>1. UNCHANGED <<ear, policy, up>> /\ keyed' = [keyed EXCEPT !.excused = @ \/ ~keyed.ready]
  BY DEF LoseSocket
<1>2. DOMAIN link' = Relays /\ Reported' \subseteq Reported
  BY DEF LoseSocket, EarInvariant, EarShapes, Reported
<1> QED BY <1>1, <1>2 DEF EarInvariant, EarShapes, PolicyHeard, ReportsCounted, Union, KeyedFields

LEMMA KeptByPolicy ==
  ASSUME EarInvariant, NEW r \in Relays, HearPolicy(r)
  PROVE  EarInvariant'
<1>1. UNCHANGED <<ear, link, policy, up>>
  BY DEF HearPolicy, net
<1>2. PICK p \in policy[r] \ keyed.saw : keyed' = [keyed EXCEPT !.saw = @ \cup {p}]
  BY DEF HearPolicy
<1>3. p \in Union
  BY <1>2 DEF Union
<1> QED BY <1>1, <1>2, <1>3 DEF EarInvariant, EarShapes, PolicyHeard, ReportsCounted, Union, Reported, KeyedFields

\* The grace period is an excuse; the rest follows what was judged.
LEMMA KeptByWaking == ASSUME EarInvariant, Waking PROVE EarInvariant'
<1>1. CASE Grace
  <2>1. UNCHANGED <<ear, link, policy, up>> /\ ear = "keyed" /\ keyed' = [Drain(keyed) EXCEPT !.excused = TRUE]
    BY <1>1 DEF Grace, net
  <2>2. DOMAIN keyed' = KeyedFields /\ keyed'.saw = keyed.saw /\ keyed'.done = keyed.done /\ keyed'.excused
    BY <2>1, DrainKeeps DEF EarInvariant, EarShapes, KeyedFields
  <2> QED BY <2>1, <2>2 DEF EarInvariant, EarShapes, PolicyHeard, ReportsCounted, Union, Reported
<1>2. CASE Wake \/ CooldownEnds \/ DrainQueue
  <2>1. /\ UNCHANGED <<ear, link, policy, up>> /\ DOMAIN keyed' = KeyedFields
        /\ keyed'.saw = keyed.saw /\ keyed'.done = keyed.done /\ keyed'.ready = keyed.ready
        /\ keyed'.excused = keyed.excused /\ keyed'.wrong = keyed.wrong
    BY <1>2 DEF Wake, CooldownEnds, DrainQueue, net, EarInvariant, EarShapes, KeyedFields
  <2> QED BY <2>1, EarKept
<1> QED BY <1>1, <1>2 DEF Waking

\* An arrival is judged once all policy is in, or held; one that finds no room is an excuse.
LEMMA KeptByHear ==
  ASSUME EarInvariant, NEW r \in Relays, NEW e \in Events, Hear(r, e)
  PROVE  EarInvariant'
<1>1. UNCHANGED <<ear, link, policy, up>> /\ up
  BY DEF Hear, LiveSocket
<1>2. CASE ear # "keyed"
  <2>1. keyed' = keyed
    BY <1>2 DEF Hear, KeylessHear, BuzzHear
  <2> QED BY <1>1, <2>1, EarKept DEF EarInvariant, EarShapes
<1>3. CASE ear = "keyed" /\ keyed.ready
  <2>1. keyed' = Evaluate(keyed, <<e>>)
    BY <1>3 DEF Hear, KeyedHear
  <2> QED BY <1>1, <1>3, <2>1, EvaluateKeeps DEF EarInvariant, EarShapes, PolicyHeard, ReportsCounted, Union, Reported
<1>4. CASE ear = "keyed" /\ ~keyed.ready /\ Len(keyed.held) < HeldCap
  <2>1. keyed' = [keyed EXCEPT !.held = Append(@, e)]
    BY <1>4 DEF Hear, KeyedHear
  <2> QED BY <1>1, <2>1, EarKept DEF EarInvariant, EarShapes, KeyedFields
<1>5. CASE ear = "keyed" /\ ~keyed.ready /\ ~(Len(keyed.held) < HeldCap)
  <2>1. keyed' = [Drain(keyed) EXCEPT !.excused = TRUE]
    BY <1>5 DEF Hear, KeyedHear
  <2>2. DOMAIN keyed' = KeyedFields /\ keyed'.saw = keyed.saw /\ keyed'.done = keyed.done /\ keyed'.excused
    BY <2>1, DrainKeeps DEF EarInvariant, EarShapes, KeyedFields
  <2> QED BY <1>1, <1>5, <2>2 DEF EarInvariant, EarShapes, PolicyHeard, ReportsCounted, Union, Reported
<1> QED BY <1>2, <1>3, <1>4, <1>5

\* The report that settles policy is the last one: all relays' policy has been read.
LEMMA KeptByEndOfStored ==
  ASSUME EarInvariant, NEW r \in Relays, EndOfStored(r)
  PROVE  EarInvariant'
<1>1. UNCHANGED <<ear, policy, up>> /\ up /\ link[r] = "open" /\ link' = [link EXCEPT ![r] = "eose"]
  BY DEF EndOfStored, LiveSocket
<1>2. DOMAIN link' = Relays /\ Reported' = Reported \cup {r} /\ r \notin Reported
  BY <1>1 DEF EarInvariant, EarShapes, Reported
<1>3. CASE ear # "keyed"
  <2>1. keyed' = keyed
    BY <1>3 DEF EndOfStored
  <2> QED BY <1>1, <1>2, <1>3, <2>1 DEF EarInvariant, EarShapes
<1>4. CASE ear = "keyed"
  <2> DEFINE k == [keyed EXCEPT !.done = @ + 1]
  <2>1. policy[r] \subseteq keyed.saw /\ keyed' = IF ~k.ready /\ Settled(k) THEN Drain(k) ELSE k
    BY <1>4 DEF EndOfStored
  <2>2. /\ DOMAIN k = KeyedFields /\ k.done = keyed.done + 1 /\ k.saw = keyed.saw
        /\ k.ready = keyed.ready /\ k.excused = keyed.excused /\ k.wrong = keyed.wrong
    BY DEF EarInvariant, EarShapes, KeyedFields
  <2> HIDE DEF k
  <2>3. /\ DOMAIN keyed' = KeyedFields /\ keyed'.done \in Nat /\ keyed'.saw = keyed.saw
        /\ keyed'.excused = keyed.excused
    BY <2>1, <2>2, DrainKeeps DEF EarInvariant, EarShapes
  <2>4. \A q \in Reported' : policy[q] \subseteq keyed.saw
    BY <1>1, <1>2, <1>4, <2>1 DEF EarInvariant, PolicyHeard
  <2>5. EarShapes' /\ PolicyHeard'
    BY <1>1, <1>2, <1>4, <2>3, <2>4 DEF EarInvariant, EarShapes, PolicyHeard, Union
  <2>6. ASSUME ~keyed.excused, ~keyed.ready PROVE k.done = Cardinality(Reported')
    <3>1. IsFiniteSet(Reported)
      BY FS_Subset, EarsAreKnown DEF Reported
    <3>2. Cardinality(Reported') = Cardinality(Reported) + 1
      BY <1>2, <3>1, FS_AddElement
    <3> QED BY <1>1, <1>4, <2>2, <2>6, <3>2 DEF EarInvariant, ReportsCounted
  <2>7. ASSUME ~keyed.excused, ~keyed.ready, Settled(k) PROVE k.saw = Union
    <3>1. Reported' \in SUBSET Relays
      BY <1>2 DEF Reported
    <3>2. Reported' = Relays
      BY <2>6, <2>7, <3>1, FS_Subset, FS_CardinalityType, EarsAreKnown DEF Settled
    <3> QED BY <1>4, <2>2, <2>4, <3>2 DEF EarInvariant, PolicyHeard, Union
  <2>8. ReportsCounted'
    <3>1. CASE ~k.ready /\ Settled(k)
      BY <1>1, <1>4, <2>1, <2>2, <2>7, <3>1, DrainKeeps DEF EarInvariant, ReportsCounted, Union
    <3>2. CASE ~(~k.ready /\ Settled(k))
      BY <1>1, <1>4, <2>1, <2>2, <2>6, <3>2 DEF EarInvariant, ReportsCounted, Union
    <3> QED BY <3>1, <3>2
  <2> QED BY <1>1, <1>4, <2>5, <2>8 DEF EarInvariant
<1> QED BY <1>3, <1>4

LEMMA EarInvariantKept == EarInvariant /\ [WatchNext]_watchVars => EarInvariant'
<1> SUFFICES ASSUME EarInvariant, [WatchNext]_watchVars PROVE EarInvariant'
  OBVIOUS
<1>1. CASE World \/ EarTick \/ UNCHANGED watchVars
  <2>1. UNCHANGED <<ear, link, policy, up, keyed>>
    BY <1>1 DEF World, OpenDM, Post, EarTick, watchVars, net
  <2> QED BY <2>1, EarKept DEF EarInvariant, EarShapes
<1>2. ASSUME NEW r \in Relays, Hearing(r) PROVE EarInvariant'
  BY <1>2, KeptByPolicy, KeptByEndOfStored, KeptByHear DEF Hearing
<1> QED
  BY <1>1, <1>2, KeptByStart, KeptByStop, KeptByWaking, KeptBySocket, KeptByLoss DEF WatchNext

\* The arrivals the keyed watcher held are judged against the union of what all
\* relays hold of the grant, however many relays there are and in whatever order
\* they report, unless the grace period ran out, the buffer filled or a socket was
\* lost before policy settled (policyReady, notePolicyRelay).
THEOREM Judging == WatchSpec => []PolicyIsUnion
<1>1. EarInvariant => PolicyIsUnion
  BY DEF EarInvariant, EarShapes, ReportsCounted, PolicyIsUnion
<1> QED BY <1>1, EarInvariantInit, EarInvariantKept, PTL DEF WatchSpec

-----------------------------------------------------------------------------
(***************************************************************************)
(* GrantFold: the fold of the answered events, oldest first, holds for each *)
(* key what its newest grants give by definition, by induction over the     *)
(* events.                                                                  *)
(***************************************************************************)

-----------------------------------------------------------------------------
\* Induction over numbers, stated for sets of them.

LEMMA LeastNumber ==
  ASSUME NEW S, S \subseteq Nat, S # {}
  PROVE  \E x \in S : \A y \in S : x <= y
<1> DEFINE R == OpToRel(<, Nat)
<1>1. IsWellFoundedOn(R, Nat)
  BY NatLessThanWellFounded
<1>2. \A x, y \in Nat : x < y => <<x, y>> \in R
  BY DEF OpToRel
<1> HIDE DEF R
<1>3. PICK x \in S : \A y \in S : ~ (<<y, x>> \in R)
  BY <1>1, WFMin
<1>4. ASSUME NEW y \in S PROVE x <= y
  <2>1. ~ (y < x)
    BY <1>2, <1>3
  <2> QED BY <2>1
<1> QED BY <1>4

LEMMA AllNumbers ==
  ASSUME NEW S, 0 \in S, \A n \in Nat : n \in S => n + 1 \in S
  PROVE  Nat \subseteq S
<1> SUFFICES ASSUME Nat \ S # {} PROVE FALSE
  OBVIOUS
<1>1. PICK x \in Nat \ S : \A y \in Nat \ S : x <= y
  BY LeastNumber
<1>2. x - 1 \in Nat /\ x - 1 \notin Nat \ S
  BY <1>1
<1> QED BY <1>1, <1>2

-----------------------------------------------------------------------------
AllCaps == {"task", "task-relay", "shadow"}
Policy == [by : Grantors, to : Senders, cap : AllCaps, of : Nat]

\* A revocation comes after the grant it ends; grants alone expire.
FoldInvariant ==
  /\ issued \in Seq(Policy)
  /\ \A j \in DOMAIN issued : issued[j].of < j
  /\ stored \in [GrantRelays -> SUBSET (DOMAIN issued)]
  /\ expired \subseteq GrantsMade

\* The grant in force of its kind, by definition, or none.
InForce(E, k, c) == {i \in Newest(E, k, c) : ~Ended(E, i)}
Standing(E, k, c) == IF InForce(E, k, c) = {} THEN 0 ELSE CHOOSE i \in InForce(E, k, c) : TRUE
Stands(E) ==
  [live |-> [k \in Senders |-> [c \in Caps |-> Standing(E, k, c)]],
   voices |-> [k \in Senders |-> Standing(E, k, "shadow")]]

LEMMA OneNewest ==
  ASSUME NEW E, E \subseteq Nat \ {0}, NEW k, NEW c
  PROVE  /\ \A i, j \in Newest(E, k, c) : i = j
         /\ Standing(E, k, c) \in E \cup {0}
         /\ Standing(E, k, c) = 0 <=> InForce(E, k, c) = {}
         /\ \A i \in InForce(E, k, c) : Standing(E, k, c) = i
<1>1. \A i, j \in Newest(E, k, c) : i = j
  BY DEF Newest, OfKind
<1>2. InForce(E, k, c) \subseteq Newest(E, k, c) /\ Newest(E, k, c) \subseteq E
  BY DEF InForce, Newest, OfKind
<1>3. InForce(E, k, c) # {} => Standing(E, k, c) \in InForce(E, k, c)
  BY DEF Standing
<1>4. InForce(E, k, c) = {} => Standing(E, k, c) = 0
  BY DEF Standing
<1> QED BY <1>1, <1>2, <1>3, <1>4

LEMMA SameInForce ==
  ASSUME NEW E, E \subseteq Nat \ {0}, NEW F, F \subseteq Nat \ {0}, NEW k, NEW c, InForce(E, k, c) = InForce(F, k, c)
  PROVE  Standing(E, k, c) = Standing(F, k, c)
<1>1. CASE InForce(E, k, c) = {}
  BY <1>1, OneNewest
<1>2. ASSUME NEW i \in InForce(E, k, c) PROVE Standing(E, k, c) = i /\ Standing(F, k, c) = i
  BY <1>2, OneNewest
<1> QED BY <1>1, <1>2

LEMMA EntryKnown ==
  ASSUME FoldInvariant, NEW n \in DOMAIN issued
  PROVE  /\ DOMAIN issued = 1 .. Len(issued) /\ Len(issued) \in Nat /\ n \in Nat \ {0}
         /\ issued[n] \in Policy /\ issued[n].of \in Nat /\ issued[n].of < n
<1>1. issued \in Seq(Policy) /\ issued[n].of < n
  BY DEF FoldInvariant
<1>2. DOMAIN issued = 1 .. Len(issued) /\ Len(issued) \in Nat /\ issued[n] \in Policy
  BY <1>1
<1> QED BY <1>1, <1>2 DEF Policy

LEMMA EarlierOnes ==
  ASSUME FoldInvariant, NEW n \in DOMAIN issued, NEW P, P \subseteq 1 .. (n - 1)
  PROVE  /\ P \subseteq Nat \ {0} /\ n \notin P /\ n \in Nat \ {0}
         /\ \A i \in P : i < n
<1>1. n \in Nat \ {0}
  BY EntryKnown
<1>2. ASSUME NEW i \in P PROVE i \in Nat \ {0} /\ i < n
  <2>1. i \in 1 .. (n - 1)
    OBVIOUS
  <2> QED BY <1>1, <2>1
<1>3. P \subseteq Nat \ {0}
  BY <1>2
<1>4. n \notin P
  BY <1>1, <1>2
<1> QED BY <1>1, <1>2, <1>3, <1>4

\* A revocation ends the grant it names, and starts nothing.
LEMMA AfterRevocation ==
  ASSUME FoldInvariant, NEW n \in DOMAIN issued, NEW P, P \subseteq 1 .. (n - 1),
         issued[n].of # 0, NEW k, NEW c
  PROVE  Standing(P \cup {n}, k, c) = IF Standing(P, k, c) = issued[n].of THEN 0 ELSE Standing(P, k, c)
<1> DEFINE Q == P \cup {n}
           o == issued[n].of
<1>0. n \in Nat \ {0} /\ issued[n].of \in Nat \ {0} /\ P \subseteq Nat \ {0} /\ Q \subseteq Nat \ {0}
  <2>1. n \in Nat \ {0} /\ issued[n].of \in Nat
    BY EntryKnown
  <2>2. P \subseteq Nat \ {0}
    BY EarlierOnes
  <2> QED BY <2>1, <2>2
<1>1. OfKind(Q, k, c) = OfKind(P, k, c)
  BY <1>0 DEF OfKind, Counts
<1>2. Newest(Q, k, c) = Newest(P, k, c)
  BY <1>1 DEF Newest
<1>3. \A i \in P : Ended(Q, i) <=> Ended(P, i) \/ i = o
  BY DEF Ended
<1>4. Newest(P, k, c) \subseteq P
  BY DEF Newest, OfKind
<1>5. InForce(Q, k, c) = InForce(P, k, c) \ {o}
  BY <1>2, <1>3, <1>4 DEF InForce
<1>6. CASE InForce(P, k, c) \subseteq {o}
  <2>1. InForce(Q, k, c) = {} /\ Standing(P, k, c) \in {0, o}
    BY <1>0, <1>5, <1>6, OneNewest
  <2> QED BY <1>0, <2>1, OneNewest
<1>7. ASSUME NEW i \in InForce(P, k, c), i # o
      PROVE  Standing(Q, k, c) = i /\ Standing(P, k, c) = i
  BY <1>0, <1>5, <1>7, OneNewest
<1> QED BY <1>6, <1>7

\* Who names oneself as one's voice changes nothing.
LEMMA AfterOwnVoice ==
  ASSUME FoldInvariant, NEW n \in DOMAIN issued, NEW P, P \subseteq 1 .. (n - 1),
         issued[n].of = 0, ~Counts(n), NEW k, NEW c
  PROVE  Standing(P \cup {n}, k, c) = Standing(P, k, c)
<1> DEFINE Q == P \cup {n}
<1>0. n \in Nat \ {0} /\ P \subseteq Nat \ {0} /\ Q \subseteq Nat \ {0}
  <2>1. n \in Nat \ {0}
    BY EntryKnown
  <2>2. P \subseteq Nat \ {0}
    BY EarlierOnes
  <2> QED BY <2>1, <2>2
<1>1. Newest(Q, k, c) = Newest(P, k, c) /\ Newest(P, k, c) \subseteq P
  BY DEF Newest, OfKind
<1>2. \A i \in P : Ended(Q, i) <=> Ended(P, i)
  BY <1>0 DEF Ended
<1>3. InForce(Q, k, c) = InForce(P, k, c)
  BY <1>1, <1>2 DEF InForce
<1> QED BY <1>0, <1>3, SameInForce

\* A grant is the newest of its kind, and in force unless it is past its expiration.
LEMMA AfterGrant ==
  ASSUME FoldInvariant, NEW n \in DOMAIN issued, NEW P, P \subseteq 1 .. (n - 1),
         Counts(n), NEW k, NEW c
  PROVE  Standing(P \cup {n}, k, c) =
           IF k = issued[n].to /\ c = issued[n].cap THEN (IF n \in expired THEN 0 ELSE n) ELSE Standing(P, k, c)
<1> DEFINE Q == P \cup {n}
<1>0. n \in Nat \ {0} /\ P \subseteq Nat \ {0} /\ Q \subseteq Nat \ {0} /\ \A i \in P : i < n
  <2>1. P \subseteq Nat \ {0} /\ n \in Nat \ {0} /\ \A i \in P : i < n
    BY EarlierOnes
  <2> QED BY <2>1
<1>1. issued[n].of = 0
  BY DEF Counts
<1>2. CASE k = issued[n].to /\ c = issued[n].cap
  <2>1. n \in OfKind(Q, k, c) /\ OfKind(Q, k, c) \subseteq Q
    BY <1>2 DEF OfKind
  <2>2. Newest(Q, k, c) = {n}
    BY <1>0, <2>1 DEF Newest
  <2>3. \A j \in Q : issued[j].of # n
    <3>1. ASSUME NEW j \in Q PROVE issued[j].of # n
      <4>1. j \in DOMAIN issued /\ j <= n
        BY <1>0, EntryKnown
      <4> QED BY <1>0, <4>1, EntryKnown
    <3> QED BY <3>1
  <2>4. Ended(Q, n) <=> n \in expired
    BY <2>3 DEF Ended
  <2>5. InForce(Q, k, c) = IF n \in expired THEN {} ELSE {n}
    BY <2>2, <2>4 DEF InForce
  <2> QED BY <1>0, <1>2, <2>5, OneNewest
<1>3. CASE ~(k = issued[n].to /\ c = issued[n].cap)
  <2>1. OfKind(Q, k, c) = OfKind(P, k, c)
    BY <1>3 DEF OfKind
  <2>2. Newest(Q, k, c) = Newest(P, k, c) /\ Newest(P, k, c) \subseteq P
    BY <2>1 DEF Newest, OfKind
  <2>3. \A i \in P : Ended(Q, i) <=> Ended(P, i)
    BY <1>0, <1>1 DEF Ended
  <2>4. InForce(Q, k, c) = InForce(P, k, c)
    BY <2>2, <2>3 DEF InForce
  <2>5. Standing(Q, k, c) = Standing(P, k, c)
    BY <1>0, <2>4, SameInForce
  <2> QED BY <1>3, <2>5
<1> QED BY <1>2, <1>3

\* So each event makes what stands before it what stands after it.
LEMMA StandsNext ==
  ASSUME FoldInvariant, NEW n \in DOMAIN issued, NEW P, P \subseteq 1 .. (n - 1)
  PROVE  Stands(P \cup {n}) = Folded(Stands(P), n)
<1> DEFINE Q == P \cup {n}
<1>0. n \in Nat \ {0} /\ P \subseteq Nat \ {0} /\ n \notin P /\ issued[n] \in Policy
  BY EntryKnown, EarlierOnes
<1>1. ASSUME NEW k, NEW c PROVE Standing(P, k, c) # n
  <2>1. Standing(P, k, c) \in P \cup {0}
    BY <1>0, OneNewest
  <2> QED BY <1>0, <2>1
<1>2. CASE issued[n].of # 0
  <2>1. n \notin expired
    BY <1>2 DEF FoldInvariant, GrantsMade
  <2>2. Folded(Stands(P), n) = Drop(Stands(P), issued[n].of)
    BY <1>2, <2>1 DEF Folded, Taken
  <2>3. \A k, c : Standing(Q, k, c) = IF Standing(P, k, c) = issued[n].of THEN 0 ELSE Standing(P, k, c)
    BY <1>2, AfterRevocation
  <2> HIDE DEF Q
  <2>4. Stands(Q) = Drop(Stands(P), issued[n].of)
    BY <2>3 DEF Stands, Drop
  <2> QED BY <2>2, <2>4 DEF Q
<1>3. CASE issued[n].of = 0 /\ ~Counts(n)
  <2>1. Taken(Stands(P), n) = Stands(P)
    BY <1>3 DEF Taken, Counts
  <2>2. Drop(Stands(P), n) = Stands(P)
    BY <1>1 DEF Drop, Stands
  <2>3. \A k, c : Standing(Q, k, c) = Standing(P, k, c)
    BY <1>3, AfterOwnVoice
  <2>4. Stands(Q) = Stands(P)
    BY <2>3 DEF Stands
  <2> QED BY <2>1, <2>2, <2>4 DEF Folded
<1>4. CASE Counts(n)
  <2> DEFINE to == issued[n].to
             cap == issued[n].cap
  <2>1. \A k, c : Standing(Q, k, c) = IF k = to /\ c = cap THEN (IF n \in expired THEN 0 ELSE n) ELSE Standing(P, k, c)
    BY <1>4, AfterGrant
  <2>2. to \in Senders /\ cap \in AllCaps /\ issued[n].of = 0
    BY <1>0, <1>4 DEF Policy, Counts
  <2>3. Taken(Stands(P), n) =
          [live |-> [k \in Senders |-> [c \in Caps |-> IF k = to /\ c = cap THEN n ELSE Standing(P, k, c)]],
           voices |-> [k \in Senders |-> IF k = to /\ cap = "shadow" THEN n ELSE Standing(P, k, "shadow")]]
    <3>1. CASE cap = "shadow"
      BY <1>4, <2>2, <3>1 DEF Taken, Counts, Stands, Caps
    <3>2. CASE cap \in Caps
      BY <2>2, <3>2 DEF Taken, Stands, Caps
    <3> QED BY <2>2, <3>1, <3>2 DEF AllCaps, Caps
  <2>4. CASE n \in expired
    <3>1. Folded(Stands(P), n) = Drop(Taken(Stands(P), n), n)
      BY <2>4 DEF Folded
    <3> HIDE DEF to, cap, Q
    <3>2. /\ Drop(Taken(Stands(P), n), n).live = [k \in Senders |-> [c \in Caps |-> Standing(Q, k, c)]]
      <4>1. ASSUME NEW k \in Senders, NEW c \in Caps
            PROVE  Standing(Q, k, c) = IF Taken(Stands(P), n).live[k][c] = n THEN 0 ELSE Taken(Stands(P), n).live[k][c]
        BY <1>1, <2>1, <2>3, <2>4, <4>1
      <4> QED BY <4>1 DEF Drop
    <3>3. Drop(Taken(Stands(P), n), n).voices = [k \in Senders |-> Standing(Q, k, "shadow")]
      <4>1. ASSUME NEW k \in Senders
            PROVE  Standing(Q, k, "shadow") = IF Taken(Stands(P), n).voices[k] = n THEN 0 ELSE Taken(Stands(P), n).voices[k]
        BY <1>1, <2>1, <2>3, <2>4, <4>1
      <4> QED BY <4>1 DEF Drop
    <3>4. Stands(Q) = Drop(Taken(Stands(P), n), n)
      BY <3>2, <3>3 DEF Drop, Stands
    <3> QED BY <3>1, <3>4 DEF Q
  <2>5. CASE n \notin expired
    <3>1. Folded(Stands(P), n) = Taken(Stands(P), n)
      BY <2>5 DEF Folded
    <3> HIDE DEF to, cap, Q
    <3>2. Stands(Q) = Taken(Stands(P), n)
      BY <2>1, <2>3, <2>5 DEF Stands
    <3> QED BY <3>1, <3>2 DEF Q
  <2> QED BY <2>4, <2>5
<1> QED BY <1>2, <1>3, <1>4 DEF Counts
-----------------------------------------------------------------------------
\* The fold.

LEMMA FoldStands ==
  ASSUME FoldInvariant, NEW E, E \subseteq DOMAIN issued
  PROVE  FoldOf(E) = Stands(E)
<1> DEFINE L == Len(issued)
           Upto(n) == E \cap (1 .. n)
           Rec(g) == [n \in 0 .. L |-> IF n = 0 THEN Nothing
                                      ELSE IF n \in E THEN Folded(g[n - 1], n) ELSE g[n - 1]]
           F == [n \in 0 .. L |-> Stands(Upto(n))]
           fold == CHOOSE g : g = Rec(g)
<1>1. L \in Nat /\ DOMAIN issued = 1 .. L
  <2>1. issued \in Seq(Policy)
    BY DEF FoldInvariant
  <2> QED BY <2>1
<1>2. Stands({}) = Nothing
  BY DEF Stands, Nothing, Standing, InForce, Newest, OfKind
<1>3. ASSUME NEW n \in 0 .. L
      PROVE  F[n] = IF n = 0 THEN Nothing ELSE IF n \in E THEN Folded(F[n - 1], n) ELSE F[n - 1]
  <2>1. CASE n = 0
    <3>1. Upto(0) = {}
      OBVIOUS
    <3> QED BY <1>2, <2>1, <3>1
  <2>2. CASE n # 0
    <3>1. n - 1 \in 0 .. L /\ n \in DOMAIN issued /\ Upto(n - 1) \subseteq 1 .. (n - 1)
      BY <1>1, <2>2
    <3>2. Upto(n) = IF n \in E THEN Upto(n - 1) \cup {n} ELSE Upto(n - 1)
      BY <1>1, <2>2
    <3>3. F[n] = Stands(Upto(n)) /\ F[n - 1] = Stands(Upto(n - 1))
      BY <3>1
    <3>4. Stands(Upto(n - 1) \cup {n}) = Folded(Stands(Upto(n - 1)), n)
      BY <3>1, StandsNext
    <3> QED BY <2>2, <3>2, <3>3, <3>4
  <2> QED BY <2>1, <2>2
<1>4. F = Rec(F)
  BY <1>3
<1>5. fold = Rec(fold)
  BY <1>4
<1>6. Upto(L) = E
  BY <1>1
<1>7. FoldOf(E) = fold[L]
  BY DEF FoldOf
<1> DEFINE Same == {n \in Nat : n \in 0 .. L => fold[n] = F[n]}
<1>8. Nat \subseteq Same
  <2> HIDE DEF fold, F
  <2>1. 0 \in Same
    BY <1>1, <1>3, <1>5
  <2>2. ASSUME NEW n \in Nat, n \in Same PROVE n + 1 \in Same
    <3>1. CASE n + 1 \in 0 .. L
      <4>1. fold[n] = F[n] /\ (n + 1) - 1 = n /\ n + 1 # 0
        BY <1>1, <2>2, <3>1
      <4>2. fold[n + 1] = IF n + 1 \in E THEN Folded(fold[n], n + 1) ELSE fold[n]
        BY <1>5, <3>1, <4>1
      <4>3. F[n + 1] = IF n + 1 \in E THEN Folded(F[n], n + 1) ELSE F[n]
        BY <1>3, <3>1, <4>1
      <4> QED BY <4>1, <4>2, <4>3
    <3>2. CASE n + 1 \notin 0 .. L
      BY <3>2
    <3> QED BY <3>1, <3>2
  <2> HIDE DEF Same
  <2> QED BY <2>1, <2>2, AllNumbers
<1>9. L \in 0 .. L /\ F[L] = Stands(E)
  <2>1. L \in 0 .. L
    BY <1>1
  <2>2. F[L] = Stands(Upto(L))
    BY <2>1
  <2> HIDE DEF F, Upto
  <2> QED BY <1>6, <2>1, <2>2
<1> HIDE DEF fold, F
<1> QED BY <1>1, <1>7, <1>8, <1>9
\* What it permits is what is held by definition.
LEMMA PermittedHolds ==
  ASSUME FoldInvariant, NEW A \in SUBSET GrantRelays, NEW k \in Senders, NEW c \in Caps
  PROVE  <<k, c>> \in Permitted(A) <=> Holds(Answered(A), k, c)
<1> DEFINE E == Answered(A)
<1>1. E \subseteq DOMAIN issued
  BY DEF Answered, FoldInvariant
<1>2. E \subseteq Nat \ {0}
  <2>1. ASSUME NEW i \in E PROVE i \in Nat \ {0}
    BY <1>1, <2>1, EntryKnown
  <2> QED BY <2>1
<1>3. Permitted(A) = Resolved(Stands(E))
  BY <1>1, FoldStands DEF Permitted
<1> HIDE DEF E
<1> DEFINE s == Standing(E, k, "shadow")
<1>4. <<k, c>> \in Permitted(A) <=>
        Standing(E, k, c) # 0 \/ (s # 0 /\ Stands(E).live[issued[s].by][c] # 0)
  BY <1>3 DEF Resolved, Stands
<1>5. \A q, d : Standing(E, q, d) # 0 <=> Own(E, q, d)
  <2>1. ASSUME NEW q, NEW d PROVE Standing(E, q, d) # 0 <=> Own(E, q, d)
    <3>1. InForce(E, q, d) # {} <=> Own(E, q, d)
      BY DEF Own, InForce
    <3>2. Standing(E, q, d) = 0 <=> InForce(E, q, d) = {}
      BY <1>2, OneNewest
    <3> QED BY <3>1, <3>2
  <2> QED BY <2>1
<1>6. CASE s = 0
  <2>1. InForce(E, k, "shadow") = {}
    BY <1>2, <1>6, OneNewest
  <2>2. Holds(E, k, c) <=> Own(E, k, c)
    BY <2>1 DEF Holds, InForce
  <2> QED BY <1>4, <1>5, <1>6, <2>2 DEF E
<1>7. CASE s # 0
  <2>1. s \in InForce(E, k, "shadow") /\ \A i \in InForce(E, k, "shadow") : i = s
    <3>1. InForce(E, k, "shadow") # {}
      BY <1>2, <1>7, OneNewest
    <3>2. \A i \in InForce(E, k, "shadow") : s = i
      BY <1>2, OneNewest
    <3> QED BY <3>1, <3>2
  <2>2. s \in DOMAIN issued
    BY <1>1, <2>1 DEF InForce, Newest, OfKind
  <2>3. issued[s].by \in Senders
    BY <2>2, EntryKnown, IssuesAssumption DEF Policy
  <2>4. Stands(E).live[issued[s].by][c] = Standing(E, issued[s].by, c)
    BY <2>3 DEF Stands
  <2>5. Holds(E, k, c) <=> Own(E, k, c) \/ Own(E, issued[s].by, c)
    BY <2>1 DEF Holds, InForce
  <2> QED BY <1>4, <1>5, <1>7, <2>4, <2>5 DEF E
<1> QED BY <1>6, <1>7

LEMMA TasksGranted == FoldInvariant => TasksAreGranted
<1> SUFFICES ASSUME FoldInvariant, NEW A \in SUBSET GrantRelays, NEW m \in Messages
             PROVE LET may == {g \in Senders \X Caps : Holds(Answered(A), g[1], g[2])}
                   IN  MessageVerdict(Permitted(A), A, m) = "task" <=>
                         \/ m.via = "carry" /\ <<m.from, "task-relay">> \in may /\ <<m.author, "task">> \in may
                         \/ m.via \in {"mail", "carry"} /\ <<m.from, "task">> \in may
                         \/ m.via = "channel" /\ <<m.author, "task">> \in may
                         \/ m.via = "dm" /\ m.author \in Grantors /\ <<m.author, "task">> \in may
  BY DEF TasksAreGranted
<1> DEFINE may == {g \in Senders \X Caps : Holds(Answered(A), g[1], g[2])}
           holding(k, c) == <<k, c>> \in Permitted(A)
<1>1. m.via \in {"mail", "carry", "channel", "dm"} /\ m.from \in Senders /\ m.author \in Senders
  BY DEF Messages
<1>2. \A k \in Senders, c \in Caps : holding(k, c) <=> <<k, c>> \in may
  BY PermittedHolds
<1>3. A = {} => may = {}
  BY DEF Answered, Holds, Own, Newest, OfKind
<1>4. "task" \in Caps /\ "task-relay" \in Caps
  BY DEF Caps
<1>5. MessageVerdict(Permitted(A), A, m) = "task" <=>
        /\ A # {}
        /\ \/ m.via = "carry" /\ holding(m.from, "task-relay") /\ holding(m.author, "task")
           \/ m.via \in {"mail", "carry"} /\ holding(m.from, "task")
           \/ m.via = "channel" /\ holding(m.author, "task")
           \/ m.via = "dm" /\ m.author \in Grantors /\ holding(m.author, "task")
  <2> DEFINE permitted == Permitted(A)
  <2> HIDE DEF permitted
  <2>1. CASE A = {}
    BY <2>1 DEF MessageVerdict
  <2>2. CASE A # {} /\ m.via = "mail"
    BY <2>2 DEF MessageVerdict
  <2>3. CASE A # {} /\ m.via = "carry"
    BY <2>3 DEF MessageVerdict
  <2>4. CASE A # {} /\ m.via = "channel"
    BY <2>4 DEF MessageVerdict
  <2>5. CASE A # {} /\ m.via = "dm"
    BY <2>5 DEF MessageVerdict
  <2> QED BY <1>1, <2>1, <2>2, <2>3, <2>4, <2>5
<1> HIDE DEF may, holding
<1>6. MessageVerdict(Permitted(A), A, m) = "task" <=>
        \/ m.via = "carry" /\ <<m.from, "task-relay">> \in may /\ <<m.author, "task">> \in may
        \/ m.via \in {"mail", "carry"} /\ <<m.from, "task">> \in may
        \/ m.via = "channel" /\ <<m.author, "task">> \in may
        \/ m.via = "dm" /\ m.author \in Grantors /\ <<m.author, "task">> \in may
  BY <1>1, <1>2, <1>3, <1>4, <1>5
<1> QED BY <1>6 DEF may

-----------------------------------------------------------------------------
\* The steps.

LEMMA FoldInvariantInit == FoldInit => FoldInvariant
BY DEF FoldInit, FoldInvariant, GrantsMade

LEMMA KeptByPolicyEvent ==
  ASSUME FoldInvariant, NEW ev \in Policy, ev.of \in DOMAIN issued \cup {0}, PublishPolicy(ev)
  PROVE  FoldInvariant'
<1> DEFINE L == Len(issued)
<1>1. /\ issued \in Seq(Policy) /\ L \in Nat /\ DOMAIN issued = 1 .. L
      /\ issued' = Append(issued, ev) /\ expired' = expired
  BY DEF FoldInvariant, PublishPolicy
<1>2. /\ issued' \in Seq(Policy) /\ Len(issued') = L + 1 /\ DOMAIN issued' = 1 .. (L + 1)
      /\ issued'[L + 1] = ev /\ \A j \in DOMAIN issued : issued'[j] = issued[j]
  BY <1>1
<1>3. DOMAIN issued \subseteq DOMAIN issued' /\ L + 1 \in DOMAIN issued'
  BY <1>1, <1>2
<1>4. ev.of < L + 1
  BY <1>1
<1>5. \A j \in DOMAIN issued' : issued'[j].of < j
  BY <1>1, <1>2, <1>4 DEF FoldInvariant
<1>6. stored' \in [GrantRelays -> SUBSET (DOMAIN issued')]
  BY <1>2, <1>3 DEF FoldInvariant, PublishPolicy
<1>7. expired' \subseteq GrantsMade'
  BY <1>1, <1>2, <1>3 DEF FoldInvariant, GrantsMade
<1> QED BY <1>2, <1>5, <1>6, <1>7 DEF FoldInvariant

LEMMA FoldInvariantKept == FoldInvariant /\ [FoldNext]_foldVars => FoldInvariant'
<1> SUFFICES ASSUME FoldInvariant, [FoldNext]_foldVars PROVE FoldInvariant'
  OBVIOUS
<1>1. ASSUME NEW g \in Issues, IssueGrant(g) PROVE FoldInvariant'
  <2> DEFINE ev == [by |-> g.by, to |-> g.to, cap |-> g.cap, of |-> 0]
  <2>1. ev \in Policy
    BY IssuesAssumption DEF Policy, AllCaps
  <2>2. PublishPolicy(ev)
    BY <1>1 DEF IssueGrant
  <2> QED BY <2>1, <2>2, KeptByPolicyEvent
<1>2. ASSUME NEW i \in GrantsMade, RevokeGrant(i) PROVE FoldInvariant'
  <2> DEFINE ev == [issued[i] EXCEPT !.of = i]
  <2>1. i \in DOMAIN issued
    BY DEF GrantsMade
  <2>2. ev \in Policy /\ ev.of = i
    BY <2>1, EntryKnown DEF Policy
  <2>3. PublishPolicy(ev)
    BY <1>2 DEF RevokeGrant
  <2> QED BY <2>1, <2>2, <2>3, KeptByPolicyEvent
<1>3. ASSUME NEW i \in GrantsMade, GrantLapses(i) PROVE FoldInvariant'
  BY <1>3 DEF GrantLapses, FoldInvariant, GrantsMade
<1>4. CASE UNCHANGED foldVars
  BY <1>4 DEF foldVars, FoldInvariant, GrantsMade
<1> QED BY <1>1, <1>2, <1>3, <1>4 DEF FoldNext

\* Whatever grants and revocations are published, to whichever relays, and whichever
\* relays answer: the fold of what they answered makes a message a task exactly when
\* its author and carrier hold a grant in force by definition (foldGrantsWith,
\* partitionInvocations).
THEOREM Tasking == FoldSpec => []TasksAreGranted
BY FoldInvariantInit, FoldInvariantKept, TasksGranted, PTL DEF FoldSpec
=============================================================================
