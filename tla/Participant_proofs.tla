-------------------------- MODULE Participant_proofs --------------------------
(***************************************************************************)
(* The broker's delivery and replies, for every set of envelopes, requests  *)
(* and approvals, any number of faults and both runners, the daemon's and    *)
(* the operator's: no envelope is answered more often than it was admitted,  *)
(* since a receipt is renamed before anything is composed; a request that is *)
(* retried sends one event; mail is finished only once it was turned down or *)
(* handed on; and a reply is given up only when its ground is gone.          *)
(***************************************************************************)
EXTENDS Participant, FiniteSetTheorems, TLAPS

Modes == {"none", "prepare", "direct"} \cup Approval
Steps == {"idle", "prepared", "policy", "claim", "record", "freeze", "enact", "publish", "sent",
          "final"}
Rec == [by : Modes, event : Nat, state : {"absent", "frozen", "signed", "published", "torn"}]
Proc == [at : Steps, req : Request \cup {NoRequest}, mode : Modes,
         path : {"none", "base", "inflight"}, rec : Rec]

ReplyTypes ==
  /\ about \in [Request -> Envelope \cup {NoEnvelope}]
  /\ inflight \in SUBSET Request /\ used \in SUBSET Request
  /\ outbound \in [Request -> Rec] /\ signings \in [Request -> Nat]
  /\ proc \in [R!Actor -> Proc]

FileTypes == base \in SUBSET Envelope /\ written \in [Envelope -> Nat]

\* The requests that hold a receipt of e, in use or used up.
Holders(e) == {r \in Request : about[r] = e /\ r \in inflight \cup used}

\* What a run may rely on: past the claim its request holds a receipt, and
\* before it, if it found its own receipt inflight.
Placed(p) ==
  /\ p.at \in {"policy", "claim"} =>
       /\ p.req \in Request /\ about[p.req] \in Envelope
       /\ p.path = "inflight" => p.req \in inflight \cup used
  /\ p.at \in {"record", "freeze", "enact", "publish", "sent", "final"} =>
       p.req \in inflight \cup used

\* Only what holds a receipt was sent, and only requests that were made hold one.
SentHolds == \A r \in Request : sent[r] # {} => r \in inflight \cup used
HoldersAsked == \A r \in inflight \cup used : about[r] # NoEnvelope

\* Every receipt written is unclaimed, held, or was written over.
ReceiptsCounted ==
  \A e \in Envelope : Cardinality(Holders(e)) + (IF e \in base THEN 1 ELSE 0) <= written[e]

Invariant ==
  /\ ReplyTypes /\ FileTypes /\ SentHolds /\ HoldersAsked /\ ReceiptsCounted
  /\ sent \in [Request -> SUBSET Nat]
  /\ \A a \in R!Actor : Placed(proc[a])

-----------------------------------------------------------------------------
LEMMA Shapes ==
  /\ R!NoProc \in Proc /\ R!NoRecord \in Rec /\ R!Frozen \in Rec
  /\ R!NoProc.at = "idle"
BY DEF R!NoProc, R!NoRecord, R!Frozen, Proc, Rec, Modes, Steps

LEMMA HoldersFinite ==
  ASSUME IsFiniteSet(Request), NEW e
  PROVE  IsFiniteSet(Holders(e)) /\ Cardinality(Holders(e)) \in Nat
BY FS_Subset, FS_CardinalityType DEF Holders

LEMMA InvariantInit ==
  ASSUME IsFiniteSet(Request), Init
  PROVE  Invariant
<1>1. ReplyTypes /\ sent \in [Request -> SUBSET Nat]
  BY Shapes DEF Init, R!ReplyInit, ReplyTypes
<1>2. FileTypes
  BY DEF Init, DeliveryInit, FileTypes
<1>3. \A e \in Envelope : Holders(e) = {}
  BY DEF Init, R!ReplyInit, Holders
<1>4. ReceiptsCounted
  <2>1. \A e \in Envelope : Cardinality(Holders(e)) = 0
    BY <1>3, FS_EmptySet
  <2>2. QED
    BY <2>1 DEF Init, DeliveryInit, ReceiptsCounted
<1>5. SentHolds /\ HoldersAsked /\ \A a \in R!Actor : Placed(proc[a])
  BY Shapes DEF Init, R!ReplyInit, SentHolds, HoldersAsked, Placed
<1>6. QED
  BY <1>1, <1>2, <1>4, <1>5 DEF Invariant

-----------------------------------------------------------------------------
(* What most steps leave alone: the receipts, and who holds them.          *)

LEMMA SameReceipts ==
  ASSUME Invariant, UNCHANGED <<about, base, inflight, used, written>>
  PROVE  FileTypes' /\ HoldersAsked' /\ ReceiptsCounted'
BY DEF Invariant, FileTypes, HoldersAsked, ReceiptsCounted, Holders

\* A step of one run that leaves the receipts alone.
LEMMA RunMoves ==
  ASSUME Invariant, UNCHANGED <<about, base, inflight, used, written>>,
         NEW a \in R!Actor, NEW p \in Proc, Placed(p), proc' = [proc EXCEPT ![a] = p],
         outbound' \in [Request -> Rec], signings' \in [Request -> Nat],
         sent' \in [Request -> SUBSET Nat],
         \A r \in Request : sent'[r] # {} => r \in inflight \cup used
  PROVE  Invariant'
<1>1. ReplyTypes'
  BY DEF Invariant, ReplyTypes
<1>2. SentHolds'
  BY DEF Invariant, SentHolds
<1>3. \A b \in R!Actor : Placed(proc[b])'
  BY DEF Invariant, ReplyTypes, Placed
<1>4. QED
  BY <1>1, <1>2, <1>3, SameReceipts DEF Invariant

\* As RunMoves, when nothing was recorded or sent either.
LEMMA RunTurns ==
  ASSUME Invariant, UNCHANGED <<about, base, inflight, used, written, outbound, signings, sent>>,
         NEW a \in R!Actor, NEW p \in Proc, Placed(p), proc' = [proc EXCEPT ![a] = p]
  PROVE  Invariant'
BY RunMoves DEF Invariant, ReplyTypes, SentHolds

LEMMA RunEnds ==
  ASSUME Invariant, UNCHANGED <<about, base, inflight, used, written, outbound, signings, sent>>,
         NEW a \in R!Actor, R!Exit(a)
  PROVE  Invariant'
<1>1. Placed(R!NoProc)
  BY Shapes DEF Placed
<1>2. QED
  BY <1>1, Shapes, RunTurns DEF R!Exit

\* Steps of the delivery, the agent and the operator's pen: no receipt, no run.
LEMMA Elsewhere ==
  ASSUME Invariant,
         UNCHANGED <<about, base, inflight, used, written, outbound, signings, sent, proc>>
  PROVE  Invariant'
BY SameReceipts DEF Invariant, ReplyTypes, SentHolds, Placed

\* A run is of a known request, and typed.
LEMMA RunKnown ==
  ASSUME Invariant, NEW a \in R!Actor
  PROVE  /\ proc[a] \in Proc /\ Placed(proc[a])
         /\ proc[a].at \in {"record", "freeze", "enact", "publish", "sent", "final"} =>
              R!Req(a) \in Request /\ R!Req(a) \in inflight \cup used
         /\ proc[a].at \in {"policy", "claim"} => R!Req(a) \in Request
BY DEF Invariant, ReplyTypes, Placed, R!Req

-----------------------------------------------------------------------------
(* The run of a reply.                                                     *)

LEMMA KeptByOpen ==
  ASSUME Invariant, NEW a \in R!Actor, NEW r \in Request,
         NEW m \in {"prepare", "direct"} \cup Approval, R!Open(a, r, m), UNCHANGED written
  PROVE  Invariant'
<1>1. UNCHANGED <<about, base, inflight, used, written, outbound, signings, sent>>
  BY DEF R!Open, R!fileVars, R!historyVars
<1>2. CASE UNCHANGED proc
  BY <1>1, <1>2, Elsewhere
<1>3. CASE R!Exit(a)
  BY <1>1, <1>3, RunEnds
<1>4. CASE r \in inflight \/ about[r] \in base
  <2> DEFINE p == [at |-> "policy", req |-> r, mode |-> m, rec |-> R!NoRecord,
                   path |-> IF r \in inflight THEN "inflight" ELSE "base"]
  <2>1. p \in Proc
    BY Shapes DEF Proc, Steps, Modes
  <2>2. about[r] \in Envelope
    BY DEF R!Open, Invariant, ReplyTypes
  <2>3. Placed(p)
    BY <2>2 DEF Placed
  <2> HIDE DEF p
  <2>4. CASE proc' = [proc EXCEPT ![a] = p]
    BY <1>1, <2>1, <2>3, <2>4, RunTurns
  <2>5. QED
    BY <1>2, <1>3, <1>4, <2>4 DEF R!Open, R!Exit, p
<1>5. QED
  BY <1>2, <1>3, <1>4 DEF R!Open, R!Exit

\* A run that goes on to another step with the same request.
LEMMA GoesOn ==
  ASSUME Invariant, NEW a \in R!Actor, NEW l \in Steps, R!Goto(a, l),
         UNCHANGED <<about, base, inflight, used, written, outbound, signings, sent>>,
         l = "claim" => proc[a].at = "policy",
         l \notin {"idle", "prepared", "claim"} =>
           proc[a].at \in {"record", "freeze", "enact", "publish", "sent", "final"}
             /\ l # "policy"
  PROVE  Invariant'
<1> DEFINE p == [proc[a] EXCEPT !.at = l]
<1>1. p \in Proc /\ p.at = l /\ p.req = proc[a].req /\ p.path = proc[a].path
  BY RunKnown DEF Proc
<1>2. Placed(p)
  BY <1>1, RunKnown DEF Placed, Steps
<1>3. proc' = [proc EXCEPT ![a] = p]
  BY DEF R!Goto
<1> HIDE DEF p
<1>4. QED
  BY <1>1, <1>2, <1>3, RunTurns

\* ExitDone: the daemon's run ends, or waits to run --direct.
LEMMA DoneShape ==
  ASSUME Invariant, NEW a \in R!Actor, R!ExitDone(a)
  PROVE  \E p \in Proc : p.at \in {"idle", "prepared"} /\ proc' = [proc EXCEPT ![a] = p]
<1>1. CASE R!Exit(a)
  BY <1>1, Shapes DEF R!Exit
<1> DEFINE p == [R!NoProc EXCEPT !.at = "prepared", !.req = R!Req(a)]
<1>2. CASE proc' = [proc EXCEPT ![a] = p]
  <2>1. p \in Proc /\ p.at = "prepared"
    BY RunKnown DEF R!NoProc, R!NoRecord, R!Req, Proc, Rec, Modes, Steps
  <2> HIDE DEF p
  <2>2. QED
    BY <1>2, <2>1
<1>3. QED
  BY <1>1, <1>2 DEF R!ExitDone

\* Proceed, from the step that has the record in hand.
LEMMA Proceeds ==
  ASSUME Invariant, NEW a \in R!Actor, NEW rec \in Rec, R!Proceed(a, rec),
         proc[a].at \in {"record", "freeze"},
         UNCHANGED <<about, base, inflight, used, written, signings, sent>>,
         outbound' \in [Request -> Rec]
  PROVE  Invariant'
<1>1. CASE R!ExitDone(a)
  <2>1. PICK p \in Proc : p.at \in {"idle", "prepared"} /\ proc' = [proc EXCEPT ![a] = p]
    BY <1>1, DoneShape
  <2>2. Placed(p)
    BY <2>1 DEF Placed
  <2>3. QED
    BY <2>1, <2>2, RunMoves DEF Invariant, ReplyTypes, SentHolds
<1> DEFINE p == [proc[a] EXCEPT !.at = "enact", !.rec = rec]
<1>2. CASE proc' = [proc EXCEPT ![a] = p]
  <2>1. p \in Proc /\ p.at = "enact" /\ p.req = proc[a].req
    BY RunKnown DEF Proc, Steps
  <2>2. Placed(p)
    BY <2>1, RunKnown DEF Placed, R!Req
  <2> HIDE DEF p
  <2>3. QED
    BY <1>2, <2>1, <2>2, RunMoves DEF Invariant, ReplyTypes, SentHolds
<1>3. QED
  BY <1>1, <1>2 DEF R!Proceed

\* The claim: a request that holds no receipt takes the one there is, and the
\* base name is gone with the same rename; one that holds it goes on with it.
LEMMA KeptByClaim ==
  ASSUME Invariant, IsFiniteSet(Request), NEW a \in R!Actor, R!Claim(a), UNCHANGED written
  PROVE  Invariant'
<1>1. /\ UNCHANGED <<about, used, outbound, signings, sent>>
      /\ R!Req(a) \in Request /\ about[R!Req(a)] \in Envelope
      /\ proc[a].path = "inflight" => R!Req(a) \in inflight \cup used
  BY RunKnown DEF R!Claim, R!historyVars, Placed, R!Req
<1>2. CASE R!Exit(a) /\ UNCHANGED <<base, inflight>>
  BY <1>1, <1>2, RunEnds
<1>3. CASE R!Goto(a, "record") /\ inflight' = inflight \cup {R!Req(a)}
  <2> DEFINE p == [proc[a] EXCEPT !.at = "record"]
  <2>1. p \in Proc /\ p.at = "record" /\ p.req = R!Req(a)
    BY RunKnown DEF Proc, Steps, R!Req
  <2>2. proc' = [proc EXCEPT ![a] = p]
    BY <1>3 DEF R!Goto
  <2>3. p.req \in inflight' \cup used' /\ p.at \notin {"policy", "claim"}
    BY <1>1, <1>3, <2>1
  <2> HIDE DEF p
  <2>4. ReplyTypes'
    BY <1>1, <1>3, <2>1, <2>2 DEF Invariant, ReplyTypes
  <2>5. \A b \in R!Actor : Placed(proc[b])'
    <3>1. inflight \cup used \subseteq inflight' \cup used'
      BY <1>1, <1>3
    <3>2. Placed(proc[a])'
      BY <2>2, <2>3 DEF Invariant, ReplyTypes, Placed
    <3>3. ASSUME NEW b \in R!Actor, b # a PROVE Placed(proc[b])'
      BY <1>1, <2>2, <3>1, <3>3 DEF Invariant, ReplyTypes, Placed
    <3>4. QED
      BY <3>2, <3>3
  <2>6. SentHolds' /\ HoldersAsked' /\ (sent \in [Request -> SUBSET Nat])'
    <3>1. about[R!Req(a)] # NoEnvelope
      BY <1>1, ParticipantAssumption, DeliveryAssumption
    <3>2. QED
      BY <1>1, <1>3, <3>1 DEF Invariant, SentHolds, HoldersAsked
  <2>7. FileTypes' /\ ReceiptsCounted'
    <3>1. CASE R!Req(a) \in inflight \cup used
      <4>1. \A e : Holders(e)' = Holders(e)
        BY <1>1, <1>3, <3>1 DEF Holders
      <4>2. base' \in {base, base \ {about[R!Req(a)]}}
        BY DEF R!Claim, R!Env
      <4>3. FileTypes'
        BY <4>2 DEF Invariant, FileTypes
      <4>4. \A e \in Envelope : Cardinality(Holders(e)) \in Nat
        BY HoldersFinite
      <4>5. QED
        BY <4>1, <4>2, <4>3, <4>4 DEF Invariant, FileTypes, ReceiptsCounted
    <3>2. CASE R!Req(a) \notin inflight \cup used
      <4>0. PICK f \in Envelope : f = about[R!Req(a)]
        BY <1>1
      <4>1. proc[a].path # "inflight" /\ f \in base /\ base' = base \ {f}
        BY <1>1, <1>3, <3>2, <4>0, Shapes DEF R!Claim, R!Claimable, R!Env, R!Exit
      <4>2. FileTypes'
        BY <4>1 DEF Invariant, FileTypes
      <4>3. \A e \in Envelope : e # f => Holders(e)' = Holders(e)
        BY <1>1, <1>3, <4>0 DEF Holders
      <4>4. Holders(f)' = Holders(f) \cup {R!Req(a)} /\ R!Req(a) \notin Holders(f)
        BY <1>1, <1>3, <3>2, <4>0 DEF Holders
      <4>5. Cardinality(Holders(f))' = Cardinality(Holders(f)) + 1
        BY <4>4, HoldersFinite, FS_AddElement
      <4>6. \A e \in Envelope : Cardinality(Holders(e)) \in Nat
        BY HoldersFinite
      <4>7. ASSUME NEW e \in Envelope
            PROVE  Cardinality(Holders(e))' + (IF e \in base' THEN 1 ELSE 0) <= written[e]
        <5>1. /\ Cardinality(Holders(e)) + (IF e \in base THEN 1 ELSE 0) <= written[e]
              /\ written[e] \in Nat
          BY DEF Invariant, FileTypes, ReceiptsCounted
        <5>2. CASE e = f
          <6>1. e \in base /\ e \notin base' /\ Cardinality(Holders(e))' = Cardinality(Holders(e)) + 1
            BY <4>1, <4>5, <5>2
          <6>2. QED
            BY <4>6, <5>1, <6>1
        <5>3. CASE e # f
          <6>1. Cardinality(Holders(e))' = Cardinality(Holders(e)) /\ (e \in base' <=> e \in base)
            BY <4>1, <4>3, <5>3
          <6>2. QED
            BY <5>1, <6>1
        <5>4. QED
          BY <5>2, <5>3
      <4>8. QED
        BY <4>2, <4>7 DEF ReceiptsCounted
    <3>3. QED
      BY <3>1, <3>2
  <2>8. QED
    BY <2>4, <2>5, <2>6, <2>7 DEF Invariant
<1>4. QED
  BY <1>2, <1>3 DEF R!Claim

\* The receipt is used up: its request holds it still.
LEMMA Finished ==
  ASSUME Invariant, NEW a \in R!Actor, R!Req(a) \in inflight \cup used, R!Req(a) \in Request,
         inflight' = inflight \ {R!Req(a)}, used' = used \cup {R!Req(a)},
         UNCHANGED <<about, base, written, outbound, signings, sent>>,
         NEW p \in Proc, p.at \in {"idle", "prepared"}, proc' = [proc EXCEPT ![a] = p]
  PROVE  Invariant'
<1>1. inflight' \cup used' = inflight \cup used
  OBVIOUS
<1>2. ReplyTypes'
  BY DEF Invariant, ReplyTypes
<1>3. FileTypes' /\ HoldersAsked' /\ ReceiptsCounted' /\ SentHolds'
  <2>1. \A e : Holders(e)' = Holders(e)
    BY <1>1 DEF Holders
  <2>2. QED
    BY <1>1, <2>1 DEF Invariant, FileTypes, HoldersAsked, ReceiptsCounted, SentHolds
<1>4. \A b \in R!Actor : Placed(proc[b])'
  BY <1>1 DEF Invariant, ReplyTypes, Placed
<1>5. QED
  BY <1>2, <1>3, <1>4 DEF Invariant

LEMMA KeptByReplay ==
  ASSUME Invariant, NEW a \in R!Actor, R!Replay(a), UNCHANGED written
  PROVE  Invariant'
<1>1. R!Req(a) \in Request /\ R!Req(a) \in inflight \cup used
  BY RunKnown DEF R!Replay
<1>2. QED
  BY <1>1, Shapes, Finished DEF R!Replay, R!Exit, R!historyVars

LEMMA KeptByFinalize ==
  ASSUME Invariant, NEW a \in R!Actor, R!Finalize(a), UNCHANGED written
  PROVE  Invariant'
<1>1. R!Req(a) \in Request /\ R!Req(a) \in inflight \cup used
  BY RunKnown DEF R!Finalize
<1>2. UNCHANGED <<about, base, outbound, signings, sent>>
  BY DEF R!Finalize, R!historyVars
<1>3. CASE R!Req(a) \in inflight
  <2>1. PICK p \in Proc : p.at \in {"idle", "prepared"} /\ proc' = [proc EXCEPT ![a] = p]
    BY <1>3, DoneShape DEF R!Finalize
  <2>2. QED
    BY <1>1, <1>2, <1>3, <2>1, Finished DEF R!Finalize
<1>4. CASE R!Req(a) \notin inflight
  BY <1>2, <1>4, RunEnds DEF R!Finalize
<1>5. QED
  BY <1>3, <1>4

LEMMA KeptByEnact ==
  ASSUME Invariant, NEW a \in R!Actor, R!Enact(a), UNCHANGED written
  PROVE  Invariant'
<1> DEFINE r == R!Req(a)
           signed == [by |-> proc[a].mode, event |-> R!Signature(r), state |-> "signed"]
           p == [proc[a] EXCEPT !.at = "publish", !.rec = signed]
<1>1. /\ r \in Request /\ r \in inflight \cup used /\ proc[a] \in Proc
      /\ UNCHANGED <<about, base, inflight, used, sent>>
  BY RunKnown DEF R!Enact, R!fileVars
<1>2. CASE R!Unsigned(a)
  <2>1. R!Signature(r) \in Nat
    BY <1>1 DEF R!Signature, Invariant, ReplyTypes
  <2>2. signed \in Rec
    BY <1>1, <2>1 DEF Proc, Rec, Modes
  <2>3. p \in Proc /\ p.at = "publish" /\ p.req = r
    BY <1>1, <2>2 DEF Proc, Steps, R!Req
  <2>4. Placed(p)
    BY <1>1, <2>3 DEF Placed
  <2>5. /\ outbound' = [outbound EXCEPT ![r] = signed]
        /\ signings' = [signings EXCEPT ![r] = R!Signature(r)]
        /\ proc' = [proc EXCEPT ![a] = p]
    BY <1>2 DEF R!Enact
  <2> HIDE DEF p, signed
  <2>6. outbound' \in [Request -> Rec] /\ signings' \in [Request -> Nat]
    BY <2>1, <2>2, <2>5 DEF Invariant, ReplyTypes
  <2>7. QED
    BY <1>1, <2>3, <2>4, <2>5, <2>6, RunMoves DEF Invariant, SentHolds
<1>3. CASE ~R!Unsigned(a)
  BY <1>1, <1>3, GoesOn DEF R!Enact, Steps
<1>4. QED
  BY <1>2, <1>3

\* What is published is its request's record, and the request holds a receipt.
LEMMA OutHolds ==
  ASSUME Invariant, NEW a \in R!Actor, proc[a].at = "publish", R!Out(a)
  PROVE  /\ sent' \in [Request -> SUBSET Nat]
         /\ \A r \in Request : sent'[r] # {} => r \in inflight \cup used
<1>1. R!Req(a) \in Request /\ R!Req(a) \in inflight \cup used /\ proc[a].rec.event \in Nat
  BY RunKnown DEF Proc, Rec
<1>2. QED
  BY <1>1 DEF R!Out, Invariant, SentHolds

LEMMA KeptByPublish ==
  ASSUME Invariant, NEW a \in R!Actor, R!Publish(a), UNCHANGED written
  PROVE  Invariant'
<1> DEFINE p == [proc[a] EXCEPT !.at = "sent"]
<1>1. /\ UNCHANGED <<about, base, inflight, used, outbound, signings>>
      /\ proc[a].at = "publish" /\ R!Out(a)
  BY DEF R!Publish, R!fileVars
<1>2. p \in Proc /\ p.at = "sent" /\ p.req = R!Req(a)
  BY RunKnown DEF Proc, Steps, R!Req
<1>3. Placed(p)
  BY <1>1, <1>2, RunKnown DEF Placed
<1>4. proc' = [proc EXCEPT ![a] = p]
  BY DEF R!Publish, R!Goto
<1> HIDE DEF p
<1>5. QED
  BY <1>1, <1>2, <1>3, <1>4, OutHolds, RunMoves DEF Invariant, ReplyTypes

LEMMA KeptByNotAcknowledged ==
  ASSUME Invariant, NEW a \in R!Actor, R!NotAcknowledged(a), UNCHANGED written
  PROVE  Invariant'
<1>1. /\ UNCHANGED <<about, base, inflight, used, outbound, signings>>
      /\ proc[a].at = "publish" /\ R!Exit(a)
  BY DEF R!NotAcknowledged, R!fileVars, R!Held
<1>2. Placed(R!NoProc)
  BY Shapes DEF Placed
<1>3. CASE UNCHANGED sent
  BY <1>1, <1>3, RunEnds
<1>4. CASE R!Out(a)
  BY <1>1, <1>2, <1>4, Shapes, OutHolds, RunMoves DEF R!Exit, Invariant, ReplyTypes
<1>5. QED
  BY <1>3, <1>4 DEF R!NotAcknowledged

\* The published record, in place or torn.
LEMMA KeptByMarkPublished ==
  ASSUME Invariant, NEW a \in R!Actor, R!MarkPublished(a), UNCHANGED written
  PROVE  Invariant'
<1> DEFINE p == [proc[a] EXCEPT !.at = "final"]
<1>1. /\ UNCHANGED <<about, base, inflight, used, signings, sent>> /\ proc[a].at = "sent"
  BY DEF R!MarkPublished, R!fileVars, R!historyVars
<1>2. p \in Proc /\ p.at = "final" /\ p.req = R!Req(a)
  BY RunKnown DEF Proc, Steps, R!Req
<1>3. Placed(p)
  BY <1>1, <1>2, RunKnown DEF Placed
<1>4. proc' = [proc EXCEPT ![a] = p]
  BY DEF R!MarkPublished, R!Goto
<1>5. [proc[a].rec EXCEPT !.state = "published"] \in Rec
  BY RunKnown DEF Proc, Rec
<1>6. outbound' \in [Request -> Rec]
  BY <1>5 DEF R!MarkPublished, Invariant, ReplyTypes
<1> HIDE DEF p
<1>7. QED
  BY <1>1, <1>2, <1>3, <1>4, <1>6, RunMoves DEF Invariant, ReplyTypes, SentHolds

LEMMA KeptByTear ==
  ASSUME Invariant, NEW a \in R!Actor, R!Tear(a), UNCHANGED written
  PROVE  Invariant'
<1>1. UNCHANGED <<about, base, inflight, used, signings, sent>> /\ R!Req(a) \in Request
  BY RunKnown DEF R!Tear, R!fileVars, R!historyVars
<1>2. [outbound[R!Req(a)] EXCEPT !.state = "torn"] \in Rec
  BY <1>1 DEF Invariant, ReplyTypes, Rec
<1>3. outbound' \in [Request -> Rec]
  BY <1>2 DEF R!Tear, Invariant, ReplyTypes
<1>4. Placed(R!NoProc)
  BY Shapes DEF Placed
<1>5. QED
  BY <1>1, <1>3, <1>4, Shapes, RunMoves DEF R!Tear, R!Exit, Invariant, ReplyTypes, SentHolds

LEMMA KeptByFreeze ==
  ASSUME Invariant, NEW a \in R!Actor, R!Freeze(a), UNCHANGED written
  PROVE  Invariant'
<1>1. UNCHANGED <<about, base, inflight, used, signings, sent>>
  BY DEF R!Freeze, R!fileVars, R!historyVars
<1>2. outbound' \in [Request -> Rec]
  BY Shapes DEF R!Freeze, Invariant, ReplyTypes
<1>3. QED
  BY <1>1, <1>2, Shapes, Proceeds DEF R!Freeze

LEMMA KeptByLoad ==
  ASSUME Invariant, NEW a \in R!Actor, R!Load(a), UNCHANGED written
  PROVE  Invariant'
<1>1. UNCHANGED <<about, base, inflight, used, outbound, signings, sent>>
  BY DEF R!Load, R!fileVars, R!historyVars
<1>2. outbound[R!Req(a)] \in Rec
  BY RunKnown DEF R!Load, Invariant, ReplyTypes
<1>3. QED
  BY <1>1, <1>2, Proceeds DEF R!Load, Invariant, ReplyTypes

LEMMA KeptByTurns ==
  ASSUME Invariant, NEW a \in R!Actor, R!Recheck(a) \/ R!Compose(a), UNCHANGED written
  PROVE  Invariant'
BY GoesOn DEF R!Recheck, R!Compose, R!fileVars, R!historyVars, Steps

LEMMA KeptByEnds ==
  ASSUME Invariant, NEW a \in R!Actor, UNCHANGED written,
         \/ R!NotLive(a) \/ R!Unusable(a) \/ R!Torn(a) \/ R!Forbid(a) \/ R!TooOld(a)
         \/ R!Rejected(a) \/ R!Die(a)
  PROVE  Invariant'
<1>1. R!Exit(a) /\ UNCHANGED <<about, base, inflight, used, outbound, signings, sent>>
  BY DEF R!NotLive, R!Unusable, R!Refused, R!ExitTerminal, R!Torn, R!Forbid, R!TooOld, R!Denied,
         R!Rejected, R!Die, R!fileVars, R!historyVars
<1>2. QED
  BY <1>1, RunEnds

LEMMA KeptByReply ==
  ASSUME Invariant, IsFiniteSet(Request), NEW a \in R!Actor, UNCHANGED written,
         R!Running(a) \/ R!Failing(a)
  PROVE  Invariant'
BY KeptByClaim, KeptByLoad, KeptByFreeze, KeptByReplay, KeptByEnact, KeptByPublish,
   KeptByMarkPublished, KeptByFinalize, KeptByNotAcknowledged, KeptByTear, KeptByTurns, KeptByEnds
   DEF R!Running, R!Failing

-----------------------------------------------------------------------------
(* The rest of the daemon, the agent and the operator.                     *)

\* Of the steps of a delivery only one writes a receipt; it may write it over
\* the one that is there.
LEMMA KeptByWriteReceipt ==
  ASSUME Invariant, IsFiniteSet(Request), WriteReceipt, child.env \in Envelope,
         UNCHANGED replyOnly
  PROVE  Invariant'
<1>1. /\ UNCHANGED <<about, inflight, used, outbound, signings, sent, proc>>
      /\ base' = base \cup {child.env} /\ written' = [written EXCEPT ![child.env] = @ + 1]
  BY DEF WriteReceipt, Receipted, replyOnly
<1>2. FileTypes'
  BY <1>1 DEF Invariant, FileTypes
<1>3. ASSUME NEW e \in Envelope
      PROVE  Cardinality(Holders(e))' + (IF e \in base' THEN 1 ELSE 0) <= written'[e]
  <2>1. Cardinality(Holders(e))' = Cardinality(Holders(e)) /\ Cardinality(Holders(e)) \in Nat
    BY <1>1, HoldersFinite DEF Holders
  <2>2. /\ Cardinality(Holders(e)) + (IF e \in base THEN 1 ELSE 0) <= written[e]
        /\ written[e] \in Nat
    BY DEF Invariant, FileTypes, ReceiptsCounted
  <2>3. CASE e = child.env
    <3>1. written'[e] = written[e] + 1
      BY <1>1, <2>3 DEF Invariant, FileTypes
    <3>2. QED
      BY <2>1, <2>2, <3>1
  <2>4. CASE e # child.env
    <3>1. written'[e] = written[e] /\ (e \in base' <=> e \in base)
      BY <1>1, <2>4 DEF Invariant, FileTypes
    <3>2. QED
      BY <2>1, <2>2, <3>1
  <2>5. QED
    BY <2>3, <2>4
<1>4. ReceiptsCounted'
  BY <1>3 DEF ReceiptsCounted
<1>5. QED
  BY <1>1, <1>2, <1>4 DEF Invariant, ReplyTypes, SentHolds, HoldersAsked, Placed

\* A new request holds nothing yet.
LEMMA KeptByAsk ==
  ASSUME Invariant, NEW e \in Envelope, Ask(e)
  PROVE  Invariant'
<1>1. PICK r \in Request : about[r] = NoEnvelope /\ about' = [about EXCEPT ![r] = e]
  <2> DEFINE fresh == {q \in Request : about[q] = NoEnvelope}
  <2>1. fresh # {} /\ about' = [about EXCEPT ![CHOOSE q \in fresh : TRUE] = e]
    BY DEF Ask
  <2>2. (CHOOSE q \in fresh : TRUE) \in fresh
    BY <2>1
  <2>3. QED
    BY <2>1, <2>2
<1>2. UNCHANGED <<base, inflight, used, outbound, signings, sent, proc, written>>
  BY DEF Ask, deliveryVars
<1>3. r \notin inflight \cup used
  BY <1>1 DEF Invariant, HoldersAsked
<1>4. \A f : Holders(f)' = Holders(f)
  BY <1>1, <1>2, <1>3 DEF Invariant, ReplyTypes, Holders
<1>5. FileTypes' /\ ReceiptsCounted'
  BY <1>2, <1>4 DEF Invariant, FileTypes, ReceiptsCounted
<1>6. ReplyTypes' /\ HoldersAsked' /\ SentHolds'
  BY <1>1, <1>2, <1>3 DEF Invariant, ReplyTypes, HoldersAsked, SentHolds
<1>7. \A a \in R!Actor : Placed(proc[a])'
  BY <1>1, <1>2 DEF Invariant, ReplyTypes, Placed
<1>8. QED
  BY <1>2, <1>5, <1>6, <1>7 DEF Invariant

LEMMA KeptByCrash ==
  ASSUME Invariant, Crash
  PROVE  Invariant'
<1>1. R!Exit("daemon") /\ UNCHANGED <<about, base, inflight, used, written, outbound, signings, sent>>
  BY DEF Crash, R!Exit
<1>2. QED
  BY <1>1, RunEnds DEF R!Actor

\* The delivery under way is of an envelope.
ChildPlaced ==
  /\ child \in [at : {"idle", "policy", "notify", "count", "claim", "receipt", "send", "acked"},
                env : Envelope \cup {NoEnvelope}]
  /\ child.at # "idle" => child.env \in Envelope

DeliverySteps ==
  \/ MessageMissing \/ Refuse \/ Announce \/ Admit \/ Count \/ Limited \/ ClaimSource
  \/ DuplicateSource \/ Send \/ Complete \/ PolicyUnavailable \/ MessageMissed \/ AckLost \/ Die

LEMMA DeliveryLeaves ==
  ASSUME DeliverySteps
  PROVE  UNCHANGED <<base, written>>
BY DEF DeliverySteps, MessageMissing, MessageMissed, Nothing, Refuse, Announce, Admit, Count,
   Limited, ClaimSource, DuplicateSource, Send, Complete, PolicyUnavailable, AckLost, Die

LEMMA ChildInit == Init => ChildPlaced
BY DEF Init, DeliveryInit, NoChild, ChildPlaced

\* A delivery goes on with its envelope, ends, or begins with one.
LEMMA ChildStays ==
  ASSUME ChildPlaced, [Next]_vars
  PROVE  ChildPlaced'
<1>1. CASE UNCHANGED child
  BY <1>1 DEF ChildPlaced
<1>2. CASE End
  BY <1>2 DEF End, NoChild, ChildPlaced
<1>3. ASSUME NEW e \in Envelope, Take(e) PROVE ChildPlaced'
  BY <1>3 DEF Take, ChildPlaced
<1>4. ASSUME NEW l \in {"notify", "count", "claim", "receipt", "send", "acked"}, Goto(l),
             child.at # "idle"
      PROVE  ChildPlaced'
  BY <1>4 DEF Goto, ChildPlaced
<1>5. CASE HandOn
  BY <1>2, <1>4, <1>5 DEF HandOn, Handing, MessageMissing, Nothing, Refuse, Announce, Admit, Count,
     Limited, ClaimSource, DuplicateSource, Send, Complete, WriteReceipt, Finish, AfterCount
<1>6. CASE HandOnFails
  BY <1>1, <1>2, <1>6 DEF HandOnFails, PolicyUnavailable, Unanswered, Requeue, MessageMissed, Nothing,
     Finish, AckLost, Die
<1>7. CASE UNCHANGED vars
  BY <1>1, <1>7 DEF vars, deliveryVars
<1>8. CASE Crash
  BY <1>2, <1>8 DEF Crash, End
<1>9. CASE Around
  BY <1>1, <1>9 DEF Around, AdapterRestart, HourPasses, Observe, GrantChanges, Age, deliveryVars
<1>10. CASE Operator \/ Boot \/ Consume \/ WorkerStops
  BY <1>1, <1>10 DEF Operator, Boot, Consume, WorkerStops, deliveryOnly, deliveryVars
<1>11. CASE \/ \E e \in Envelope : Ask(e)
            \/ \E r \in Request : RunReply(r)
            \/ \E a \in R!Actor : ReplyStep(a) \/ ReplyFails(a)
  BY <1>1, <1>11 DEF Ask, RunReply, ReplyStep, ReplyFails, deliveryOnly, deliveryVars
<1>12. QED
  BY <1>3, <1>5, <1>6, <1>7, <1>8, <1>9, <1>10, <1>11 DEF Next, TakeMarker

LEMMA InvariantStep ==
  ASSUME IsFiniteSet(Request), Invariant, ChildPlaced, [Next]_vars
  PROVE  Invariant'
<1>1. CASE UNCHANGED vars
  BY <1>1, Elsewhere DEF vars, deliveryVars, replyOnly
<1>2. CASE \E e \in Envelope : TakeMarker(e)
  BY <1>2, Elsewhere DEF TakeMarker, Take, replyOnly
<1>3. CASE HandOn
  <2>1. UNCHANGED replyOnly /\ (DeliverySteps \/ WriteReceipt)
    BY <1>3 DEF HandOn, Handing, DeliverySteps
  <2>2. CASE WriteReceipt
    <3>1. child.env \in Envelope
      BY <2>2 DEF WriteReceipt, ChildPlaced
    <3>2. QED
      BY <2>1, <2>2, <3>1, KeptByWriteReceipt
  <2>3. CASE DeliverySteps
    BY <2>1, <2>3, DeliveryLeaves, Elsewhere DEF replyOnly
  <2>4. QED
    BY <2>1, <2>2, <2>3
<1>4. CASE HandOnFails
  <2>1. UNCHANGED replyOnly /\ DeliverySteps
    BY <1>4 DEF HandOnFails, DeliverySteps
  <2>2. QED
    BY <2>1, DeliveryLeaves, Elsewhere DEF replyOnly
<1>5. CASE \E r \in Request : RunReply(r)
  BY <1>5, KeptByOpen DEF RunReply, deliveryOnly, R!Actor
<1>6. ASSUME NEW a \in R!Actor, ReplyStep(a) \/ ReplyFails(a) PROVE Invariant'
  <2>1. UNCHANGED written /\ (R!Running(a) \/ R!Failing(a))
    BY <1>6 DEF ReplyStep, ReplyFails, deliveryOnly
  <2>2. QED
    BY <2>1, KeptByReply
<1>7. CASE Operator
  <2>1. UNCHANGED written
    BY <1>7 DEF Operator, deliveryOnly
  <2>2. CASE \E r \in Request : R!Sign(r)
    BY <2>1, <2>2, Elsewhere DEF R!Sign, R!fileVars, R!historyVars
  <2>3. CASE \E r \in Request, m \in {"prepare", "direct"} \cup Approval : R!Open("operator", r, m)
    BY <2>1, <2>3, KeptByOpen DEF R!Actor
  <2>4. QED
    BY <1>7, <2>2, <2>3 DEF Operator
<1>8. CASE Boot \/ Consume \/ WorkerStops
  BY <1>8, Elsewhere DEF Boot, Consume, WorkerStops, deliveryVars, replyOnly
<1>9. CASE Around
  <2>1. UNCHANGED <<base, written>> /\ UNCHANGED replyOnly
    BY <1>9 DEF Around, AdapterRestart, HourPasses, Observe, GrantChanges, Age, deliveryVars
  <2>2. QED
    BY <2>1, Elsewhere DEF replyOnly
<1>10. QED
  BY <1>1, <1>2, <1>3, <1>4, <1>5, <1>6, <1>7, <1>8, <1>9, KeptByAsk, KeptByCrash DEF Next

LEMMA InvariantAnswers ==
  ASSUME IsFiniteSet(Request), Invariant
  PROVE  AnswersWithinReceipts
<1> SUFFICES ASSUME NEW e \in Envelope
             PROVE  Cardinality({r \in Request : about[r] = e /\ sent[r] # {}}) <= written[e]
  BY DEF AnswersWithinReceipts
<1> DEFINE answered == {r \in Request : about[r] = e /\ sent[r] # {}}
<1>1. answered \subseteq Holders(e)
  BY DEF Invariant, SentHolds, Holders
<1>2. IsFiniteSet(Holders(e)) /\ Cardinality(Holders(e)) \in Nat
  BY HoldersFinite
<1>3. Cardinality(answered) <= Cardinality(Holders(e)) /\ Cardinality(answered) \in Nat
  BY <1>1, <1>2, FS_Subset, FS_CardinalityType
<1>4. Cardinality(Holders(e)) + (IF e \in base THEN 1 ELSE 0) <= written[e] /\ written[e] \in Nat
  BY DEF Invariant, FileTypes, ReceiptsCounted
<1> HIDE DEF answered
<1>5. Cardinality(answered) <= written[e]
  BY <1>2, <1>3, <1>4
<1>6. QED
  BY <1>5 DEF answered

-----------------------------------------------------------------------------
\* However many requests are made for an envelope and whoever runs them, stopped
\* where they may be, at most as many replies are out as receipts were written
\* (claimReceipt and stampReceipt, instance-broker-reply.mjs:192-201).
THEOREM Answers == ASSUME IsFiniteSet(Request) PROVE Spec => []AnswersWithinReceipts
<1>1. Init => Invariant /\ ChildPlaced
  BY InvariantInit, ChildInit
<1>2. Invariant /\ ChildPlaced /\ [Next]_vars => Invariant' /\ ChildPlaced'
  BY InvariantStep, ChildStays
<1>3. Invariant => AnswersWithinReceipts
  BY InvariantAnswers
<1>4. QED
  BY <1>1, <1>2, <1>3, PTL DEF Spec

-----------------------------------------------------------------------------
(* One event to a request.  Only one of the two processes enacts a request:  *)
(* the daemon a channel reply, the operator a public one.  So a record that   *)
(* is in hand is still the record on the disk when it is enacted, and nothing *)
(* replaces one that was signed.  Beside the daemon an operator who runs      *)
(* --prepare by hand could: the theorem is about those who do not.            *)

\* A record has an event once it is signed, and only that event is out.
Recorded(r) ==
  /\ outbound[r].state = "absent" \/ about[r] \in Envelope
  /\ outbound[r].event = 0 <=> outbound[r].state \in {"absent", "frozen"}
  /\ sent[r] \subseteq {outbound[r].event} \ {0}
  /\ approvals[r] # {} => outbound[r].state # "absent" /\ ~R!ChannelReply(about[r])

\* What a run of process a may be.
Fits(a, p) ==
  p.at # "idle" =>
    /\ p.req \in Request /\ about[p.req] \in Envelope
    /\ p.at = "prepared" => a = "daemon" /\ R!ChannelReply(about[p.req])
    /\ p.at # "prepared" /\ a = "daemon" =>
         p.mode = "prepare" \/ (p.mode = "direct" /\ R!ChannelReply(about[p.req]))
    /\ p.at # "prepared" /\ a = "operator" =>
         /\ p.mode \in Approval \cup {"direct"} /\ ~R!ChannelReply(about[p.req])
         /\ outbound[p.req].state # "absent"
    /\ p.at = "freeze" => outbound[p.req].state = "absent"
    /\ p.at \in {"enact", "publish", "sent", "final"} =>
         /\ p.mode # "prepare" /\ p.rec.event = outbound[p.req].event
         /\ outbound[p.req].state # "absent"
    /\ p.at \in {"publish", "sent", "final"} => p.rec.event # 0

OneEvent ==
  /\ approvals \in [Request -> SUBSET Approval]
  /\ \A r \in Request : Recorded(r)
  /\ \A a \in R!Actor : Fits(a, proc[a])

Both == Invariant /\ OneEvent

LEMMA OneEventInit == Init => OneEvent
BY DEF Init, R!ReplyInit, OneEvent, Recorded, Fits, R!NoRecord, R!NoProc, R!Actor

\* A run that is under way, with what it may rely on.
LEMMA RunFits ==
  ASSUME Both, NEW a \in R!Actor, proc[a].at # "idle"
  PROVE  /\ proc[a] \in Proc /\ Fits(a, proc[a]) /\ R!Req(a) = proc[a].req
         /\ R!Req(a) \in Request /\ about[R!Req(a)] \in Envelope /\ R!Env(a) = about[R!Req(a)]
         /\ outbound[R!Req(a)] \in Rec /\ Recorded(R!Req(a))
BY DEF Both, Invariant, ReplyTypes, OneEvent, Fits, R!Req, R!Env

LEMMA NoProcFits == \A a : Fits(a, R!NoProc)
BY Shapes DEF Fits

\* A step of one run that leaves the records alone.
LEMMA RunSendsFit ==
  ASSUME Both, UNCHANGED <<about, outbound, approvals>>, NEW a \in R!Actor,
         NEW p, Fits(a, p), proc' = [proc EXCEPT ![a] = p],
         \A r \in Request : sent'[r] \subseteq {outbound[r].event} \ {0}
  PROVE  OneEvent'
<1>1. ASSUME NEW b \in R!Actor PROVE Fits(b, proc[b])'
  <2>1. proc'[b] = IF b = a THEN p ELSE proc[b]
    BY DEF Both, Invariant, ReplyTypes
  <2>2. CASE b = a
    BY <2>1, <2>2 DEF Fits, R!ChannelReply
  <2>3. CASE b # a
    BY <2>1, <2>3 DEF Both, OneEvent, Fits, R!ChannelReply
  <2>4. QED
    BY <2>2, <2>3
<1>2. ASSUME NEW r \in Request PROVE Recorded(r)'
  BY DEF Both, OneEvent, Recorded, R!ChannelReply
<1>3. QED
  BY <1>1, <1>2 DEF Both, OneEvent

LEMMA RunTurnsFit ==
  ASSUME Both, UNCHANGED <<about, outbound, approvals, sent>>, NEW a \in R!Actor,
         NEW p, Fits(a, p), proc' = [proc EXCEPT ![a] = p]
  PROVE  OneEvent'
BY RunSendsFit DEF Both, OneEvent, Recorded

LEMMA RunEndsFit ==
  ASSUME Both, UNCHANGED <<about, outbound, approvals, sent>>, NEW a \in R!Actor, R!Exit(a)
  PROVE  OneEvent'
BY NoProcFits, RunTurnsFit DEF R!Exit

\* No record and no run changes.
LEMMA ElsewhereFit ==
  ASSUME Both, UNCHANGED <<about, outbound, approvals, sent, proc>>
  PROVE  OneEvent'
BY DEF Both, OneEvent, Fits, Recorded, R!ChannelReply

\* A step that writes the record of its run's request: the other process is
\* not at that request, or does not enact it.
LEMMA RecordFits ==
  ASSUME Both, UNCHANGED <<about, approvals>>, NEW a \in R!Actor, NEW p,
         proc' = [proc EXCEPT ![a] = p], Fits(a, p)',
         NEW r \in Request, Fits(a, proc[a]), proc[a].at \notin {"idle", "prepared"}, proc[a].req = r,
         NEW rec \in Rec, outbound' = [outbound EXCEPT ![r] = rec], Recorded(r)',
         \A q \in Request \ {r} : sent'[q] = sent[q],
         rec.state # "absent",
         proc[a].at = "freeze" \/ (proc[a].mode # "prepare" /\ outbound[r].state # "absent")
  PROVE  OneEvent'
<1>1. ASSUME NEW b \in R!Actor, b # a PROVE Fits(b, proc[b])'
  <2>1. proc'[b] = proc[b] /\ Fits(b, proc[b]) /\ {a, b} = {"daemon", "operator"}
    BY <1>1 DEF Both, OneEvent, Invariant, ReplyTypes, R!Actor
  <2>2. outbound' \in [Request -> Rec] /\ \A q \in Request \ {r} : outbound'[q] = outbound[q]
    BY DEF Both, Invariant, ReplyTypes
  <2>3. CASE proc[b].req # r
    BY <2>1, <2>2, <2>3 DEF Fits, R!ChannelReply
  <2>4. CASE proc[b].req = r
    <3>1. outbound'[r] = rec
      BY DEF Both, Invariant, ReplyTypes
    <3>2. proc[b].at \notin {"freeze", "enact", "publish", "sent", "final"}
      BY <2>1, <2>4, ParticipantAssumption DEF Fits
    <3>3. QED
      BY <2>1, <2>4, <3>1, <3>2 DEF Fits, R!ChannelReply
  <2>5. QED
    BY <2>3, <2>4
<1>2. Fits(a, proc[a])'
  BY DEF Both, Invariant, ReplyTypes, Fits, R!ChannelReply
<1>3. ASSUME NEW q \in Request, q # r PROVE Recorded(q)'
  <2>1. outbound'[q] = outbound[q] /\ sent'[q] = sent[q] /\ Recorded(q)
    BY <1>3 DEF Both, Invariant, ReplyTypes, OneEvent
  <2>2. QED
    BY <2>1 DEF Recorded, R!ChannelReply
<1>4. QED
  BY <1>1, <1>2, <1>3 DEF Both, OneEvent

\* A run that goes on to another step with the same request and mode.
LEMMA GoesOnFit ==
  ASSUME Both, NEW a \in R!Actor, NEW l \in {"claim", "record", "freeze"}, R!Goto(a, l),
         proc[a].at \in {"policy", "claim", "record"},
         l = "freeze" => outbound[R!Req(a)].state = "absent",
         UNCHANGED <<about, outbound, approvals, sent>>
  PROVE  OneEvent'
<1> DEFINE p == [proc[a] EXCEPT !.at = l]
<1>1. p.at = l /\ p.req = proc[a].req /\ p.mode = proc[a].mode /\ p.rec = proc[a].rec
  BY RunFits DEF Proc
<1>2. Fits(a, p)
  BY <1>1, RunFits DEF Fits
<1>3. proc' = [proc EXCEPT ![a] = p]
  BY DEF R!Goto
<1> HIDE DEF p
<1>4. QED
  BY <1>2, <1>3, RunTurnsFit

\* ExitDone: only the daemon, at a channel reply, waits to run --direct.
LEMMA DoneFits ==
  ASSUME Both, NEW a \in R!Actor, proc[a].at # "idle", R!ExitDone(a)
  PROVE  \E p : /\ p.at \in {"idle", "prepared"} /\ Fits(a, p)
                /\ p.at = "prepared" => p.req = R!Req(a)
                /\ proc' = [proc EXCEPT ![a] = p]
<1>1. CASE R!Exit(a)
  BY <1>1, Shapes, NoProcFits DEF R!Exit
<1> DEFINE p == [R!NoProc EXCEPT !.at = "prepared", !.req = R!Req(a)]
<1>2. CASE proc' = [proc EXCEPT ![a] = p] /\ a = "daemon" /\ R!ChannelReply(R!Env(a))
  <2>1. p.at = "prepared" /\ p.req = R!Req(a)
    BY DEF R!NoProc
  <2>2. Fits(a, p)
    BY <1>2, <2>1, RunFits DEF Fits
  <2> HIDE DEF p
  <2>3. QED
    BY <1>2, <2>1, <2>2
<1>3. QED
  BY <1>1, <1>2 DEF R!ExitDone, R!Actor

LEMMA FitsOpen ==
  ASSUME Both, "prepare" \notin Faults, NEW a \in R!Actor, NEW r \in Request,
         NEW m \in {"prepare", "direct"} \cup Approval, R!Open(a, r, m), UNCHANGED sent
  PROVE  OneEvent'
<1>1. UNCHANGED <<about, outbound, approvals, sent>> /\ R!MayRun(a, r, m) /\ about[r] \in Envelope
  BY DEF R!Open, R!historyVars, Both, Invariant, ReplyTypes
<1>2. CASE UNCHANGED proc
  BY <1>1, <1>2, ElsewhereFit
<1>3. CASE R!Exit(a)
  BY <1>1, <1>3, RunEndsFit
<1>4. /\ a = "daemon" => m = "prepare" \/ (m = "direct" /\ R!ChannelReply(about[r]))
      /\ a = "operator" => /\ m \in Approval \cup {"direct"} /\ ~R!ChannelReply(about[r])
                           /\ outbound[r].state # "absent"
  BY <1>1 DEF R!MayRun, R!Actor, Both, OneEvent, Recorded, Fits
<1> DEFINE p == [at |-> "policy", req |-> r, mode |-> m, rec |-> R!NoRecord,
                 path |-> IF r \in inflight THEN "inflight" ELSE "base"]
<1>5. Fits(a, p)
  BY <1>1, <1>4 DEF Fits
<1> HIDE DEF p
<1>6. CASE proc' = [proc EXCEPT ![a] = p]
  BY <1>1, <1>5, <1>6, RunTurnsFit
<1>7. QED
  BY <1>2, <1>3, <1>6 DEF R!Open, R!Exit, p

\* The operator signs only a public reply that has its record.
LEMMA FitsSign ==
  ASSUME Both, NEW r \in Request, R!Sign(r)
  PROVE  OneEvent'
<1> DEFINE fresh == Approval \ UNION {approvals[q] : q \in Request}
<1>1. UNCHANGED <<about, outbound, sent, proc>>
  BY DEF R!Sign, R!historyVars
<1>2. PICK n \in Approval : approvals' = [approvals EXCEPT ![r] = @ \cup {n}]
  <2>1. fresh # {} /\ approvals' = [approvals EXCEPT ![r] = @ \cup {CHOOSE n \in fresh : TRUE}]
    BY DEF R!Sign
  <2>2. (CHOOSE n \in fresh : TRUE) \in fresh
    BY <2>1
  <2>3. QED
    BY <2>1, <2>2
<1>3. \A q \in Request : approvals'[q] # {} => approvals[q] # {} \/ q = r
  BY <1>2 DEF Both, OneEvent
<1>4. outbound[r].state = "frozen" /\ ~R!ChannelReply(about[r])
  BY DEF R!Sign
<1>5. ASSUME NEW q \in Request PROVE Recorded(q)'
  BY <1>1, <1>3, <1>4, <1>5 DEF Both, OneEvent, Recorded, R!ChannelReply
<1>6. \A a \in R!Actor : Fits(a, proc[a])'
  BY <1>1 DEF Both, OneEvent, Fits, R!ChannelReply
<1>7. QED
  BY <1>2, <1>5, <1>6 DEF Both, OneEvent

\* Proceed, from a record that is on the disk.
LEMMA FitsLoad ==
  ASSUME Both, NEW a \in R!Actor, R!Load(a), UNCHANGED sent
  PROVE  OneEvent'
<1>1. /\ UNCHANGED <<about, outbound, approvals, sent>> /\ proc[a].at = "record"
      /\ R!Proceed(a, outbound[R!Req(a)]) /\ outbound[R!Req(a)].state # "absent"
  BY DEF R!Load
<1>2. CASE proc[a].mode = "prepare"
  <2>1. PICK p : Fits(a, p) /\ proc' = [proc EXCEPT ![a] = p]
    BY <1>1, <1>2, DoneFits DEF R!Proceed
  <2>2. QED
    BY <1>1, <2>1, RunTurnsFit
<1>3. CASE proc[a].mode # "prepare"
  <2> DEFINE p == [proc[a] EXCEPT !.at = "enact", !.rec = outbound[R!Req(a)]]
  <2>1. /\ p.at = "enact" /\ p.req = R!Req(a) /\ p.mode = proc[a].mode
        /\ p.rec = outbound[R!Req(a)]
    BY <1>1, RunFits DEF Proc
  <2>2. proc' = [proc EXCEPT ![a] = p]
    BY <1>1, <1>3 DEF R!Proceed
  <2> HIDE DEF p
  <2>3. Fits(a, p)
    BY <1>1, <1>3, <2>1, RunFits DEF Fits
  <2>4. QED
    BY <1>1, <2>2, <2>3, RunTurnsFit
<1>4. QED
  BY <1>2, <1>3

LEMMA FitsFreeze ==
  ASSUME Both, NEW a \in R!Actor, R!Freeze(a), UNCHANGED sent
  PROVE  OneEvent'
<1> PICK r \in Request : r = R!Req(a)
  BY RunFits DEF R!Freeze
<1>1. /\ UNCHANGED <<about, approvals, sent>> /\ proc[a].at = "freeze"
      /\ outbound' = [outbound EXCEPT ![r] = R!Frozen] /\ R!Proceed(a, R!Frozen)
  BY DEF R!Freeze
<1>2. /\ proc[a] \in Proc /\ Fits(a, proc[a]) /\ r = proc[a].req /\ r \in Request
      /\ about[r] \in Envelope /\ R!Env(a) = about[r] /\ Recorded(r)
  BY <1>1, RunFits
<1>3. outbound'[r] = R!Frozen /\ outbound[r].state = "absent"
  BY <1>1, <1>2 DEF Both, Invariant, ReplyTypes, Fits
<1>4. Recorded(r)'
  BY <1>1, <1>2, <1>3 DEF Recorded, R!Frozen
<1>5. PICK p : proc' = [proc EXCEPT ![a] = p] /\ Fits(a, p)'
  <2>1. CASE proc[a].mode = "prepare"
    <3>1. PICK p : /\ p.at \in {"idle", "prepared"} /\ Fits(a, p)
                   /\ proc' = [proc EXCEPT ![a] = p]
      BY <1>1, <2>1, DoneFits DEF R!Proceed
    <3>2. Fits(a, p)'
      BY <1>1, <3>1 DEF Fits, R!ChannelReply
    <3>3. QED
      BY <3>1, <3>2
  <2>2. CASE proc[a].mode # "prepare"
    <3> PICK p : p = [proc[a] EXCEPT !.at = "enact", !.rec = R!Frozen]
      OBVIOUS
    <3>1. p.at = "enact" /\ p.req = r /\ p.mode = proc[a].mode /\ p.rec = R!Frozen
      BY <1>2 DEF Proc
    <3>2. proc' = [proc EXCEPT ![a] = p]
      BY <1>1, <2>2 DEF R!Proceed
    <3>3. Fits(a, p)'
      BY <1>1, <1>2, <1>3, <2>2, <3>1 DEF Fits, R!ChannelReply, R!Frozen
    <3>4. QED
      BY <3>2, <3>3
  <2>3. QED
    BY <2>1, <2>2
<1>6. R!Frozen.state # "absent" /\ proc[a].at \notin {"idle", "prepared"}
  BY <1>1 DEF R!Frozen
<1>7. QED
  BY <1>1, <1>2, <1>4, <1>5, <1>6, Shapes, RecordFits

\* What is signed has a number, and the record it replaces had none.
LEMMA FitsEnact ==
  ASSUME Both, NEW a \in R!Actor, R!Enact(a), UNCHANGED sent
  PROVE  OneEvent'
<1> PICK r \in Request : r = R!Req(a)
  BY RunFits DEF R!Enact
<1> DEFINE signed == [by |-> proc[a].mode, event |-> R!Signature(r), state |-> "signed"]
<1>1. UNCHANGED <<about, approvals, sent>> /\ proc[a].at = "enact"
  BY DEF R!Enact
<1>2. /\ proc[a] \in Proc /\ Fits(a, proc[a]) /\ r = proc[a].req /\ r \in Request
      /\ about[r] \in Envelope /\ Recorded(r) /\ outbound[r] \in Rec
  BY <1>1, RunFits
<1>3. proc[a].mode # "prepare" /\ proc[a].rec.event = outbound[r].event
  BY <1>1, <1>2 DEF Fits
<1>4. CASE R!Unsigned(a)
  <2> PICK p : p = [proc[a] EXCEPT !.at = "publish", !.rec = signed]
    OBVIOUS
  <2>1. R!Signature(r) \in Nat \ {0}
    BY <1>2 DEF R!Signature, Both, Invariant, ReplyTypes
  <2>2. signed \in Rec /\ signed.event # 0 /\ signed.state = "signed"
    BY <1>2, <2>1 DEF Proc, Rec, Modes
  <2>3. p.at = "publish" /\ p.req = r /\ p.mode = proc[a].mode /\ p.rec = signed
    BY <1>2 DEF Proc
  <2>4. outbound' = [outbound EXCEPT ![r] = signed] /\ proc' = [proc EXCEPT ![a] = p]
    BY <1>4 DEF R!Enact
  <2> HIDE DEF signed
  <2>5. outbound'[r] = signed
    BY <1>2, <2>4 DEF Both, Invariant, ReplyTypes
  <2>6. outbound[r].event = 0 /\ sent[r] = {} /\ outbound[r].state = "frozen"
    BY <1>1, <1>2, <1>3, <1>4 DEF Recorded, Fits, R!Unsigned
  <2>7. Recorded(r)'
    BY <1>1, <1>2, <2>2, <2>5, <2>6 DEF Recorded, R!ChannelReply
  <2>8. Fits(a, p)'
    BY <1>1, <1>2, <1>3, <2>2, <2>3, <2>5 DEF Fits, R!ChannelReply
  <2>9. QED
    BY <1>1, <1>2, <1>3, <2>2, <2>4, <2>6, <2>7, <2>8, RecordFits
<1>5. CASE ~R!Unsigned(a)
  <2> DEFINE p == [proc[a] EXCEPT !.at = "publish"]
  <2>1. p.at = "publish" /\ p.req = r /\ p.mode = proc[a].mode /\ p.rec = proc[a].rec
    BY <1>2 DEF Proc
  <2>2. proc' = [proc EXCEPT ![a] = p] /\ UNCHANGED outbound
    BY <1>5 DEF R!Enact, R!Goto
  <2> HIDE DEF p
  <2>3. Fits(a, p)
    BY <1>1, <1>2, <1>3, <1>5, <2>1 DEF Fits, R!Unsigned
  <2>4. QED
    BY <1>1, <2>2, <2>3, RunTurnsFit
<1>6. QED
  BY <1>4, <1>5

\* What goes out is the event of the record.
LEMMA OutFits ==
  ASSUME Both, NEW a \in R!Actor, proc[a].at = "publish", R!Out(a)
  PROVE  \A r \in Request : sent'[r] \subseteq {outbound[r].event} \ {0}
<1>1. /\ R!Req(a) \in Request /\ proc[a].rec.event = outbound[R!Req(a)].event
      /\ outbound[R!Req(a)].event # 0
  BY RunFits DEF Fits
<1>2. sent \in [Request -> SUBSET Nat] /\ \A r \in Request : sent[r] \subseteq {outbound[r].event} \ {0}
  BY DEF Both, Invariant, OneEvent, Recorded
<1>3. QED
  BY <1>1, <1>2 DEF R!Out

LEMMA FitsPublish ==
  ASSUME Both, NEW a \in R!Actor, R!Publish(a)
  PROVE  OneEvent'
<1>1. UNCHANGED <<about, outbound, approvals>> /\ proc[a].at = "publish" /\ R!Out(a)
  BY DEF R!Publish
<1> DEFINE p == [proc[a] EXCEPT !.at = "sent"]
<1>2. p.at = "sent" /\ p.req = proc[a].req /\ p.mode = proc[a].mode /\ p.rec = proc[a].rec
  BY <1>1, RunFits DEF Proc
<1>3. proc' = [proc EXCEPT ![a] = p]
  BY DEF R!Publish, R!Goto
<1> HIDE DEF p
<1>4. Fits(a, p)
  BY <1>1, <1>2, RunFits DEF Fits
<1>5. QED
  BY <1>1, <1>3, <1>4, OutFits, RunSendsFit

LEMMA FitsNotAcknowledged ==
  ASSUME Both, NEW a \in R!Actor, R!NotAcknowledged(a)
  PROVE  OneEvent'
<1>1. UNCHANGED <<about, outbound, approvals>> /\ proc[a].at = "publish" /\ R!Exit(a)
  BY DEF R!NotAcknowledged, R!Held
<1>2. CASE UNCHANGED sent
  BY <1>1, <1>2, RunEndsFit
<1>3. CASE R!Out(a)
  BY <1>1, <1>3, NoProcFits, OutFits, RunSendsFit DEF R!Exit
<1>4. QED
  BY <1>2, <1>3 DEF R!NotAcknowledged

\* The published record has the event of the signed one, and so has a torn one.
LEMMA FitsMarkPublished ==
  ASSUME Both, NEW a \in R!Actor, R!MarkPublished(a), UNCHANGED sent
  PROVE  OneEvent'
<1> PICK r \in Request : r = R!Req(a)
  BY RunFits DEF R!MarkPublished
<1>a. PICK rec : rec = [proc[a].rec EXCEPT !.state = "published"]
  OBVIOUS
<1>b. PICK p : p = [proc[a] EXCEPT !.at = "final"]
  OBVIOUS
<1>1. UNCHANGED <<about, approvals, sent>> /\ proc[a].at = "sent"
  BY DEF R!MarkPublished
<1>2. /\ proc[a] \in Proc /\ Fits(a, proc[a]) /\ r = proc[a].req
      /\ about[r] \in Envelope /\ Recorded(r) /\ outbound[r] \in Rec
  BY <1>1, RunFits
<1>3. /\ proc[a].mode # "prepare" /\ proc[a].rec.event = outbound[r].event
      /\ outbound[r].event # 0 /\ outbound[r].state # "absent"
  BY <1>1, <1>2 DEF Fits
<1>4. rec \in Rec /\ rec.event = outbound[r].event /\ rec.state = "published"
  BY <1>a, <1>2, <1>3 DEF Proc, Rec
<1>5. p.at = "final" /\ p.req = r /\ p.mode = proc[a].mode /\ p.rec = proc[a].rec
  BY <1>b, <1>2 DEF Proc
<1>6. outbound' = [outbound EXCEPT ![r] = rec] /\ proc' = [proc EXCEPT ![a] = p]
  BY <1>a, <1>b DEF R!MarkPublished, R!Goto
<1>7. outbound'[r] = rec
  BY <1>6 DEF Both, Invariant, ReplyTypes
<1>8. Recorded(r)'
  BY <1>1, <1>2, <1>3, <1>4, <1>7 DEF Recorded, R!ChannelReply
<1>9. Fits(a, p)'
  BY <1>1, <1>2, <1>3, <1>4, <1>5, <1>7 DEF Fits, R!ChannelReply
<1>10. QED
  BY <1>1, <1>2, <1>3, <1>4, <1>6, <1>8, <1>9, RecordFits

LEMMA FitsTear ==
  ASSUME Both, NEW a \in R!Actor, R!Tear(a), UNCHANGED sent
  PROVE  OneEvent'
<1> PICK r \in Request : r = R!Req(a)
  BY RunFits DEF R!Tear
<1> PICK rec : rec = [outbound[r] EXCEPT !.state = "torn"]
  OBVIOUS
<1>1. UNCHANGED <<about, approvals, sent>> /\ proc[a].at = "sent" /\ R!Exit(a)
  BY DEF R!Tear
<1>2. /\ proc[a] \in Proc /\ Fits(a, proc[a]) /\ r = proc[a].req
      /\ about[r] \in Envelope /\ Recorded(r) /\ outbound[r] \in Rec
  BY <1>1, RunFits
<1>3. proc[a].mode # "prepare" /\ outbound[r].event # 0 /\ outbound[r].state # "absent"
  BY <1>1, <1>2 DEF Fits
<1>4. rec \in Rec /\ rec.event = outbound[r].event /\ rec.state = "torn"
  BY <1>2 DEF Rec
<1>5. outbound' = [outbound EXCEPT ![r] = rec]
  BY <1>2 DEF R!Tear, Both, Invariant, ReplyTypes
<1>6. outbound'[r] = rec
  BY <1>5 DEF Both, Invariant, ReplyTypes
<1>7. Recorded(r)'
  BY <1>1, <1>2, <1>3, <1>4, <1>6 DEF Recorded, R!ChannelReply
<1>8. Fits(a, R!NoProc)'
  BY Shapes DEF Fits, R!NoProc
<1>9. QED
  BY <1>1, <1>2, <1>3, <1>4, <1>5, <1>7, <1>8, RecordFits DEF R!Exit

LEMMA FitsFinalize ==
  ASSUME Both, NEW a \in R!Actor, R!Finalize(a), UNCHANGED sent
  PROVE  OneEvent'
<1>1. UNCHANGED <<about, outbound, approvals, sent>> /\ proc[a].at = "final"
  BY DEF R!Finalize
<1>2. CASE R!ExitDone(a)
  BY <1>1, <1>2, DoneFits, RunTurnsFit
<1>3. CASE R!Exit(a)
  BY <1>1, <1>3, RunEndsFit
<1>4. QED
  BY <1>2, <1>3 DEF R!Finalize

\* A run that goes on, and the ways a run ends that write no record.
LEMMA FitsTurns ==
  ASSUME Both, NEW a \in R!Actor, R!Recheck(a) \/ R!Compose(a) \/ R!Claim(a), UNCHANGED sent
  PROVE  OneEvent'
<1>1. UNCHANGED <<about, outbound, approvals, sent>>
  BY DEF R!Recheck, R!Compose, R!Claim
<1>2. CASE R!Exit(a)
  BY <1>1, <1>2, RunEndsFit
<1>3. QED
  BY <1>1, <1>2, GoesOnFit DEF R!Recheck, R!Compose, R!Claim

LEMMA FitsEnds ==
  ASSUME Both, NEW a \in R!Actor, UNCHANGED sent,
         \/ R!NotLive(a) \/ R!Unusable(a) \/ R!Torn(a) \/ R!Forbid(a) \/ R!TooOld(a)
         \/ R!Rejected(a) \/ R!Die(a) \/ R!Replay(a)
  PROVE  OneEvent'
<1>1. R!Exit(a) /\ UNCHANGED <<about, outbound, approvals, sent>>
  BY DEF R!NotLive, R!Unusable, R!Refused, R!ExitTerminal, R!Torn, R!Forbid, R!TooOld, R!Denied,
         R!Rejected, R!Die, R!Replay
<1>2. QED
  BY <1>1, RunEndsFit

LEMMA FitsReply ==
  ASSUME Both, NEW a \in R!Actor, R!Running(a) \/ R!Failing(a)
  PROVE  OneEvent'
<1>1. CASE R!Publish(a) \/ R!NotAcknowledged(a)
  BY <1>1, FitsPublish, FitsNotAcknowledged
<1>2. ASSUME ~(R!Publish(a) \/ R!NotAcknowledged(a)) PROVE UNCHANGED sent
  BY <1>2 DEF R!Running, R!Failing, R!Recheck, R!NotLive, R!Claim, R!Load, R!Compose, R!Freeze,
     R!Replay, R!Torn, R!Enact, R!Forbid, R!MarkPublished, R!Finalize, R!Unusable, R!TooOld,
     R!Rejected, R!Die, R!Tear, R!Refused, R!Denied, R!historyVars
<1>3. QED
  BY <1>1, <1>2, FitsTurns, FitsLoad, FitsFreeze, FitsEnact, FitsMarkPublished, FitsFinalize,
     FitsTear, FitsEnds DEF R!Running, R!Failing

\* A new request has no record and no run.
LEMMA FitsAsk ==
  ASSUME Both, NEW e \in Envelope, Ask(e)
  PROVE  OneEvent'
<1>1. PICK r \in Request : about[r] = NoEnvelope /\ about' = [about EXCEPT ![r] = e]
  <2> DEFINE fresh == {q \in Request : about[q] = NoEnvelope}
  <2>1. fresh # {} /\ about' = [about EXCEPT ![CHOOSE q \in fresh : TRUE] = e]
    BY DEF Ask
  <2>2. (CHOOSE q \in fresh : TRUE) \in fresh
    BY <2>1
  <2>3. QED
    BY <2>1, <2>2
<1>2. UNCHANGED <<outbound, approvals, sent, proc>> /\ NoEnvelope \notin Envelope
  BY DeliveryAssumption DEF Ask
<1>3. outbound[r].state = "absent" /\ approvals[r] = {}
  BY <1>1, <1>2 DEF Both, OneEvent, Recorded
<1>4. ASSUME NEW q \in Request PROVE Recorded(q)'
  BY <1>1, <1>2, <1>3, <1>4 DEF Both, Invariant, ReplyTypes, OneEvent, Recorded, R!ChannelReply
<1>5. ASSUME NEW a \in R!Actor PROVE Fits(a, proc[a])'
  <2>1. Fits(a, proc[a]) /\ (proc[a].at # "idle" => proc[a].req # r)
    BY <1>1, <1>2 DEF Both, OneEvent, Fits
  <2>2. proc[a].at # "idle" => about'[proc[a].req] = about[proc[a].req]
    BY <1>1, <2>1 DEF Both, Invariant, ReplyTypes, Fits
  <2>3. QED
    BY <1>2, <2>1, <2>2 DEF Fits, R!ChannelReply
<1>6. QED
  BY <1>2, <1>4, <1>5 DEF Both, OneEvent

LEMMA OneEventStep ==
  ASSUME Both, "prepare" \notin Faults, [Next]_vars
  PROVE  OneEvent'
<1>1. CASE UNCHANGED replyOnly
  BY <1>1, ElsewhereFit DEF replyOnly
<1>2. CASE \E r \in Request : RunReply(r)
  <2>1. PICK r \in Request, m \in {"prepare", "direct"} : R!Open("daemon", r, m)
    BY <1>2 DEF RunReply
  <2>2. UNCHANGED sent /\ "daemon" \in R!Actor
    BY <2>1 DEF R!Open, R!historyVars, R!Actor
  <2>3. QED
    BY <2>1, <2>2, FitsOpen
<1>3. ASSUME NEW a \in R!Actor, ReplyStep(a) \/ ReplyFails(a) PROVE OneEvent'
  BY <1>3, FitsReply DEF ReplyStep, ReplyFails
<1>4. CASE Operator
  <2>1. CASE \E r \in Request : R!Sign(r)
    BY <2>1, FitsSign
  <2>2. ASSUME NEW r \in Request, NEW m \in {"prepare", "direct"} \cup Approval,
               R!Open("operator", r, m)
        PROVE  OneEvent'
    <3>1. UNCHANGED sent /\ "operator" \in R!Actor
      BY <2>2 DEF R!Open, R!historyVars, R!Actor
    <3>2. QED
      BY <2>2, <3>1, FitsOpen
  <2>3. QED
    BY <1>4, <2>1, <2>2 DEF Operator
<1>5. CASE Crash
  BY <1>5, RunEndsFit DEF Crash, R!Exit, R!Actor
<1>6. CASE Boot
  BY <1>6, ElsewhereFit DEF Boot
<1>7. QED
  BY <1>1, <1>2, <1>3, <1>4, <1>5, <1>6, FitsAsk
     DEF Next, vars, TakeMarker, HandOn, HandOnFails, Consume, WorkerStops, Around

LEMMA OneEventSent == ASSUME OneEvent PROVE RetrySendsSame
BY DEF OneEvent, Recorded, RetrySendsSame, R!RetrySendsSame

-----------------------------------------------------------------------------
\* Whoever retries a request, and wherever a run was stopped, only one event of
\* it reaches the relays (enactOutbound, instance-broker-reply.mjs).
THEOREM Retries ==
  ASSUME IsFiniteSet(Request), "prepare" \notin Faults PROVE Spec => []RetrySendsSame
<1>1. Init => Invariant /\ ChildPlaced /\ OneEvent
  BY InvariantInit, ChildInit, OneEventInit
<1>2. Invariant /\ ChildPlaced /\ OneEvent /\ [Next]_vars => (Invariant /\ ChildPlaced /\ OneEvent)'
  BY InvariantStep, ChildStays, OneEventStep DEF Both
<1>3. OneEvent => RetrySendsSame
  BY OneEventSent
<1>4. QED
  BY <1>1, <1>2, <1>3, PTL DEF Spec

-----------------------------------------------------------------------------
(* No mail is lost.  The marker of an envelope is the only memory of it, so   *)
(* every step that finishes one must leave something in its place: a row of   *)
(* the adapter's queue, a denial, or the marker of the envelope that claimed   *)
(* the same source.  A relay that answers and does not have the message, and   *)
(* a message older than attention looks back, are taken for no mail at all:    *)
(* the theorem is about mail that is neither.                                  *)

\* The envelope was turned down, has a marker, or has a row.
Alive(f) == f \in denied \/ Unfinished(f) \/ tasks[f] # <<>>

MailTypes ==
  /\ spool \in [Envelope -> SUBSET {"pending", "inflight", "done"}]
  /\ tasks \in [Envelope -> Seq({"task", "notice"})]
  /\ claimedBy \in [Sources -> Envelope \cup {NoEnvelope}]
  /\ delivered \subseteq Envelope /\ aged = {}

\* The delivery under way has the marker, and a denial or a row where it must.
ChildHolds ==
  /\ ~up => child = NoChild
  /\ child.at # "idle" => child.env \in Envelope /\ "inflight" \in spool[child.env]
  /\ child.at = "notify" => child.env \in denied
  /\ child.at = "acked" => tasks[child.env] # <<>>

\* Only what was turned down has another row than its task, and the adapter
\* takes for queued only what is.
RowsMean ==
  /\ \A e \in delivered : tasks[e] # <<>>
  /\ \A e \in Envelope \ denied : \A i \in DOMAIN tasks[e] : tasks[e][i] = "task"

ClaimsMean ==
  \A s \in Sources : claimedBy[s] # NoEnvelope =>
    Source[claimedBy[s]] = s /\ Alive(claimedBy[s])

DoneMeans == \A e \in Envelope : "done" \in spool[e] => \E f \in Twins(e) : Alive(f)

Mail == MailTypes /\ ChildHolds /\ RowsMean /\ ClaimsMean /\ DoneMeans

LEMMA MailInit == Init => Mail
BY DEF Init, DeliveryInit, NoChild, Mail, MailTypes, ChildHolds, RowsMean, ClaimsMean, DoneMeans

\* Steps that touch neither markers nor rows nor claims, and forget no denial.
LEMMA MailElsewhere ==
  ASSUME Mail, UNCHANGED <<spool, tasks, claimedBy, delivered, aged>>, denied \subseteq denied',
         ChildHolds'
  PROVE  Mail'
BY DEF Mail, MailTypes, RowsMean, ClaimsMean, DoneMeans, Alive, Unfinished

\* A step of the delivery that goes on.
LEMMA MailGoesOn ==
  ASSUME Mail, NEW l, Goto(l), l \notin {"idle", "notify", "acked"}, child.at # "idle",
         UNCHANGED <<spool, tasks, claimedBy, delivered, aged, up, denied>>
  PROVE  Mail'
<1>1. child' = [child EXCEPT !.at = l] /\ up
  BY DEF Goto, Mail, ChildHolds, NoChild
<1>2. ChildHolds'
  BY <1>1 DEF Mail, ChildHolds
<1>3. QED
  BY <1>2, MailElsewhere

\* A marker that is put back or taken still stands for its mail.
LEMMA MailRenamed ==
  ASSUME Mail, NEW e \in Envelope, NEW from \in {"pending", "inflight"},
         NEW to \in {"pending", "inflight"},
         spool' = [spool EXCEPT ![e] = (@ \ {from}) \cup {to}],
         UNCHANGED <<tasks, claimedBy, delivered, aged, denied>>, ChildHolds'
  PROVE  Mail'
<1>1. MailTypes' /\ \A f \in Envelope : /\ "done" \in spool'[f] <=> "done" \in spool[f]
                                        /\ Unfinished(f) => Unfinished(f)'
  BY DEF Mail, MailTypes, Unfinished
<1>2. QED
  BY <1>1 DEF Mail, MailTypes, RowsMean, ClaimsMean, DoneMeans, Alive, Twins, Sources

\* A marker is finished when its envelope, or the one that claimed the source,
\* is alive without it.
LEMMA MailFinished ==
  ASSUME Mail, child.at # "idle", Finish, denied \subseteq denied',
         UNCHANGED <<tasks, claimedBy, delivered, aged>>,
         \/ child.env \in denied' \/ tasks[child.env] # <<>>
         \/ /\ claimedBy[Source[child.env]] \notin {NoEnvelope, child.env}
  PROVE  Mail'
<1> PICK e \in Envelope : e = child.env
  BY DEF Mail, ChildHolds
<1>1. /\ spool' = [spool EXCEPT ![e] = (@ \ {"inflight"}) \cup {"done"}] /\ child' = NoChild
  BY DEF Finish, Rename, End
<1>2. MailTypes' /\ ChildHolds' /\ RowsMean'
  BY <1>1 DEF Mail, MailTypes, ChildHolds, RowsMean, NoChild
<1>3. ASSUME NEW f \in Envelope, f # e \/ e \in denied' \/ tasks[e] # <<>>, Alive(f)
      PROVE  Alive(f)'
  BY <1>1, <1>3 DEF Mail, MailTypes, Alive, Unfinished
<1>4. ASSUME NEW f \in Envelope, Alive(f)
      PROVE  \E g \in Twins(f) : Alive(g)'
  <2>1. CASE f # e \/ e \in denied' \/ tasks[e] # <<>>
    BY <1>3, <1>4, <2>1 DEF Twins
  <2>2. CASE f = e /\ claimedBy[Source[e]] \notin {NoEnvelope, e}
    <3> DEFINE g == claimedBy[Source[e]]
    <3>1. g \in Envelope /\ g # e /\ Source[g] = Source[e] /\ Alive(g)
      BY <2>2 DEF Mail, MailTypes, ClaimsMean, Sources
    <3>2. QED
      BY <1>3, <2>2, <3>1 DEF Twins
  <2>3. QED
    BY <2>1, <2>2
<1>5. DoneMeans'
  <2>1. ASSUME NEW f \in Envelope, "done" \in spool'[f] PROVE \E g \in Twins(f) : Alive(g)'
    <3>1. f = e \/ "done" \in spool[f]
      BY <1>1, <2>1 DEF Mail, MailTypes
    <3>2. PICK h \in Twins(f) : Alive(h)
      BY <3>1 DEF Mail, DoneMeans, ChildHolds, Alive, Unfinished, Twins
    <3>3. QED
      BY <1>4, <3>2 DEF Twins
  <2>2. QED
    BY <2>1 DEF DoneMeans, Twins
<1>6. ClaimsMean'
  <2>1. ASSUME NEW s \in Sources, claimedBy[s] # NoEnvelope
        PROVE  Source[claimedBy[s]] = s /\ Alive(claimedBy[s])'
    <3>1. claimedBy[s] \in Envelope /\ Source[claimedBy[s]] = s /\ Alive(claimedBy[s])
      BY <2>1 DEF Mail, MailTypes, ClaimsMean
    <3>2. QED
      BY <1>3, <3>1
  <2>2. QED
    BY <2>1 DEF ClaimsMean
<1>7. QED
  BY <1>2, <1>5, <1>6 DEF Mail

\* The adapter queues what it is handed, and a row means its task or a denial.
LEMMA MailAccepted ==
  ASSUME Mail, child.at \in {"send", "notify"}, Accept(Packet), Goto("acked") \/ End,
         UNCHANGED <<spool, claimedBy, aged, denied, up>>
  PROVE  Mail'
<1> PICK e \in Envelope : e = child.env
  BY DEF Mail, ChildHolds
<1>1. /\ tasks' = [tasks EXCEPT ![e] = NewRow(e, Packet)] /\ delivered' = delivered \cup {e}
  BY DEF Accept
<1>2. Packet \in {"task", "notice"} /\ (Packet = "task" \/ e \in denied)
  BY DEF Packet, Mail, ChildHolds
<1>3. tasks[e] \in Seq({"task", "notice"})
  BY DEF Mail, MailTypes
<1>4. /\ NewRow(e, Packet) \in Seq({"task", "notice"}) /\ NewRow(e, Packet) # <<>>
      /\ e \notin denied => \A i \in DOMAIN NewRow(e, Packet) : NewRow(e, Packet)[i] = "task"
  <2>1. CASE e \in delivered
    BY <1>3, <2>1 DEF NewRow, Mail, RowsMean
  <2>2. CASE e \notin delivered
    <3>1. /\ NewRow(e, Packet) = Append(tasks[e], Packet)
          /\ e \notin denied => \A i \in DOMAIN tasks[e] : tasks[e][i] = "task"
      BY <2>2 DEF NewRow, Mail, RowsMean
    <3> HIDE DEF Packet
    <3>2. QED
      BY <1>2, <1>3, <3>1
  <2>3. QED
    BY <2>1, <2>2
<1>5. MailTypes' /\ RowsMean'
  BY <1>1, <1>4 DEF Mail, MailTypes, RowsMean
<1>6. \A f \in Envelope : tasks[f] # <<>> => tasks'[f] # <<>>
  BY <1>1, <1>4 DEF Mail, MailTypes
<1>7. ChildHolds'
  <2>1. tasks'[e] # <<>>
    BY <1>1, <1>4 DEF Mail, MailTypes
  <2>2. up /\ "inflight" \in spool[e]
    BY DEF Mail, ChildHolds, NoChild
  <2>3. CASE child' = NoChild
    BY <2>3 DEF ChildHolds, NoChild
  <2>4. CASE child' = [child EXCEPT !.at = "acked"]
    <3>1. child'.env = e /\ child'.at \in {"acked", child.at}
      BY <2>4
    <3>2. child.at = "notify" => e \in denied
      BY DEF Mail, ChildHolds
    <3>3. QED
      BY <2>1, <2>2, <3>1, <3>2 DEF ChildHolds
  <2>5. QED
    BY <2>3, <2>4 DEF Goto, End
<1>8. ClaimsMean' /\ DoneMeans'
  BY <1>6 DEF Mail, MailTypes, ClaimsMean, DoneMeans, Twins, Alive, Unfinished
<1>9. QED
  BY <1>5, <1>7, <1>8 DEF Mail

\* The source is claimed while the marker is still there.
LEMMA MailClaimed ==
  ASSUME Mail, ClaimSource, UNCHANGED up
  PROVE  Mail'
<1> PICK e \in Envelope : e = child.env
  BY DEF ClaimSource, Mail, ChildHolds
<1>1. /\ claimedBy' = [claimedBy EXCEPT ![Source[e]] = e] /\ Goto("receipt")
      /\ UNCHANGED <<spool, delivered, tasks, denied, aged>> /\ child.at = "claim"
  BY DEF ClaimSource, worldVars
<1>2. Alive(e) /\ Source[e] \in Sources
  BY <1>1 DEF Mail, ChildHolds, Alive, Unfinished, Sources
<1>3. ChildHolds'
  BY <1>1 DEF Mail, ChildHolds, Goto, NoChild
<1>4. MailTypes' /\ RowsMean' /\ DoneMeans'
  BY <1>1, <1>2 DEF Mail, MailTypes, RowsMean, DoneMeans, Alive, Unfinished
<1>5. ClaimsMean'
  BY <1>1, <1>2 DEF Mail, MailTypes, ClaimsMean, Alive, Unfinished
<1>6. QED
  BY <1>3, <1>4, <1>5 DEF Mail

LEMMA MailHandOn ==
  ASSUME Mail, HandOn
  PROVE  Mail'
<1>1. UNCHANGED up /\ Handing
  BY DEF HandOn
<1>2. CASE MessageMissing
  BY <1>2 DEF MessageMissing, Mail, MailTypes
<1>3. CASE Refuse \/ Limited
  BY <1>3, MailFinished DEF Refuse, Limited, worldVars
<1>4. CASE Announce
  <2>1. /\ UNCHANGED <<spool, tasks, claimedBy, delivered, aged>> /\ denied' = denied \cup {child.env}
        /\ child' = [child EXCEPT !.at = "notify"] /\ child.at = "policy"
    BY <1>4 DEF Announce, Goto, worldVars
  <2>2. ChildHolds'
    BY <1>1, <2>1 DEF Mail, ChildHolds, NoChild
  <2>3. QED
    BY <2>1, <2>2, MailElsewhere
<1>5. CASE Admit \/ Count \/ WriteReceipt
  BY <1>1, <1>5, MailGoesOn DEF Admit, Count, WriteReceipt, AfterCount, worldVars
<1>6. CASE ClaimSource
  BY <1>1, <1>6, MailClaimed
<1>7. CASE DuplicateSource
  BY <1>7, MailFinished DEF DuplicateSource, Claimant, worldVars
<1>8. CASE Send
  BY <1>1, <1>8, MailAccepted DEF Send, worldVars
<1>9. CASE Complete
  BY <1>9, MailFinished DEF Complete, Mail, ChildHolds, worldVars
<1>10. QED
  BY <1>1, <1>2, <1>3, <1>4, <1>5, <1>6, <1>7, <1>8, <1>9 DEF Handing

LEMMA MailRequeued ==
  ASSUME Mail, child.at # "idle", Requeue,
         UNCHANGED <<tasks, claimedBy, delivered, aged, denied>>
  PROVE  Mail'
<1> PICK e \in Envelope : e = child.env
  BY DEF Mail, ChildHolds
<1>1. spool' = [spool EXCEPT ![e] = (@ \ {"inflight"}) \cup {"pending"}] /\ child' = NoChild
  BY DEF Requeue, Rename, End
<1>2. ChildHolds'
  BY <1>1 DEF ChildHolds, NoChild
<1>3. QED
  BY <1>1, <1>2, MailRenamed

LEMMA MailHandOnFails ==
  ASSUME Mail, "miss" \notin Faults, HandOnFails
  PROVE  Mail'
<1>1. CASE MessageMissed
  BY <1>1 DEF MessageMissed, Fault
<1>2. CASE PolicyUnavailable
  BY <1>2, MailRequeued DEF PolicyUnavailable, Unanswered, worldVars
<1>3. CASE AckLost
  BY <1>3, MailAccepted DEF AckLost, worldVars, HandOnFails
<1>4. CASE Die
  <2>1. CASE Requeue
    BY <1>4, <2>1, MailRequeued DEF Die, worldVars
  <2>2. CASE End /\ UNCHANGED spool
    <3>1. ChildHolds'
      BY <2>2 DEF End, ChildHolds, NoChild
    <3>2. QED
      BY <1>4, <2>2, <3>1, MailElsewhere DEF Die, worldVars
  <2>3. QED
    BY <1>4, <2>1, <2>2 DEF Die
<1>5. QED
  BY <1>1, <1>2, <1>3, <1>4 DEF HandOnFails

\* A marker is taken, observed or recovered.
LEMMA MailMarkers ==
  ASSUME Mail, \/ \E e \in Envelope : TakeMarker(e)
               \/ \E e \in Envelope : Observe(e) /\ UNCHANGED up
               \/ Boot
  PROVE  Mail'
<1>1. ASSUME NEW e \in Envelope, TakeMarker(e) PROVE Mail'
  <2>1. /\ up' = up /\ up /\ child' = [at |-> "policy", env |-> e] /\ "pending" \in spool[e]
        /\ spool' = [spool EXCEPT ![e] = (@ \ {"pending"}) \cup {"inflight"}]
        /\ UNCHANGED <<tasks, claimedBy, delivered, aged, denied>>
    BY <1>1 DEF TakeMarker, Free, Take, Rename, worldVars
  <2>2. ChildHolds'
    BY <2>1 DEF ChildHolds, Mail, MailTypes
  <2>3. QED
    BY <2>1, <2>2, MailRenamed
<1>2. ASSUME NEW e \in Envelope, Observe(e), UNCHANGED up PROVE Mail'
  <2>1. /\ spool' = [spool EXCEPT ![e] = @ \cup {"pending"}]
        /\ UNCHANGED <<child, tasks, claimedBy, delivered, aged, denied>>
    BY <1>2 DEF Observe, worldVars
  <2>2. ChildHolds'
    BY <1>2, <2>1 DEF Mail, ChildHolds, MailTypes
  <2>3. MailTypes' /\ \A f \in Envelope : /\ "done" \in spool'[f] <=> "done" \in spool[f]
                                          /\ Unfinished(f) => Unfinished(f)'
    BY <2>1 DEF Mail, MailTypes, Unfinished
  <2>4. QED
    BY <2>1, <2>2, <2>3 DEF Mail, MailTypes, RowsMean, ClaimsMean, DoneMeans, Alive, Twins
<1>3. ASSUME Boot PROVE Mail'
  <2>1. /\ ~up /\ up' /\ spool' = Recovered
        /\ UNCHANGED <<child, tasks, claimedBy, delivered, aged, denied>>
    BY <1>3 DEF Boot, worldVars
  <2>2. ChildHolds'
    BY <2>1 DEF Mail, ChildHolds, NoChild
  <2>3. MailTypes' /\ \A f \in Envelope : /\ "done" \in spool'[f] <=> "done" \in spool[f]
                                          /\ Unfinished(f) => Unfinished(f)'
    BY <2>1 DEF Mail, MailTypes, Unfinished, Recovered
  <2>4. QED
    BY <2>1, <2>2, <2>3 DEF Mail, MailTypes, RowsMean, ClaimsMean, DoneMeans, Alive, Twins
<1>4. QED
  BY <1>1, <1>2, <1>3

LEMMA MailStep ==
  ASSUME Mail, {"miss", "age"} \cap Faults = {}, [Next]_vars
  PROVE  Mail'
<1>1. ASSUME UNCHANGED <<spool, child, tasks, claimedBy, delivered, aged, up>>,
             UNCHANGED denied
      PROVE  Mail'
  BY <1>1, MailElsewhere DEF Mail, ChildHolds
<1>2. CASE UNCHANGED vars
  BY <1>1, <1>2 DEF vars, deliveryVars, worldVars
<1>3. ASSUME NEW e \in Envelope, Ask(e) PROVE Mail'
  BY <1>1, <1>3 DEF Ask, deliveryVars, worldVars
<1>4. CASE \/ \E r \in Request : RunReply(r)
           \/ \E a \in R!Actor : ReplyStep(a) \/ ReplyFails(a)
           \/ Operator
  <2>1. UNCHANGED <<deliveryOnly, up>>
    BY <1>4 DEF RunReply, ReplyStep, ReplyFails, Operator
  <2>2. UNCHANGED aged
    BY <1>4 DEF RunReply, ReplyStep, ReplyFails, Operator, R!Open, R!Sign, R!Running, R!Failing,
       R!Recheck, R!NotLive, R!Claim, R!Load, R!Compose, R!Freeze, R!Replay, R!Torn, R!Enact,
       R!Forbid, R!Publish, R!MarkPublished, R!Finalize, R!Unusable, R!TooOld, R!NotAcknowledged,
       R!Rejected, R!Die, R!Tear, R!Refused, R!Denied
  <2>3. QED
    BY <1>1, <2>1, <2>2 DEF deliveryOnly
<1>5. CASE Crash
  <2>1. ChildHolds'
    BY <1>5 DEF Crash, ChildHolds, NoChild
  <2>2. QED
    BY <1>5, <2>1, MailElsewhere DEF Crash, worldVars
<1>6. CASE Consume \/ WorkerStops
  BY <1>1, <1>6 DEF Consume, WorkerStops, deliveryVars, worldVars
<1>7. CASE Around
  <2>1. CASE AdapterRestart
    <3>1. delivered' = Rebuilt /\ UNCHANGED <<spool, child, tasks, claimedBy, denied, aged, up>>
      BY <1>7, <2>1 DEF AdapterRestart, Around, worldVars
    <3>2. QED
      BY <3>1 DEF Rebuilt, Mail, MailTypes, ChildHolds, RowsMean, ClaimsMean, DoneMeans, Alive,
         Unfinished
  <2>2. CASE HourPasses
    BY <1>1, <1>7, <2>2 DEF HourPasses, Around, worldVars
  <2>3. ASSUME NEW e \in Envelope, Observe(e) PROVE Mail'
    BY <1>7, <2>3, MailMarkers DEF Around
  <2>4. ASSUME NEW e \in Envelope, GrantChanges(e) PROVE Mail'
    BY <1>1, <1>7, <2>4 DEF GrantChanges, Around, deliveryVars
  <2>5. ASSUME NEW e \in Envelope, Age(e) PROVE Mail'
    BY <2>5 DEF Age, Fault
  <2>6. QED
    BY <1>7, <2>1, <2>2, <2>3, <2>4, <2>5 DEF Around
<1>8. QED
  BY <1>2, <1>3, <1>4, <1>5, <1>6, <1>7, MailHandOn, MailHandOnFails, MailMarkers DEF Next

\* What is alive and was not turned down has its task, or will be delivered.
LEMMA MailKeeps == ASSUME Mail PROVE MailNotLost
<1> SUFFICES ASSUME NEW e \in Envelope, "done" \in spool[e], Twins(e) \cap denied = {}
             PROVE  \E f \in Twins(e) :
                      "task" \in {tasks[f][i] : i \in DOMAIN tasks[f]} \/ Unfinished(f)
  BY DEF MailNotLost
<1>1. PICK f \in Twins(e) : Alive(f)
  BY DEF Mail, DoneMeans
<1>2. f \in Envelope /\ f \notin denied /\ tasks[f] \in Seq({"task", "notice"})
  BY DEF Twins, Mail, MailTypes
<1>3. CASE tasks[f] # <<>>
  <2>1. 1 \in DOMAIN tasks[f]
    BY <1>2, <1>3
  <2>2. tasks[f][1] = "task"
    BY <1>2, <2>1 DEF Mail, RowsMean
  <2>3. QED
    BY <2>1, <2>2
<1>4. QED
  BY <1>1, <1>2, <1>3 DEF Alive

\* A finished marker whose source nobody turned down was handed to the agent, or
\* will be, whatever is stopped, repeated or not acknowledged (the markers and
\* the adapter's queue, instance-broker.mjs:78-79).
THEOREM Mailed == ASSUME {"miss", "age"} \cap Faults = {} PROVE Spec => []MailNotLost
<1>1. Mail => MailNotLost
  BY MailKeeps
<1>2. QED
  BY <1>1, MailInit, MailStep, PTL DEF Spec

-----------------------------------------------------------------------------
(* What a refusal means.  The daemon gives a reply up when it finds no        *)
(* receipt, so what was admitted must always have one, under one of its three *)
(* names.  A recheck no relay answers, or of old mail, reads as a grant that  *)
(* is gone, and a frozen event a relay calls invalid is given up on as well:  *)
(* the theorem is about the refusals that are neither.                        *)

Receipt(e) == e \in base \/ Holders(e) # {}
Tasked(e) == tasks[e] # <<>> /\ tasks[e][1] = "task"

Admitted ==
  /\ \A e \in Envelope : Tasked(e) => Receipt(e)
  /\ \A r \in Request : about[r] \in Envelope => Receipt(about[r])
  /\ child.at = "send" => Receipt(child.env)

LEMMA AdmittedInit == Init => Admitted
BY DeliveryAssumption DEF Init, DeliveryInit, R!ReplyInit, NoChild, Admitted, Tasked

\* A receipt is renamed, never removed.
LEMMA ReceiptStays ==
  ASSUME Invariant, [Next]_vars, NEW e \in Envelope, Receipt(e)
  PROVE  Receipt(e)'
<1>1. ASSUME base \subseteq base', inflight \cup used \subseteq inflight' \cup used',
             \A r \in Request : about'[r] = about[r] \/ r \notin inflight \cup used
      PROVE  Receipt(e)'
  BY <1>1 DEF Receipt, Holders
<1>2. ASSUME UNCHANGED <<about, inflight, used>>, base \subseteq base' PROVE Receipt(e)'
  BY <1>1, <1>2
<1>3. ASSUME NEW a \in R!Actor, R!Running(a) \/ R!Failing(a) PROVE Receipt(e)'
  <2>1. CASE R!Claim(a)
    <3>1. R!Req(a) \in Request /\ UNCHANGED <<about, used>> /\ R!Env(a) = about[R!Req(a)]
      BY <2>1, RunKnown DEF R!Claim, R!Env
    <3>2. \/ UNCHANGED base /\ inflight \subseteq inflight'
          \/ /\ base' = base \ {about[R!Req(a)]} /\ inflight' = inflight \cup {R!Req(a)}
      BY <2>1, <3>1 DEF R!Claim
    <3>3. QED
      BY <3>1, <3>2 DEF Receipt, Holders
  <2>2. CASE R!Replay(a) \/ R!Finalize(a)
    BY <1>1, <2>2 DEF R!Replay, R!Finalize
  <2>3. CASE ~(R!Claim(a) \/ R!Replay(a) \/ R!Finalize(a))
    <3>1. UNCHANGED <<about, base, inflight, used>>
      BY <1>3, <2>3 DEF R!Running, R!Failing, R!Recheck, R!NotLive, R!Load, R!Compose, R!Freeze,
         R!Torn, R!Enact, R!Forbid, R!Publish, R!MarkPublished, R!Unusable, R!TooOld,
         R!NotAcknowledged, R!Rejected, R!Die, R!Tear, R!Refused, R!Denied, R!fileVars
    <3>2. QED
      BY <1>1, <3>1
  <2>4. QED
    BY <2>1, <2>2, <2>3
<1>4. CASE Operator \/ \E r \in Request : RunReply(r)
  BY <1>2, <1>4 DEF Operator, RunReply, R!Open, R!Sign, R!fileVars
<1>5. CASE HandOn
  <2>1. base \subseteq base'
    BY <1>5, DeliveryLeaves DEF HandOn, Handing, DeliverySteps, WriteReceipt, Receipted
  <2>2. QED
    BY <1>2, <1>5, <2>1 DEF HandOn, replyOnly
<1>6. CASE HandOnFails
  BY <1>2, <1>6, DeliveryLeaves DEF HandOnFails, DeliverySteps, replyOnly
<1>7. ASSUME NEW f \in Envelope, Ask(f) PROVE Receipt(e)'
  <2>1. PICK r \in Request : about[r] = NoEnvelope /\ about' = [about EXCEPT ![r] = f]
    <3> DEFINE fresh == {q \in Request : about[q] = NoEnvelope}
    <3>1. fresh # {} /\ about' = [about EXCEPT ![CHOOSE q \in fresh : TRUE] = f]
      BY <1>7 DEF Ask
    <3>2. (CHOOSE q \in fresh : TRUE) \in fresh
      BY <3>1
    <3>3. QED
      BY <3>1, <3>2
  <2>2. UNCHANGED <<base, inflight, used>>
    BY <1>7 DEF Ask, deliveryVars
  <2>3. QED
    BY <1>1, <2>1, <2>2 DEF Invariant, ReplyTypes, HoldersAsked
<1>8. CASE UNCHANGED vars
  BY <1>2, <1>8 DEF vars, deliveryVars, replyOnly
<1>9. CASE Crash \/ Boot \/ Consume \/ WorkerStops
  BY <1>2, <1>9 DEF Crash, Boot, Consume, WorkerStops, deliveryVars, replyOnly
<1>10. CASE Around \/ \E f \in Envelope : TakeMarker(f)
  BY <1>2, <1>10 DEF Around, AdapterRestart, HourPasses, Observe, GrantChanges, Age, TakeMarker, Take,
     deliveryVars, replyOnly
<1>11. QED
  BY <1>3, <1>4, <1>5, <1>6, <1>7, <1>8, <1>9, <1>10 DEF Next, ReplyStep, ReplyFails

\* A task row is written when the receipt is there, and a request is about one.
LEMMA AdmittedStep ==
  ASSUME Invariant, ChildPlaced, Mail, Admitted, [Next]_vars
  PROVE  Admitted'
<1>1. ASSUME NEW e \in Envelope, Tasked(e)' PROVE Receipt(e)'
  <2>1. CASE tasks'[e] = tasks[e]
    BY <1>1, <2>1, ReceiptStays DEF Admitted, Tasked
  <2>2. CASE tasks'[e] # tasks[e]
    <3>1. e = child.env /\ child.at \in {"send", "notify"} /\ tasks'[e] = NewRow(e, Packet)
      <4>1. child.at \in {"send", "notify"} /\ Accept(Packet)
        BY <2>2 DEF Next, vars, deliveryVars, deliveryOnly, TakeMarker, Take, Ask, HandOn, Handing,
           MessageMissing, Nothing, Refuse, Announce, Admit, Count, Limited, ClaimSource,
           DuplicateSource, WriteReceipt, Send, Complete, HandOnFails, PolicyUnavailable,
           MessageMissed, AckLost, Die, RunReply, ReplyStep, ReplyFails, Crash, Boot, Consume,
           WorkerStops, Operator, Around, AdapterRestart, HourPasses, Observe, GrantChanges, Age
      <4>2. QED
        BY <2>2, <4>1 DEF Accept, Mail, MailTypes
    <3>2. CASE child.at = "send"
      BY <3>1, <3>2, ReceiptStays DEF Admitted
    <3>3. CASE child.at = "notify"
      <4>1. tasks[e] \in Seq({"task", "notice"}) /\ Packet = "notice"
        BY <3>1, <3>3 DEF Mail, MailTypes, Packet
      <4>2. tasks[e] # <<>> => tasks[e][1] = tasks'[e][1]
        BY <3>1, <4>1 DEF NewRow
      <4>3. tasks[e] = <<>> => tasks'[e] \in {<<>>, <<"notice">>}
        BY <3>1, <4>1 DEF NewRow
      <4>4. Tasked(e)
        BY <1>1, <4>2, <4>3 DEF Tasked
      <4>5. QED
        BY <4>4, ReceiptStays DEF Admitted
    <3>4. QED
      BY <3>1, <3>2, <3>3
  <2>3. QED
    BY <2>1, <2>2
<1>2. ASSUME NEW r \in Request, about'[r] \in Envelope PROVE Receipt(about[r])'
  <2>1. CASE about'[r] = about[r]
    BY <1>2, <2>1, ReceiptStays DEF Admitted, Receipt, Holders
  <2>2. CASE about'[r] # about[r]
    <3>1. PICK e \in Envelope : Ask(e)
      BY <2>2 DEF Next, vars, replyOnly, TakeMarker, HandOn, HandOnFails, RunReply, R!Open,
         ReplyStep, ReplyFails, Operator, R!Sign, Crash, Boot, Consume, WorkerStops, Around,
         R!Running, R!Failing, R!Recheck, R!NotLive, R!Claim, R!Load, R!Compose, R!Freeze, R!Replay,
         R!Torn, R!Enact, R!Forbid, R!Publish, R!MarkPublished, R!Finalize, R!Unusable, R!TooOld,
         R!NotAcknowledged, R!Rejected, R!Die, R!Tear, R!Refused, R!Denied
    <3>2. about'[r] = e
      BY <2>2, <3>1 DEF Ask, Invariant, ReplyTypes
    <3>3. Receipt(e)
      BY <3>1 DEF Ask, Answerable, Admitted, Tasked
    <3>4. QED
      BY <3>2, <3>3, ReceiptStays DEF Receipt, Holders
  <2>3. QED
    BY <2>1, <2>2
<1>3. ASSUME child'.at = "send" PROVE Receipt(child.env)'
  <2>1. \/ UNCHANGED child /\ child.at = "send"
        \/ WriteReceipt
    <3>1. ASSUME NEW l, Goto(l), l # "send" PROVE FALSE
      BY <1>3, <3>1 DEF Goto, ChildPlaced
    <3>2. ASSUME End PROVE FALSE
      BY <1>3, <3>2 DEF End, NoChild
    <3>3. CASE HandOn
      BY <3>1, <3>2, <3>3 DEF HandOn, Handing, MessageMissing, Nothing, Refuse, Announce, Admit, Count,
         Limited, ClaimSource, DuplicateSource, Send, Complete, Finish, AfterCount
    <3>4. CASE HandOnFails
      BY <1>3, <3>2, <3>4 DEF HandOnFails, PolicyUnavailable, MessageMissed, Nothing, AckLost, Die,
         Finish, Requeue, Unanswered
    <3>5. CASE Crash \/ \E e \in Envelope : TakeMarker(e)
      BY <1>3, <3>5 DEF Crash, NoChild, TakeMarker, Take
    <3>6. QED
      BY <1>3, <3>3, <3>4, <3>5 DEF Next, vars, deliveryVars, deliveryOnly, Ask, RunReply, ReplyStep,
         ReplyFails, Boot, Consume, WorkerStops, Operator, Around, AdapterRestart, HourPasses,
         Observe, GrantChanges, Age
  <2>2. CASE UNCHANGED child /\ child.at = "send"
    <3>1. child.env \in Envelope /\ Receipt(child.env)
      BY <2>2 DEF Mail, ChildHolds, Admitted
    <3>2. QED
      BY <2>2, <3>1, ReceiptStays DEF Receipt, Holders
  <2>3. CASE WriteReceipt
    BY <2>3 DEF WriteReceipt, Receipted, Goto, Receipt
  <2>4. QED
    BY <2>1, <2>2, <2>3
<1>4. QED
  BY <1>1, <1>2, <1>3 DEF Admitted

LEMMA RefusedLost ==
  ASSUME Invariant, Mail, Admitted, {"unanswered", "invalid"} \cap Faults = {}, [Next]_vars,
         NEW r \in terminal' \ terminal
  PROVE  R!Lost(r)
<1>1. ASSUME NEW a \in R!Actor, NEW q \in Request, NEW m, R!Open(a, q, m) PROVE R!Lost(r)
  <2>1. r = q /\ q \notin inflight \cup used /\ about[q] \notin base /\ about[q] # NoEnvelope
    BY <1>1 DEF R!Open, R!GivenUp
  <2>2. PICK p \in Holders(about[q]) : TRUE
    BY <2>1 DEF Invariant, ReplyTypes, Admitted, Receipt
  <2>3. QED
    BY <2>1, <2>2 DEF Holders, R!Lost
<1>2. ASSUME NEW a \in R!Actor, R!Running(a) \/ R!Failing(a) PROVE R!Lost(r)
  <2>1. R!NotLive(a) \/ R!Unusable(a) \/ R!Rejected(a)
    BY <1>2 DEF R!Running, R!Failing, R!Recheck, R!Claim, R!Load, R!Compose, R!Freeze, R!Replay,
       R!Torn, R!Enact, R!Forbid, R!Publish, R!MarkPublished, R!Finalize, R!TooOld,
       R!NotAcknowledged, R!Die, R!Tear, R!Denied
  <2>2. R!NotLive(a)
    BY <2>1 DEF R!Unusable, R!Rejected, R!Fault
  <2>3. r = R!Req(a) /\ grant[R!Env(a)] # "task"
    BY <2>2 DEF R!NotLive, R!Refused, R!ExitTerminal, R!GivenUp, R!StillLive, Mail, MailTypes
  <2>4. QED
    BY <2>3 DEF R!Env, R!Lost
<1>3. \/ \E a \in R!Actor : R!Running(a) \/ R!Failing(a)
      \/ \E a \in R!Actor, q \in Request, m \in {"prepare", "direct"} \cup Approval : R!Open(a, q, m)
  BY DEF Next, vars, replyOnly, TakeMarker, Ask, HandOn, HandOnFails, RunReply, ReplyStep, ReplyFails,
     Operator, R!Sign, Crash, Boot, Consume, WorkerStops, Around, R!Actor
<1>4. QED
  BY <1>1, <1>2, <1>3

\* The daemon gives a reply up only when its sender's grant is gone or another
\* request has its receipt (reply_retry.mjs:3-5, instance-broker-reply.mjs:76-87).
THEOREM Refusals ==
  ASSUME IsFiniteSet(Request), {"miss", "age", "unanswered", "invalid"} \cap Faults = {}
  PROVE  Spec => RefusedMeansRevoked
<1> DEFINE All == Invariant /\ ChildPlaced /\ Mail /\ Admitted
<1>1. Init => All
  BY InvariantInit, ChildInit, MailInit, AdmittedInit
<1>2. All /\ [Next]_vars => All'
  BY InvariantStep, ChildStays, MailStep, AdmittedStep
<1>3. All /\ [Next]_vars => \A r \in terminal' \ terminal : R!Lost(r)
  BY RefusedLost
<1> HIDE DEF All
<1>4. QED
  BY <1>1, <1>2, <1>3, PTL DEF Spec, RefusedMeansRevoked
=============================================================================
