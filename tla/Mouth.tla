-------------------------------- MODULE Mouth --------------------------------
(***************************************************************************)
(* The acts an agent's service performs under the agent's own key (chat.ts,  *)
(* drafts.ts, tap.ts, notices.ts): public notes and sealed messages, which   *)
(* become drafts on the delegator's desk when no approval comes with the     *)
(* call; draft offers and their withdrawal; access requests; and the signer  *)
(* they all wait for, a local key or a bunker over relays (identity.ts).     *)
(* A call is a list of steps, each a wait for the signer or for the relays.  *)
(***************************************************************************)
EXTENDS Naturals, Sequences, FiniteSets

CONSTANTS
  Calls,      \* tool calls
  NoCall,     \* no call
  Delegators, \* publishers of held grants
  MaxFaults   \* bound on lost lines, refusals, failed publishes and restarts

VARIABLES
  remote,  \* the key is in a bunker
  signer,  \* the connection to it: connect's progress, subscription, what it is asked
  call,    \* each call: its tool, what it withdraws, its remaining steps, its end
  desk,    \* each offer at its desk: "none", "scope", "offered", "gone"
  offers,  \* the session ledger: the generation of each offer, 0 for none
  landed,  \* the notes and messages relays hold, with the copies
  holders, \* whose grants the agent holds
  faults

mouthVars == <<remote, signer, call, desk, offers, landed, holders, faults>>

Tools == {"post", "dm", "offer", "withdraw", "request"}
Unborn == [tool |-> "none", of |-> NoCall, todo |-> <<>>, end |-> "none"]

MouthInit ==
  /\ remote \in BOOLEAN /\ signer = [connect |-> "none", heard |-> TRUE, asked |-> {}]
  /\ call = [c \in Calls |-> Unborn]
  /\ desk = [c \in Calls |-> "none"] /\ offers = [c \in Calls |-> 0]
  /\ landed = {} /\ holders \in SUBSET Delegators /\ faults = 0

Fault == faults < MaxFaults /\ faults' = faults + 1

-----------------------------------------------------------------------------
\* What each tool does, in order.  A step "x?" may fail without the call
\* failing; "local" needs the key on this host.
OfferSteps == <<"sign", "scope", "sign", "grant", "record">>

\* Mutant of WithdrawSteps: the ledger is told before the relays.
WithdrawEarly == <<"bump", "sign", "tomb">>

WithdrawSteps == <<"sign", "tomb", "bump">>

NoteSteps == <<"sign", "note">>
DmSteps == <<"sign", "sign", "note", "self?", "sign?", "cc?">>
RequestSteps == <<"local", "note">>

\* The tap: an act of the agent's own goes out with an approval, becomes a
\* draft without one, and is refused with a malformed one.
Decide(tool, approval) ==
  IF tool \notin {"post", "dm"} \/ approval = "given" THEN "publish"
  ELSE IF approval = "none" THEN "draft" ELSE "refuse"

\* The desk a draft is for: the one delegator whose grants are held.
HasDesk == Cardinality(holders) = 1

Steps(tool) ==
  CASE tool = "post" -> NoteSteps
    [] tool = "dm" -> DmSteps
    [] tool = "offer" -> OfferSteps
    [] tool = "withdraw" -> WithdrawSteps
    [] tool = "request" -> RequestSteps

GoOn(c, todo) == call' = [call EXCEPT ![c].todo = todo, ![c].end = IF todo = <<>> THEN "told" ELSE "none"]
Break(c) == call' = [call EXCEPT ![c].todo = <<>>, ![c].end = "error"]
Rest(c) == Tail(call[c].todo)
AtStep(c, op) == call[c].todo # <<>> /\ Head(call[c].todo) = op
Soft(c) == call[c].todo # <<>> /\ Head(call[c].todo) \in {"self?", "sign?", "cc?"}

Call(c, tool, approval) ==
  /\ call[c] = Unborn /\ tool # "withdraw"
  /\ LET tap == Decide(tool, approval)
         does == IF tap = "draft" THEN "offer" ELSE tool
         barred == tap = "refuse" \/ (tap = "draft" /\ ~HasDesk)
     IN call' = [call EXCEPT ![c] = [tool |-> does, of |-> NoCall,
                   todo |-> IF barred THEN <<>> ELSE Steps(does),
                   end |-> IF barred THEN "error" ELSE "none"]]
  /\ UNCHANGED <<remote, signer, desk, offers, landed, holders, faults>>

\* Withdrawing an offer of this session, once its tombstone is out or not.
WithdrawOffer(c, d) ==
  /\ call[c] = Unborn /\ c # d /\ offers[d] > 0
  /\ call' = [call EXCEPT ![c] = [tool |-> "withdraw", of |-> d,
                todo |-> IF offers[d] > 1 THEN <<>> ELSE Steps("withdraw"),
                end |-> IF offers[d] > 1 THEN "told" ELSE "none"]]
  /\ UNCHANGED <<remote, signer, desk, offers, landed, holders, faults>>

-----------------------------------------------------------------------------
\* The signer.

Signing(c) == AtStep(c, "sign") \/ AtStep(c, "sign?")

\* A local key signs at once; a bunker is asked, after one best-effort
\* connect that every later request shares.
AskSigner(c) ==
  /\ Signing(c) /\ c \notin signer.asked
  /\ IF ~remote THEN GoOn(c, Rest(c)) /\ UNCHANGED signer
     ELSE IF signer.connect # "done"
       THEN /\ signer.connect = "none" /\ signer' = [signer EXCEPT !.connect = "asked"] /\ UNCHANGED call
       ELSE signer' = [signer EXCEPT !.asked = @ \cup {c}] /\ UNCHANGED call
  /\ UNCHANGED <<remote, desk, offers, landed, holders, faults>>

\* The connect ends: acknowledged, refused or timed out, it never blocks.
ConnectEnds ==
  /\ signer.connect = "asked" /\ signer' = [signer EXCEPT !.connect = "done"]
  /\ UNCHANGED <<remote, call, desk, offers, landed, holders, faults>>

\* The bunker's answer is heard on the subscription.
Signed(c) ==
  /\ c \in signer.asked /\ signer.heard
  /\ signer' = [signer EXCEPT !.asked = @ \ {c}] /\ GoOn(c, Rest(c))
  /\ UNCHANGED <<remote, desk, offers, landed, holders, faults>>

\* The bunker refuses, or nothing is heard within a minute.
Unsigned(c) ==
  /\ c \in signer.asked
  /\ IF signer.heard THEN Fault ELSE UNCHANGED faults
  /\ signer' = [signer EXCEPT !.asked = @ \ {c}]
  /\ IF Soft(c) THEN GoOn(c, <<>>) ELSE Break(c)
  /\ UNCHANGED <<remote, desk, offers, landed, holders>>

\* The subscription the answers come by ends; it is made once.
Deaf ==
  /\ remote /\ signer.heard /\ Fault /\ signer' = [signer EXCEPT !.heard = FALSE]
  /\ UNCHANGED <<remote, call, desk, offers, landed, holders>>

-----------------------------------------------------------------------------
\* The relays and the ledger.

Lands(c) ==
  CASE AtStep(c, "scope") -> desk' = [desk EXCEPT ![c] = "scope"] /\ UNCHANGED landed
    [] AtStep(c, "grant") -> desk' = [desk EXCEPT ![c] = "offered"] /\ UNCHANGED landed
    [] AtStep(c, "tomb")  -> desk' = [desk EXCEPT ![call[c].of] = "gone"] /\ UNCHANGED landed
    [] OTHER          -> landed' = landed \cup {<<c, Head(call[c].todo)>>} /\ UNCHANGED desk

Publishing(c) == call[c].todo # <<>> /\ Head(call[c].todo) \in {"note", "self?", "cc?", "scope", "grant", "tomb"}

Publish(c) ==
  /\ Publishing(c) /\ Lands(c) /\ GoOn(c, Rest(c))
  /\ UNCHANGED <<remote, signer, offers, holders, faults>>

\* No relay takes the event, or one did and its word is lost: the call fails
\* there, unless the step is best-effort.
PublishFails(c, lands) ==
  /\ Publishing(c) /\ Fault
  /\ IF lands THEN Lands(c) ELSE UNCHANGED <<desk, landed>>
  /\ IF Soft(c) THEN GoOn(c, Rest(c)) ELSE Break(c)
  /\ UNCHANGED <<remote, signer, offers, holders>>

\* A raw key is needed: a remote signer's call is refused.
Local(c) ==
  /\ AtStep(c, "local") /\ IF remote THEN Break(c) ELSE GoOn(c, Rest(c))
  /\ UNCHANGED <<remote, signer, desk, offers, landed, holders, faults>>

Note(c) ==
  /\ \/ AtStep(c, "record") /\ offers' = [offers EXCEPT ![c] = 1]
     \/ AtStep(c, "bump") /\ offers' = [offers EXCEPT ![call[c].of] = @ + 1]
  /\ GoOn(c, Rest(c))
  /\ UNCHANGED <<remote, signer, desk, landed, holders, faults>>

\* The service starts again: calls under way end unanswered, and the ledger
\* of offers is forgotten.
ServiceRestarts ==
  /\ Fault /\ offers' = [c \in Calls |-> 0]
  /\ call' = [c \in Calls |-> IF call[c].todo # <<>> THEN [call[c] EXCEPT !.todo = <<>>, !.end = "lost"] ELSE call[c]]
  /\ signer' = [connect |-> "none", heard |-> TRUE, asked |-> {}]
  /\ UNCHANGED <<remote, desk, landed, holders>>

Regrant(hs) ==
  /\ hs # holders /\ holders' = hs /\ Fault
  /\ UNCHANGED <<remote, signer, call, desk, offers, landed>>

MouthNext ==
  \/ \E c \in Calls, t \in Tools, a \in {"none", "bad", "given"} : Call(c, t, a)
  \/ \E c, d \in Calls : WithdrawOffer(c, d)
  \/ \E c \in Calls : AskSigner(c) \/ Signed(c) \/ Unsigned(c) \/ Publish(c) \/ Local(c) \/ Note(c)
  \/ \E c \in Calls, lands \in BOOLEAN : PublishFails(c, lands)
  \/ ConnectEnds \/ Deaf \/ ServiceRestarts \/ \E hs \in SUBSET Delegators : Regrant(hs)

MouthSpec == MouthInit /\ [][MouthNext]_mouthVars

-----------------------------------------------------------------------------
\* What a caller is told has been done: the note is on a relay, the offer was
\* put on the desk, the withdrawn offer can no longer be read there, whatever
\* publishes failed on the way and whichever withdrawals overlap (publish,
\* withdraw).
ToldIsDone ==
  \A c \in Calls : call[c].end = "told" =>
    CASE call[c].tool = "offer" -> desk[c] \in {"offered", "gone"}
      [] call[c].tool = "withdraw" -> desk[call[c].of] = "gone"
      [] OTHER -> <<c, "note">> \in landed
=============================================================================
