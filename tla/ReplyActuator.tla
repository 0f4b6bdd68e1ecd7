---------------------------- MODULE ReplyActuator ----------------------------
(* The outbound half of a participant's keyed broker: invocations of         *)
(* src/mcp/tools/instance-broker-reply.mjs.  The daemon runs them with       *)
(* --prepare and, for a channel reply, --direct; an operator who signed an   *)
(* approval of a public reply (outbound-approve.mjs) runs them with          *)
(* --approval, at any time.  Each works on files: the receipt an admission   *)
(* left (base), renamed to <envelope>.<request>.inflight when a request      *)
(* claims it and to .used when its reply is out, and the outbound record of  *)
(* the request.                                                              *)
(*                                                                           *)
(* Every request is well formed and mentions nobody.  A wrapped reply is     *)
(* sealed once, when its record is frozen, and wrapped each time it is       *)
(* signed: the number of the signing is the identity of the event that goes  *)
(* out.  A native reply is the frozen event itself.                          *)
EXTENDS Naturals

CONSTANTS
    Envelope, NoEnvelope, Kind, Faults, MaxFaults,     \* as in BrokerDelivery
    Request,        \* ids of reply requests
    NoRequest,      \* no request
    Approval        \* approval events an operator may sign

VARIABLES
    base, grant, aged, faults,                          \* as in BrokerDelivery
    about,          \* the request queues: the envelope a request answers
    inflight,       \* <envelope>.<request>.inflight
    used,           \* <envelope>.<request>.used
    outbound,       \* outbound/<request>.json
    approvals,      \* approval events signed for a request
    proc,           \* the invocations of the daemon and of the operator
    terminal,       \* terminal-replies.jsonl
    announced,      \* the daemon's Set of proposals it is done with
    signings,       \* history: signings of each request's record
    sent            \* history: events of each request that reached a relay

replyVars == <<about, inflight, used, outbound, approvals, proc, terminal, announced,
               signings, sent>>
fileVars == <<base, inflight, used>>
historyVars == <<signings, sent>>

Actor == {"daemon", "operator"}
\* Who enacted a record: nobody yet, the direct path, or an approval.
Enactment == {"none", "direct"} \cup Approval
NoRecord == [by |-> "none", event |-> 0, state |-> "absent"]
NoProc == [at |-> "idle", req |-> NoRequest, mode |-> "none", path |-> "none", rec |-> NoRecord]

ReplyInit ==
    /\ about = [r \in Request |-> NoEnvelope]
    /\ inflight = {} /\ used = {} /\ terminal = {} /\ announced = {}
    /\ outbound = [r \in Request |-> NoRecord]
    /\ approvals = [r \in Request |-> {}]
    /\ proc = [a \in Actor |-> NoProc]
    /\ signings = [r \in Request |-> 0]
    /\ sent = [r \in Request |-> {}]

Fault(f) == f \in Faults /\ faults < MaxFaults /\ faults' = faults + 1

Req(a) == proc[a].req
Env(a) == about[Req(a)]
ChannelReply(e) == Kind[e] # "direct"
Goto(a, l) == proc' = [proc EXCEPT ![a].at = l]
\* die: the daemon tries again after five seconds, the operator may.
Exit(a) == proc' = [proc EXCEPT ![a] = NoProc]
GivenUp(a, r) == IF a = "daemon" THEN terminal \cup {r} ELSE terminal
ExitTerminal(a) == Exit(a) /\ terminal' = GivenUp(a, Req(a))
\* Success.  After --prepare of a channel reply the daemon runs --direct.
ExitDone(a) ==
    IF a = "operator" THEN Exit(a) /\ UNCHANGED announced
    ELSE IF proc[a].mode = "prepare" /\ ChannelReply(Env(a))
    THEN /\ proc' = [proc EXCEPT ![a] = [NoProc EXCEPT !.at = "prepared", !.req = Req(a)]]
         /\ UNCHANGED announced
    ELSE Exit(a) /\ announced' = announced \cup {Req(a)}

-----------------------------------------------------------------------------
(* Invocation *)

\* outbound-approve.mjs offers any frozen record nobody has enacted; here the
\* operator signs only what waits for it.
Sign(r) ==
    /\ outbound[r].state = "frozen" /\ ~ChannelReply(about[r])
    /\ LET fresh == Approval \ UNION {approvals[q] : q \in Request} IN
       /\ fresh # {}
       /\ approvals' = [approvals EXCEPT ![r] = @ \cup {CHOOSE n \in fresh : TRUE}]
    /\ UNCHANGED <<fileVars, about, outbound, proc, terminal, announced, historyVars,
                   grant, aged, faults>>

\* The daemon's invocations, and the operator's: with an approval, or, by hand
\* where a fault allows it, with --prepare, or with --direct for a reply that
\* waits for an approval.
MayRun(a, r, m) ==
    \/ /\ a = "daemon" /\ m = "prepare"
       /\ proc[a] = NoProc /\ r \notin terminal \cup announced
    \/ a = "daemon" /\ m = "direct" /\ proc[a].at = "prepared" /\ proc[a].req = r
    \/ a = "operator" /\ proc[a] = NoProc /\ m \in approvals[r]
    \/ /\ a = "operator" /\ proc[a] = NoProc /\ m = "prepare" /\ "prepare" \in Faults
       /\ r \notin used
    \/ /\ a = "operator" /\ proc[a] = NoProc /\ m = "direct"
       /\ "direct" \in Faults /\ outbound[r].state # "absent" /\ ~ChannelReply(about[r])

\* The receipt is used, or its inflight name exists, or its base name does.
Open(a, r, m) ==
    /\ about[r] # NoEnvelope /\ MayRun(a, r, m)
    /\ IF r \in used
       THEN /\ IF a = "daemon"
               THEN Exit(a) /\ announced' = announced \cup {r}
               ELSE UNCHANGED <<proc, announced>>
            /\ UNCHANGED terminal
       ELSE IF r \in inflight \/ about[r] \in base
       THEN /\ proc' = [proc EXCEPT ![a] =
                 [at |-> "policy", req |-> r, mode |-> m, rec |-> NoRecord,
                  path |-> IF r \in inflight THEN "inflight" ELSE "base"]]
            /\ UNCHANGED <<terminal, announced>>
       ELSE /\ proc' = [proc EXCEPT ![a] = NoProc]
            /\ terminal' = GivenUp(a, r)
            /\ UNCHANGED announced
    /\ UNCHANGED <<fileVars, about, outbound, approvals, historyVars, grant, aged, faults>>

\* The chain of grants is read again from the relays.
StillLive(e) == grant[e] = "task" /\ e \notin aged

Recheck(a) ==
    /\ proc[a].at = "policy" /\ StillLive(Env(a))
    /\ Goto(a, "claim")
    /\ UNCHANGED <<fileVars, about, outbound, approvals, terminal, announced, historyVars,
                   grant, aged, faults>>

\* An envelope attention no longer looks back to, relays that do not answer and
\* a grant that is gone end in the same terminal refusal.
Refused(a) ==
    /\ ExitTerminal(a)
    /\ UNCHANGED <<fileVars, about, outbound, approvals, announced, historyVars, grant, aged>>
NotLive(a) == proc[a].at = "policy" /\ ~StillLive(Env(a)) /\ Refused(a) /\ UNCHANGED faults
Unusable(a) == proc[a].at = "policy" /\ Fault("unanswered") /\ Refused(a)

-----------------------------------------------------------------------------
(* The receipt and the record *)

\* The claim is a rename and comes before the stamp, which writes the receipt
\* under the inflight name whether or not it is still there.
\* Mutant: the stamp first, which makes the base name again.
StampFirst(a) == TRUE
Claimable(a) == Env(a) \in base
Claim(a) ==
    /\ proc[a].at = "claim"
    /\ \/ /\ proc[a].path = "base" /\ Claimable(a)
          /\ base' = base \ {Env(a)}
          /\ inflight' = inflight \cup {Req(a)}
          /\ Goto(a, "record")
       \/ /\ proc[a].path = "base" /\ ~Claimable(a)
          /\ Exit(a)
          /\ UNCHANGED <<base, inflight>>
       \/ /\ proc[a].path = "inflight"
          /\ inflight' = inflight \cup {Req(a)}
          /\ Goto(a, "record")
          /\ UNCHANGED base
    /\ UNCHANGED <<used, about, outbound, approvals, terminal, announced, historyVars,
                   grant, aged, faults>>

\* With the record in hand --prepare ends and the others go on to enact it.
Proceed(a, record) ==
    IF proc[a].mode = "prepare" THEN ExitDone(a)
    ELSE /\ proc' = [proc EXCEPT ![a].at = "enact", ![a].rec = record]
         /\ UNCHANGED announced

\* A record that is frozen or signed is loaded.
Load(a) ==
    LET record == outbound[Req(a)] IN
    /\ proc[a].at = "record" /\ record.state \in {"frozen", "signed"}
    /\ Proceed(a, record)
    /\ UNCHANGED <<fileVars, about, outbound, approvals, terminal, historyVars, grant, aged, faults>>

\* There is none: one is composed, for which the signer encrypts, and put in
\* place over whatever is there by then.
Compose(a) ==
    /\ proc[a].at = "record" /\ outbound[Req(a)].state = "absent"
    /\ Goto(a, "freeze")
    /\ UNCHANGED <<fileVars, about, outbound, approvals, terminal, announced, historyVars,
                   grant, aged, faults>>

Frozen == [by |-> "none", event |-> 0, state |-> "frozen"]
Freeze(a) ==
    /\ proc[a].at = "freeze"
    /\ outbound' = [outbound EXCEPT ![Req(a)] = Frozen]
    /\ Proceed(a, Frozen)
    /\ UNCHANGED <<fileVars, about, approvals, terminal, historyVars, grant, aged, faults>>

\* The receipt of a published record is finished.
Replay(a) ==
    LET r == Req(a) IN
    /\ proc[a].at = "record" /\ outbound[r].state = "published"
    /\ inflight' = inflight \ {r} /\ used' = used \cup {r}
    /\ Exit(a)
    /\ announced' = IF a = "daemon" THEN announced \cup {r} ELSE announced
    /\ UNCHANGED <<base, about, outbound, approvals, terminal, historyVars, grant, aged, faults>>

Torn(a) ==
    /\ proc[a].at = "record" /\ outbound[Req(a)].state = "torn"
    /\ Exit(a)
    /\ UNCHANGED <<fileVars, about, outbound, approvals, terminal, announced, historyVars,
                   grant, aged, faults>>

-----------------------------------------------------------------------------
(* Enactment *)

\* --direct only for a channel reply without an approval; an approval only for
\* a record no other approval has.
Permitted(a) ==
    IF proc[a].mode = "direct" THEN ChannelReply(Env(a)) /\ proc[a].rec.by \in {"none", "direct"}
    ELSE proc[a].rec.by \in {"none", proc[a].mode}

\* What goes out: the frozen event, or a new wrap of the frozen seal.
Signature(r) == IF Kind[about[r]] = "native" THEN 1 ELSE signings[r] + 1

\* The signer opens and the signed record is stored before anything is
\* published; a record that is signed already is not signed again.
\* Mutant: every run signs.
SignEach(a) == TRUE
Unsigned(a) == proc[a].rec.event = 0

Enact(a) ==
    LET r == Req(a)
        signed == [by |-> proc[a].mode, event |-> Signature(r), state |-> "signed"] IN
    /\ proc[a].at = "enact" /\ Permitted(a)
    /\ IF Unsigned(a)
       THEN /\ outbound' = [outbound EXCEPT ![r] = signed]
            /\ signings' = [signings EXCEPT ![r] = Signature(r)]
            /\ proc' = [proc EXCEPT ![a].at = "publish", ![a].rec = signed]
       ELSE Goto(a, "publish") /\ UNCHANGED <<outbound, signings>>
    /\ UNCHANGED <<fileVars, about, approvals, terminal, announced, sent, grant, aged, faults>>

Denied(a) ==
    /\ Exit(a)
    /\ UNCHANGED <<fileVars, about, outbound, approvals, terminal, announced, historyVars,
                   grant, aged>>
\* The record is bound to another enactment.
Forbid(a) == proc[a].at = "enact" /\ ~Permitted(a) /\ Denied(a) /\ UNCHANGED faults
\* The approval is too old to bind a record that has none.
TooOld(a) ==
    /\ proc[a].at = "enact" /\ proc[a].mode \in Approval /\ proc[a].rec.by = "none"
    /\ Fault("stale") /\ Denied(a)

Out(a) == sent' = [sent EXCEPT ![Req(a)] = @ \cup {proc[a].rec.event}]
Publish(a) ==
    /\ proc[a].at = "publish"
    /\ Out(a) /\ Goto(a, "sent")
    /\ UNCHANGED <<fileVars, about, outbound, approvals, terminal, announced, signings,
                   grant, aged, faults>>

\* No relay acknowledges: the event is out, or it is not.
Held(a) == Exit(a)
NotAcknowledged(a) ==
    /\ proc[a].at = "publish" /\ Fault("unpublished")
    /\ Out(a) \/ UNCHANGED sent
    /\ Held(a)
    /\ UNCHANGED <<fileVars, about, outbound, approvals, terminal, announced, signings, grant, aged>>

\* The Buzz relay rejects the frozen event itself: no retry can change it.
Rejected(a) ==
    /\ proc[a].at = "publish" /\ Kind[Env(a)] = "native" /\ Fault("invalid")
    /\ ExitTerminal(a)
    /\ UNCHANGED <<fileVars, about, outbound, approvals, announced, historyVars, grant, aged>>

\* record.published, written in place.
MarkPublished(a) ==
    /\ proc[a].at = "sent"
    /\ outbound' = [outbound EXCEPT ![Req(a)] = [proc[a].rec EXCEPT !.state = "published"]]
    /\ Goto(a, "final")
    /\ UNCHANGED <<fileVars, about, approvals, terminal, announced, historyVars, grant, aged, faults>>

\* The one-use receipt is finished, unless another run finished it first.
Finalize(a) ==
    LET r == Req(a) IN
    /\ proc[a].at = "final"
    /\ IF r \in inflight
       THEN /\ inflight' = inflight \ {r} /\ used' = used \cup {r}
            /\ ExitDone(a)
       ELSE Exit(a) /\ UNCHANGED <<inflight, used, announced>>
    /\ UNCHANGED <<base, about, outbound, approvals, terminal, historyVars, grant, aged, faults>>

\* A timeout, a failed file operation, a killed process.
Die(a) ==
    /\ proc[a].at \notin {"idle", "prepared"} /\ Fault("die")
    /\ Exit(a)
    /\ UNCHANGED <<fileVars, about, outbound, approvals, terminal, announced, historyVars, grant, aged>>

\* Killed between the truncation and the write of the published record.
Tear(a) ==
    /\ proc[a].at = "sent" /\ Fault("torn")
    /\ outbound' = [outbound EXCEPT ![Req(a)].state = "torn"]
    /\ Exit(a)
    /\ UNCHANGED <<fileVars, about, approvals, terminal, announced, historyVars, grant, aged>>

Running(a) ==
    \/ Recheck(a) \/ NotLive(a) \/ Claim(a) \/ Load(a) \/ Compose(a)
    \/ Freeze(a) \/ Replay(a) \/ Torn(a) \/ Enact(a) \/ Forbid(a) \/ Publish(a) \/ MarkPublished(a) \/ Finalize(a)
Failing(a) ==
    \/ Unusable(a) \/ TooOld(a) \/ NotAcknowledged(a) \/ Rejected(a) \/ Die(a) \/ Tear(a)

-----------------------------------------------------------------------------
(* Properties *)

\* A retry republishes the event of the record: a request puts one event on
\* the relays, whoever retries it (instance-broker-reply.mjs:6-7).
RetrySendsSame == \A r \in Request : \A e, f \in sent[r] : e = f

\* What makes a request unanswerable: its sender's grant is gone or another
\* request has its receipt.
Lost(r) ==
    \/ grant[about[r]] # "task"
    \/ \E q \in Request \ {r} : about[q] = about[r] /\ q \in inflight \cup used
=============================================================================
