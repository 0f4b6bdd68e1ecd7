------------------------------ MODULE GrantFold ------------------------------
(***************************************************************************)
(* Who may task one agent (mcp/tools/attention.mjs): the owner's signed     *)
(* grants and revocations lie on relays that each hold some of them and do  *)
(* not all answer; the fold of admission.mjs reads what was answered, and   *)
(* a message is a task, a notification or data by its result alone.  A      *)
(* lookup changes nothing, so it is an operator of what the relays hold.    *)
(*                                                                         *)
(* Every event is signed by a grantor and about this agent.  Grants and     *)
(* revocations are made in different seconds: the fold reads events of one  *)
(* second in the order in which the relays answered.                        *)
(***************************************************************************)
EXTENDS Naturals, Sequences

CONSTANTS
  GrantRelays, \* the relays grants are read from
  Grantors,    \* whose signature is policy
  Senders,     \* all who speak: grantors, senders and voices
  Issues,      \* grants the grantors may issue: [by, to, cap]
  MaxIssued    \* bound on grants and revocations

ASSUME IssuesAssumption ==
  Grantors \subseteq Senders /\ Issues \subseteq [by : Grantors, to : Senders, cap : {"task", "task-relay", "shadow"}]

VARIABLES
  issued,     \* every grant and revocation, in the order of created_at
  stored,     \* the positions in issued that each relay holds
  expired     \* grants past their NIP-40 expiration

foldVars == <<issued, stored, expired>>
Caps == {"task", "task-relay"}

FoldInit == issued = <<>> /\ stored = [r \in GrantRelays |-> {}] /\ expired = {}

PublishPolicy(ev) ==
  /\ Len(issued) < MaxIssued /\ issued' = Append(issued, ev)
  /\ \E R \in SUBSET GrantRelays \ {{}} :
       stored' = [r \in GrantRelays |-> IF r \in R THEN stored[r] \cup {Len(issued')} ELSE stored[r]]
  /\ UNCHANGED expired

GrantsMade == {i \in DOMAIN issued : issued[i].of = 0}

IssueGrant(g) == PublishPolicy([by |-> g.by, to |-> g.to, cap |-> g.cap, of |-> 0])
\* A 441 by any grantor.
RevokeGrant(i) == PublishPolicy([issued[i] EXCEPT !.of = i])
GrantLapses(i) == expired' = expired \cup {i} /\ UNCHANGED <<issued, stored>>

FoldNext ==
  \/ \E g \in Issues : IssueGrant(g)
  \/ \E i \in GrantsMade : RevokeGrant(i) \/ (i \notin expired /\ GrantLapses(i))

FoldSpec == FoldInit /\ [][FoldNext]_foldVars

-----------------------------------------------------------------------------
\* The fold: live holds a grant per key and capability, voices a shadow per key.

Nothing == [live |-> [k \in Senders |-> [c \in Caps |-> 0]], voices |-> [k \in Senders |-> 0]]

Drop(f, i) ==
  [live |-> [k \in Senders |-> [c \in Caps |-> IF f.live[k][c] = i THEN 0 ELSE f.live[k][c]]],
   voices |-> [k \in Senders |-> IF f.voices[k] = i THEN 0 ELSE f.voices[k]]]

Taken(f, i) ==
  LET ev == issued[i]
  IN  CASE ev.of # 0 -> Drop(f, ev.of)
        [] ev.of = 0 /\ ev.cap = "shadow" ->
             IF ev.to = ev.by THEN f ELSE [f EXCEPT !.voices[ev.to] = i]
        [] OTHER -> [f EXCEPT !.live[ev.to][ev.cap] = i]
Folded(f, i) == IF i \in expired THEN Drop(Taken(f, i), i) ELSE Taken(f, i)

\* A voice holds what its grantor's own grants give, beside its own.
Resolved(f) ==
  {g \in Senders \X Caps :
     LET k == g[1]  c == g[2]
     IN  f.live[k][c] # 0 \/ (f.voices[k] # 0 /\ f.live[issued[f.voices[k]].by][c] # 0)}

\* The events E one after the other, oldest first.
FoldOf(E) ==
  LET fold[n \in 0 .. Len(issued)] ==
        IF n = 0 THEN Nothing ELSE IF n \in E THEN Folded(fold[n - 1], n) ELSE fold[n - 1]
  IN  fold[Len(issued)]

Answered(A) == UNION {stored[r] : r \in A}

\* Mutant of Permitted: a voice holds what its grantor's voice was given before it.
PermittedInTurn(A) ==
  LET f == FoldOf(Answered(A))
      once == Resolved(f)
  IN  once \cup {g \in Senders \X Caps :
                    f.voices[g[1]] # 0 /\ <<issued[f.voices[g[1]]].by, g[2]>> \in once}
\* The union of what the relays in A answered, folded.
Permitted(A) == Resolved(FoldOf(Answered(A)))

\* Messages: direct mail, a carrier's copy of what its author said in a
\* channel, a mention heard on the channel's relay, a direct message there.
Messages == [via : {"mail", "carry", "channel", "dm"}, from : Senders, author : Senders]

\* The verdict under the grants permitted; without an answer all is data.
MessageVerdict(permitted, A, m) ==
  LET holding(k, c) == <<k, c>> \in permitted
  IN  CASE A # {} /\ m.via = "carry" /\ holding(m.from, "task-relay") /\ holding(m.author, "task") -> "task"
        [] A # {} /\ m.via \in {"mail", "carry"} /\ holding(m.from, "task") -> "task"
        [] A # {} /\ m.via = "carry" /\ holding(m.from, "task-relay")
             /\ ~holding(m.author, "task") /\ ~holding(m.from, "task") -> "notice"
        [] A # {} /\ m.via = "channel" /\ holding(m.author, "task") -> "task"
        [] A # {} /\ m.via = "dm" /\ m.author \in Grantors /\ holding(m.author, "task") -> "task"
        [] OTHER -> "data"

-----------------------------------------------------------------------------
\* Authority by definition: the newest grant of its kind, unless it ended.  Who names
\* oneself as one's voice grants nothing.
Counts(i) == issued[i].of = 0 /\ (issued[i].cap = "shadow" => issued[i].by # issued[i].to)
OfKind(E, k, c) == {i \in E : Counts(i) /\ issued[i].to = k /\ issued[i].cap = c}
Newest(E, k, c) == {i \in OfKind(E, k, c) : \A j \in OfKind(E, k, c) : j <= i}
Ended(E, i) == i \in expired \/ \E j \in E : issued[j].of = i
Own(E, k, c) == \E i \in Newest(E, k, c) : ~Ended(E, i)
Holds(E, k, c) ==
  Own(E, k, c) \/ \E s \in Newest(E, k, "shadow") : ~Ended(E, s) /\ Own(E, issued[s].by, c)

\* Whatever relays answer, a message is a task only by a grant that they hold
\* and whose end none of them holds: its author's, given by a grantor or
\* through the one voice that speaks for a grantor's own grants, never by a
\* chain of voices, and its carrier's too when it was carried (foldGrantsWith,
\* partitionInvocations, nativeGrant).
TasksAreGranted ==
  \A A \in SUBSET GrantRelays :
    LET permitted == Permitted(A)
        may == {g \in Senders \X Caps : Holds(Answered(A), g[1], g[2])}
    IN  \A m \in Messages :
          MessageVerdict(permitted, A, m) = "task" <=>
            \/ m.via = "carry" /\ <<m.from, "task-relay">> \in may /\ <<m.author, "task">> \in may
            \/ m.via \in {"mail", "carry"} /\ <<m.from, "task">> \in may
            \/ m.via = "channel" /\ <<m.author, "task">> \in may
            \/ m.via = "dm" /\ m.author \in Grantors /\ <<m.author, "task">> \in may
=============================================================================
