---------------------------- MODULE FleetThread ----------------------------
(***************************************************************************)
(* The fleet's Codex harness (codex_harness.mjs): a supervisor keeps one    *)
(* thread open behind `codex app-server` and injects each admitted envelope *)
(* into it as a turn, one after the other, recording it as delivered once   *)
(* Codex has answered with the turn.  What it sends is a request that       *)
(* Codex answers, refuses, or leaves until it times out.                    *)
(***************************************************************************)
EXTENDS Naturals, FiniteSets, FiniteSetsExt

CONSTANTS
  MaxAdmitted,  \* bound on the envelopes, which the queue holds in this order
  MaxFaults     \* bound on deaths, requests that time out, turns that last too long

VARIABLES
  admitted,     \* how many envelopes the queue holds
  disk,         \* delivered.jsonl (listed: it is there) and the thread stored
  sup,          \* the supervisor: what it waits for and the envelope in hand
  codex,        \* the app-server: request to answer, answer, turns that run, ends told
  threads,      \* how many threads Codex has begun
  rollouts,     \* those it has saved
  faults,
  given,        \* history: the threads that were given each envelope
  passed        \* history: what the queue held at the first start

fleetVars == <<admitted, disk, sup, codex, threads, rollouts, faults, given, passed>>

Queue == 1 .. MaxAdmitted
Down == [pc |-> "down", next |-> 0]
Gone == [up |-> FALSE, owes |-> "none", said |-> "none", turns |-> {}, over |-> {}]

Init ==
  /\ admitted = 0 /\ disk = [listed |-> FALSE, marked |-> {}, thread |-> 0]
  /\ sup = Down /\ codex = Gone /\ threads = 0 /\ rollouts = {} /\ faults = 0
  /\ given = [e \in Queue |-> {}] /\ passed = {}

Fault == faults < MaxFaults /\ faults' = faults + 1
past == <<given, passed>>

Admit ==
  /\ admitted < MaxAdmitted /\ admitted' = admitted + 1
  /\ UNCHANGED <<disk, sup, codex, threads, rollouts, faults, past>>

-----------------------------------------------------------------------------
\* The supervisor.

\* On its first start what the queue holds is history; a kill in the middle of
\* that write leaves the file, and it is no first start any more.
Starts ==
  /\ sup.pc = "down"
  /\ IF disk.listed THEN sup' = [sup EXCEPT !.pc = "wait"] /\ UNCHANGED <<disk, passed, faults>>
     ELSE \E n \in 0 .. admitted :
            /\ IF n = admitted THEN sup' = [sup EXCEPT !.pc = "wait"] /\ UNCHANGED faults
               ELSE Fault /\ UNCHANGED sup
            /\ disk' = [disk EXCEPT !.listed = TRUE, !.marked = 1 .. n] /\ passed' = 1 .. n
  /\ UNCHANGED <<admitted, codex, threads, rollouts, given>>

\* request(): to a server that has exited it is not sent, and times out.
Sends(what) == codex' = [codex EXCEPT !.owes = IF codex.up THEN what ELSE "none", !.said = "none"]

Spawn ==
  /\ sup.pc = "wait" /\ sup' = [sup EXCEPT !.pc = "initialize"]
  /\ codex' = [Gone EXCEPT !.up = TRUE, !.owes = "initialize"]
  /\ UNCHANGED <<admitted, disk, threads, rollouts, faults, past>>

\* An error ends the round: the server is stopped and started again later.
GiveUp == sup' = [sup EXCEPT !.pc = "wait"] /\ codex' = Gone

\* openThread: the stored thread is resumed; one that Codex never saved, or none,
\* gives way to a new one, which is stored.
OpenThread ==
  /\ codex.said # "none"
  /\ \/ /\ sup.pc = "initialize"
        /\ LET step == IF disk.thread # 0 THEN "resume" ELSE "start"
           IN sup' = [sup EXCEPT !.pc = step] /\ Sends(step)
        /\ UNCHANGED disk
     \/ /\ sup.pc = "resume" /\ UNCHANGED disk
        /\ IF codex.said = "ok"
             THEN sup' = [sup EXCEPT !.pc = "loop"] /\ codex' = [codex EXCEPT !.said = "none"]
             ELSE sup' = [sup EXCEPT !.pc = "start"] /\ Sends("start")
     \/ /\ sup.pc = "start" /\ disk' = [disk EXCEPT !.thread = threads]
        /\ sup' = [sup EXCEPT !.pc = "loop"] /\ codex' = [codex EXCEPT !.said = "none"]
  /\ UNCHANGED <<admitted, threads, rollouts, faults, past>>

\* pendingEnvelopes: those of the queue that no line of the file names.
Pending == 1 .. admitted \ disk.marked

\* The oldest is injected; with none, a server that has exited ends the round.
Look ==
  /\ sup.pc = "loop"
  /\ IF Pending # {} THEN sup' = [pc |-> "ask", next |-> Min(Pending)] /\ Sends("turn")
     ELSE ~codex.up /\ GiveUp
  /\ UNCHANGED <<admitted, disk, threads, rollouts, faults, past>>

\* Codex began the turn: the envelope is delivered. A refusal ends the round.
\* The turn's end is missed when it is read together with the answer.
Mark ==
  /\ sup.pc = "ask" /\ codex.said # "none"
  /\ IF codex.said = "refused" THEN GiveUp /\ UNCHANGED <<disk, faults>>
     ELSE /\ disk' = [disk EXCEPT !.marked = @ \cup {sup.next}]
          /\ sup' = [sup EXCEPT !.pc = "turn"]
          /\ \/ codex' = [codex EXCEPT !.said = "none"] /\ UNCHANGED faults
             \/ /\ sup.next \in codex.over /\ Fault
                /\ codex' = [codex EXCEPT !.said = "none", !.over = {}]
  /\ UNCHANGED <<admitted, threads, rollouts, past>>

\* The turn ended, the server exited, or ten minutes have passed.
TurnOver ==
  /\ sup.pc = "turn" /\ sup' = [sup EXCEPT !.pc = "loop"]
  /\ \/ (sup.next \in codex.over \/ sup.next \notin codex.turns) /\ UNCHANGED faults
     \/ sup.next \in codex.turns /\ Fault
  /\ codex' = [codex EXCEPT !.over = {}]
  /\ UNCHANGED <<admitted, disk, threads, rollouts, past>>

\* A request that the server answers too late, or never, for it is gone.
TimesOut ==
  /\ sup.pc \in {"initialize", "resume", "start", "ask"}
  /\ IF codex.up \/ codex.said # "none" THEN Fault ELSE UNCHANGED faults
  /\ GiveUp
  /\ UNCHANGED <<admitted, disk, threads, rollouts, past>>

SupDies ==
  /\ sup.pc # "down" /\ Fault /\ sup' = Down /\ codex' = Gone
  /\ UNCHANGED <<admitted, disk, threads, rollouts, past>>

-----------------------------------------------------------------------------
\* `codex app-server`, as the harness uses it.

\* A thread has a rollout once its first turn has been saved. A turn beside one
\* that still runs may be refused.
Answer ==
  /\ codex.owes # "none"
  /\ \/ /\ codex.owes = "initialize" /\ codex' = [codex EXCEPT !.owes = "none", !.said = "ok"]
        /\ UNCHANGED <<threads, given>>
     \/ /\ codex.owes = "resume" /\ UNCHANGED <<threads, given>>
        /\ codex' = [codex EXCEPT !.owes = "none",
                                  !.said = IF disk.thread \in rollouts THEN "ok" ELSE "refused"]
     \/ /\ codex.owes = "start" /\ threads' = threads + 1 /\ UNCHANGED given
        /\ codex' = [codex EXCEPT !.owes = "none", !.said = "ok"]
     \/ /\ codex.owes = "turn" /\ UNCHANGED threads
        /\ \/ /\ given' = [given EXCEPT ![sup.next] = @ \cup {disk.thread}]
              /\ codex' = [codex EXCEPT !.owes = "none", !.said = "ok", !.turns = @ \cup {sup.next}]
           \/ /\ codex.turns # {} /\ UNCHANGED given
              /\ codex' = [codex EXCEPT !.owes = "none", !.said = "refused"]
  /\ UNCHANGED <<admitted, disk, sup, rollouts, faults, passed>>

TurnEnds ==
  \E e \in codex.turns :
    /\ codex' = [codex EXCEPT !.turns = @ \ {e}, !.over = @ \cup {e}]
    /\ rollouts' = rollouts \cup {disk.thread}
    /\ UNCHANGED <<admitted, disk, sup, threads, faults, past>>

\* It exits; the thread's first turn may have been saved by then.
ServerDies ==
  /\ codex.up /\ Fault
  /\ rollouts' \in {rollouts} \cup (IF codex.turns # {} THEN {rollouts \cup {disk.thread}} ELSE {})
  /\ codex' = (IF codex.said # "none" THEN [Gone EXCEPT !.said = codex.said] ELSE Gone)
  /\ UNCHANGED <<admitted, disk, sup, threads, past>>

-----------------------------------------------------------------------------
Supervisor == Starts \/ Spawn \/ OpenThread \/ Look \/ Mark \/ TurnOver \/ TimesOut
Codex == Answer \/ TurnEnds
Next == Admit \/ Supervisor \/ SupDies \/ Codex \/ ServerDies

\* The supervisor's loop goes on, its service starts it again, Codex answers and
\* its turns end.
Spec == Init /\ [][Next]_fleetVars /\ WF_fleetVars(Supervisor) /\ WF_fleetVars(Codex)

-----------------------------------------------------------------------------
=============================================================================
