---------------------------- MODULE DeployRunner ----------------------------
(***************************************************************************)
(* The box's deploy runner (deploy/runtime-deploy-runner.py): on a timer    *)
(* and on every change under the manifest root it takes a lock, compares    *)
(* the release and the manifests with what it recorded, brings every        *)
(* identity's stack up in turn and either records the set or rolls back     *)
(* all it touched.  A stack reads its manifest when it starts, and `up` of  *)
(* an unchanged Compose file starts nothing.                                *)
(***************************************************************************)
EXTENDS Naturals, FiniteSets

CONSTANTS
  Ids,        \* identities, brought up in this order
  Installed,  \* those whose stacks run at the start
  Contents,   \* what a manifest may say
  Bad,        \* contents that do not start
  NoMan,      \* no manifest of that name
  MaxRel,     \* releases main makes
  MaxEdits,   \* manifest writes by the operator
  MaxFaults,  \* pulls, boundary tests and `up`s that fail
  MaxKills,   \* runner processes killed in a tick
  Reverts     \* the operator may put back what a manifest said before

ASSUME EstateAssumption ==
  Bad \subseteq Contents /\ NoMan \notin Contents /\ Installed \subseteq Ids

VARIABLES
  man,      \* the manifest root
  file,     \* the release each live Compose file pins, 0 for none
  stack,    \* what runs: the release and the manifest it started from
  rel,      \* the newest release on main
  dep,      \* DEPLOYED_SHA
  rec,      \* DEPLOYED_MANIFESTS
  failed,   \* FAILED_ATTEMPT and whether its hold has passed
  lock,     \* .deploy-lock
  checkout, \* the release the runner's own checkout is at
  tick,     \* the running tick
  used,     \* contents each manifest has had
  alarmed,  \* a rollback step failed
  spent     \* edits, faults and kills so far

runVars == <<man, file, stack, rel, dep, rec, failed, lock, checkout, tick, used, alarmed, spent>>

Idle == [pc |-> "idle"]
Down == [rel |-> 0, man |-> NoMan]
NoAttempt == [attempt |-> <<>>, due |-> TRUE]

RunnerInit(content) ==
  /\ man = [i \in Ids |-> IF i \in Installed THEN content ELSE NoMan]
  /\ file = [i \in Ids |-> IF i \in Installed THEN 1 ELSE 0]
  /\ stack = [i \in Ids |-> IF i \in Installed THEN [rel |-> 1, man |-> content] ELSE Down]
  /\ rel = 1 /\ dep = 1 /\ rec = man /\ failed = NoAttempt /\ lock = FALSE /\ checkout = 1
  /\ tick = Idle /\ used = [i \in Ids |-> {man[i]}] /\ alarmed = FALSE
  /\ spent = [edits |-> 0, faults |-> 0, kills |-> 0]

\* verify_running: every expected service is up and the initializer ended well.
Up(s) == s # Down /\ s.man \notin Bad \cup {NoMan}

\* `docker compose up -d`: an unchanged, running stack is left alone.
Started(i, r, forced) ==
  IF forced \/ stack[i].rel # r \/ ~Up(stack[i]) THEN [rel |-> r, man |-> man[i]] ELSE stack[i]

Fault == spent.faults < MaxFaults /\ spent' = [spent EXCEPT !.faults = @ + 1]

-----------------------------------------------------------------------------
\* A tick. A tick that finds the lock leaves at once and changes nothing.
Begin ==
  /\ tick = Idle /\ ~lock
  /\ lock' = TRUE /\ tick' = [pc |-> "look"]
  /\ UNCHANGED <<man, file, stack, rel, dep, rec, failed, checkout, used, alarmed, spent>>

\* The lookup may name an older release than the newest (a fault of the index
\* it is served from). An older one than the deployed is not taken.
Named(r) ==
  \/ r = rel /\ UNCHANGED spent
  \/ r < rel /\ Fault
Looked(sha) == [pc |-> "read", sha |-> sha, ids |-> {i \in Ids : man[i] # NoMan}]

Look ==
  /\ tick.pc = "look"
  /\ \E r \in 1 .. rel : Named(r) /\ tick' = Looked(IF r < dep THEN dep ELSE r)
  /\ UNCHANGED <<man, file, stack, rel, dep, rec, failed, lock, checkout, used, alarmed>>

\* The manifests are read a second time, for their digests.
Read ==
  /\ tick.pc = "read"
  /\ tick' = IF tick.ids = {} THEN [pc |-> "exit"]
             ELSE [pc |-> "judge", sha |-> tick.sha, ids |-> tick.ids, dig |-> man]
  /\ UNCHANGED <<man, file, stack, rel, dep, rec, failed, lock, checkout, used, alarmed, spent>>

Recreate(dig) == {i \in Ids : dig[i] # NoMan /\ rec[i] # dig[i]}
Healthy(ids) == \A i \in ids : file[i] # 0 /\ Up(stack[i])

\* Mutant of Judge: a healthy stack is current, whatever its manifest says.
JudgeByHealth ==
  /\ tick.pc = "judge"
  /\ LET again == {}
         attempt == <<tick.sha, tick.dig>>
         go == [pc |-> "stage", sha |-> tick.sha, ids |-> tick.ids, dig |-> tick.dig,
                again |-> again, done |-> {}, backup |-> file, back |-> checkout]
     IN IF dep = tick.sha /\ Healthy(tick.ids) /\ again = {}
          THEN tick' = [pc |-> "exit", said |-> "current"] /\ UNCHANGED checkout
        ELSE IF failed.attempt = attempt /\ ~failed.due
          THEN tick' = [pc |-> "exit", said |-> "held"] /\ UNCHANGED checkout
        ELSE tick' = go /\ checkout' = tick.sha
  /\ UNCHANGED <<man, file, stack, rel, dep, rec, failed, lock, used, alarmed, spent>>

\* Already current and healthy, held after the same failure, or to be done.
Judge ==
  /\ tick.pc = "judge"
  /\ LET again == IF dep = tick.sha THEN Recreate(tick.dig) ELSE {}
         attempt == <<tick.sha, tick.dig>>
         go == [pc |-> "stage", sha |-> tick.sha, ids |-> tick.ids, dig |-> tick.dig,
                again |-> again, done |-> {}, backup |-> file, back |-> checkout]
     IN IF dep = tick.sha /\ Healthy(tick.ids) /\ again = {}
          THEN tick' = [pc |-> "exit", said |-> "current"] /\ UNCHANGED checkout
        ELSE IF failed.attempt = attempt /\ ~failed.due
          THEN tick' = [pc |-> "exit", said |-> "held"] /\ UNCHANGED checkout
        ELSE tick' = go /\ checkout' = tick.sha
  /\ UNCHANGED <<man, file, stack, rel, dep, rec, failed, lock, used, alarmed, spent>>

Failure == failed' = [attempt |-> <<tick.sha, tick.dig>>, due |-> FALSE]

\* Images pulled, the boundary test passed and every Compose file rendered.
Stage ==
  /\ tick.pc = "stage"
  /\ \/ tick' = [tick EXCEPT !.pc = "up"] /\ UNCHANGED <<failed, checkout, spent>>
     \/ Fault /\ Failure /\ checkout' = tick.back /\ tick' = [pc |-> "exit"]
  /\ UNCHANGED <<man, file, stack, rel, dep, rec, lock, used, alarmed>>

Earlier(i, S) == S = {} \/ i = CHOOSE j \in S : TRUE

\* One identity is brought up. It is noted as touched before its `up` is.
BringUp ==
  /\ tick.pc = "up" /\ tick.ids \ tick.done # {}
  /\ \E i \in tick.ids \ tick.done :
       /\ Earlier(i, tick.ids \ tick.done)
       /\ \E ok \in BOOLEAN, s \in {stack[i], Started(i, tick.sha, i \in tick.again)} :
            /\ IF ok THEN s = Started(i, tick.sha, i \in tick.again) /\ UNCHANGED spent ELSE Fault
            /\ stack' = [stack EXCEPT ![i] = s]
            /\ tick' = [tick EXCEPT !.done = @ \cup {i}, !.pc = IF ok /\ Up(s) THEN "up" ELSE "back"]
  /\ UNCHANGED <<man, file, rel, dep, rec, failed, lock, checkout, used, alarmed>>

\* The candidate failed: every touched identity goes back to the Compose file
\* it had, or down if it had none.
BringBack ==
  /\ tick.pc = "back" /\ tick.done # {}
  /\ \E i \in tick.done, ok \in BOOLEAN :
       LET s == IF tick.backup[i] = 0 THEN Down ELSE Started(i, tick.backup[i], FALSE)
       IN /\ IF ok THEN UNCHANGED spent ELSE Fault
          /\ stack' = [stack EXCEPT ![i] = IF ok THEN s ELSE @]
          /\ alarmed' = (alarmed \/ ~ok \/ (tick.backup[i] # 0 /\ ~Up(s)))
          /\ tick' = [tick EXCEPT !.done = @ \ {i}]
  /\ UNCHANGED <<man, file, rel, dep, rec, failed, lock, checkout, used>>

GiveUp ==
  /\ tick.pc = "back" /\ tick.done = {}
  /\ Failure /\ checkout' = tick.back /\ tick' = [pc |-> "exit"]
  /\ UNCHANGED <<man, file, stack, rel, dep, rec, lock, used, alarmed, spent>>

\* All are up: the Compose files, the release and the manifests are recorded,
\* each write by itself.
Promote ==
  /\ \/ /\ tick.pc = "up" /\ tick.ids = tick.done
        /\ file' = [i \in Ids |-> IF i \in tick.ids THEN tick.sha ELSE file[i]]
        /\ tick' = [tick EXCEPT !.pc = "release"] /\ UNCHANGED <<dep, rec, failed>>
     \/ /\ tick.pc = "release" /\ dep' = tick.sha
        /\ tick' = [tick EXCEPT !.pc = "record"] /\ UNCHANGED <<file, rec, failed>>
     \/ /\ tick.pc = "record" /\ rec' = tick.dig /\ failed' = NoAttempt
        /\ tick' = [pc |-> "exit"] /\ UNCHANGED <<file, dep>>
  /\ UNCHANGED <<man, stack, rel, lock, checkout, used, alarmed, spent>>

Exit ==
  /\ tick.pc = "exit" /\ lock' = FALSE /\ tick' = Idle
  /\ UNCHANGED <<man, file, stack, rel, dep, rec, failed, checkout, used, alarmed, spent>>

\* The process dies in a tick; its lock stays until an operator removes it.
Kill ==
  /\ tick # Idle /\ spent.kills < MaxKills
  /\ spent' = [spent EXCEPT !.kills = @ + 1] /\ tick' = Idle
  /\ UNCHANGED <<man, file, stack, rel, dep, rec, failed, lock, checkout, used, alarmed>>

Unlock ==
  /\ lock /\ tick = Idle /\ lock' = FALSE
  /\ UNCHANGED <<man, file, stack, rel, dep, rec, failed, checkout, tick, used, alarmed, spent>>

\* RETRY_AFTER_S passes since the failed attempt.
RetryDue ==
  /\ ~failed.due /\ failed' = [failed EXCEPT !.due = TRUE]
  /\ UNCHANGED <<man, file, stack, rel, dep, rec, lock, checkout, tick, used, alarmed, spent>>

Release ==
  /\ rel < MaxRel /\ rel' = rel + 1
  /\ UNCHANGED <<man, file, stack, dep, rec, failed, lock, checkout, tick, used, alarmed, spent>>

\* The operator writes or removes a manifest.
Edit(i) ==
  /\ spent.edits < MaxEdits /\ spent' = [spent EXCEPT !.edits = @ + 1]
  /\ \E c \in Contents \cup {NoMan} :
       /\ c # man[i] /\ (c = NoMan \/ Reverts \/ c \notin used[i])
       /\ man' = [man EXCEPT ![i] = c] /\ used' = [used EXCEPT ![i] = @ \cup {c}]
  /\ UNCHANGED <<file, stack, rel, dep, rec, failed, lock, checkout, tick, alarmed>>

Runner == Begin \/ Look \/ Read \/ Judge \/ Stage \/ BringUp \/ BringBack \/ GiveUp \/ Promote \/ Exit
RunnerNext == Runner \/ Kill \/ Unlock \/ RetryDue \/ Release \/ \E i \in Ids : Edit(i)

\* The timer fires every thirty seconds and a tick's steps end; the hold of a
\* failed attempt passes. Nothing makes an operator remove a dead lock.
RunnerFairness == WF_runVars(Runner) /\ WF_runVars(RetryDue)

-----------------------------------------------------------------------------
\* No tick was killed and no rollback step failed.
Undisturbed == spent.kills = 0 /\ ~alarmed

\* Edits and releases reach the stacks: unless a tick was killed or a rollback
\* failed, once every manifest can start, each identity comes to run the newest
\* release from the manifest it has.
EstateConverges ==
  []Undisturbed /\ <>[](\A i \in Ids : man[i] \notin Bad)
    => <>[](\A i \in Ids : man[i] # NoMan => stack[i] = [rel |-> rel, man |-> man[i]])
=============================================================================
