---------------------------- MODULE PaneSession ----------------------------
(***************************************************************************)
(* An agent's session in a herdr pane (harness_herdr.mjs): launched by a    *)
(* command typed into the pane's shell, known by the number its launcher    *)
(* writes, and stopped with its process group.  Two programs keep one: the  *)
(* supervisor of a Claude session (instance-harness.mjs) and the keeper of  *)
(* the viewer of a Codex thread (codex-harness-portable.mjs).               *)
(***************************************************************************)
EXTENDS Naturals, FiniteSets

CONSTANTS
  Users,     \* the programs: "supervisor", "keeper"
  Unsure,    \* those whose calls of herdr may fail
  MaxRuns,   \* bound on launches
  MaxFaults  \* bound on sessions that end, failed calls, wedged panes, kills and
             \* the times the keeper is told again to show the thread

ASSUME RunsAssumption == MaxRuns \in Nat

VARIABLES
  user,
  proc,      \* each launch's process
  files,     \* the pid and start files (0: none) and the cancel file
  mem,       \* what the program remembers: pane, launched, launching
  pc,        \* how far start() is: "idle", "stop", "agent", "type", "wait", "watch"
  todo,      \* the groups that start() stops and those the signal handler stops
  want,      \* the keeper: a command is to be shown
  fresh,     \* the keeper: calls of show() that wait for start() to be over
  life,      \* the program: "up", "killed" and to be restarted, "exited"
  sig,       \* the supervisor's signal handler: "none", "waits", "stops"
  killing,   \* kill() is under way, for "hide" or for "exit"
  termed,    \* launches that were sent SIGTERM
  runs, faults,
  told,     \* the keeper has been told to show the thread
  strays     \* history: processes whose program was killed while they lived

paneVars ==
  <<user, proc, files, mem, pc, todo, want, fresh, life, sig, killing, termed, runs,
  faults, told, strays>>

Runs == 1 .. MaxRuns
NoFiles == [pid |-> 0, start |-> 0, cancel |-> FALSE]
NoMem == [pane |-> FALSE, launched |-> {}, launching |-> FALSE]
NoTodo == [start |-> {}, signal |-> {}]

Init ==
  /\ user \in Users
  /\ proc = [i \in Runs |-> "none"] /\ files = NoFiles /\ mem = NoMem /\ pc = "idle"
  /\ todo = NoTodo /\ want = FALSE /\ fresh = 0 /\ life = "up" /\ sig = "none"
  /\ killing = "no" /\ termed = {} /\ runs = 0 /\ told = FALSE /\ faults = 0 /\ strays = {}

world == <<proc, files, termed, strays>>
asked == <<want, fresh, told>>
lifeVars == <<life, sig, killing>>
Faulty == faults < MaxFaults /\ faults' = faults + 1

-----------------------------------------------------------------------------
\* What the program can tell of a process.

\* The process that wrote its number lives on as the agent (exec), so does its group;
\* the group may outlive it.
Leads(i) == proc[i] \in {"wrote", "up"}
Grouped(i) == Leads(i) \/ proc[i] = "rest"
InFront == {i \in Runs : Grouped(i)}

\* ours(): alive, and started at the time on record.
Ours(i) == i # 0 /\ files.start = i /\ Leads(i)

\* adopt(): the process a launch under way has written is that launch's session.
Adopts == files.pid # 0 /\ files.pid \notin mem.launched /\ Leads(files.pid)
Adopted == IF Adopts THEN [files EXCEPT !.start = files.pid] ELSE files
Known == IF Adopts THEN mem.launched \cup {files.pid} ELSE mem.launched

\* What stop() and kill() signal, by the files f and the set launched.
Targets(f, launched) ==
  (IF f.pid # 0 /\ f.start = f.pid /\ Leads(f.pid) THEN {f.pid} ELSE {})
    \cup {i \in launched : Grouped(i)}

\* What was typed is still to run.
Coming == \E i \in Runs : proc[i] = "typed"

Dead == files.pid # 0 /\ ~Ours(files.pid)
Runnable == life = "up" /\ killing = "no"

\* A stop of the signal handler whose groups have gone ends the program before
\* start() types: it looks every 100 ms, the keys wait for 500.
InTime == ~(sig = "stops" /\ \A i \in todo.signal : ~Grouped(i))

\* The workspace closed: everything in its pane ends with it.
Closed == [i \in Runs |-> IF proc[i] = "none" THEN "none" ELSE "ended"]

-----------------------------------------------------------------------------
\* start().

\* It is time: the supervisor's loop, whose session ended or was given up; the
\* keeper told to show, or at a tick that finds nothing shown.
Due ==
  /\ Runnable /\ pc = "idle"
  /\ IF user = "supervisor" THEN sig = "none" /\ UNCHANGED fresh
     ELSE /\ want
          /\ \/ fresh > 0 /\ fresh' = fresh - 1
             \/ (~mem.pane \/ Dead) /\ UNCHANGED fresh

\* The pane, found or created; then stop() for what runs in it.
Begin ==
  /\ Due
  /\ pc' = "stop" /\ mem' = [mem EXCEPT !.pane = TRUE]
  /\ todo' = [todo EXCEPT !.start = Targets(files, mem.launched)]
  /\ UNCHANGED <<user, world, want, lifeVars, runs, told, faults>>

\* A show() that waited while hide() came has nothing left to show.
ShowNothing ==
  /\ Runnable /\ pc = "idle" /\ fresh > 0 /\ ~want /\ fresh' = fresh - 1
  /\ UNCHANGED <<user, world, mem, pc, todo, want, lifeVars, runs, told, faults>>

\* herdr does not answer, and does not do what it was asked: start() is over.
\* A launch that is late and whose workspace does not close is left out.
HerdrFails ==
  /\ user \in Unsure /\ Faulty
  /\ \/ Due /\ UNCHANGED <<mem, proc>>
     \/ /\ Runnable /\ pc = "agent" /\ InFront # {}
        /\ proc' \in {proc, Closed} /\ UNCHANGED <<mem, fresh>>
     \/ /\ Runnable /\ ((pc = "type" /\ InTime) \/ (pc = "wait" /\ files.pid = 0 /\ ~Coming))
        /\ mem' = [mem EXCEPT !.launching = FALSE] /\ UNCHANGED <<proc, fresh>>
  /\ pc' = "idle"
  /\ UNCHANGED <<user, files, termed, strays, todo, want, told, lifeVars, runs>>

\* An agent that herdr still sees in the pane goes with its workspace; herdr
\* may not have recognised it. Then the files of the last launch are removed.
\* What a killed program typed has run by then.
Look ==
  /\ Runnable /\ pc = "agent" /\ ~Coming
  /\ proc' \in {proc} \cup (IF InFront # {} THEN {Closed} ELSE {})
  /\ pc' = "type" /\ files' = NoFiles /\ mem' = [mem EXCEPT !.launching = TRUE]
  /\ runs < MaxRuns /\ runs' = runs + 1
  /\ UNCHANGED <<user, termed, strays, todo, asked, lifeVars, faults>>

\* The line is cleared and the launcher typed. What runs in front takes it for
\* its own input, and a pane in a dead session's modes never runs it.
Type ==
  /\ Runnable /\ pc = "type" /\ pc' = "wait"
  /\ InTime
  /\ \/ /\ proc' = [proc EXCEPT ![runs] = IF InFront = {} THEN "typed" ELSE "ended"]
        /\ UNCHANGED faults
     \/ Faulty /\ proc' = [proc EXCEPT ![runs] = "ended"]
  /\ UNCHANGED <<user, files, termed, strays, mem, todo, asked, lifeVars, runs>>

\* The number appeared: the session is ours.
Took ==
  /\ Runnable /\ pc = "wait" /\ files.pid # 0
  /\ files' = Adopted /\ mem' = [mem EXCEPT !.launched = Known, !.launching = FALSE]
  /\ pc' = IF user = "supervisor" THEN "watch" ELSE "idle"
  /\ UNCHANGED <<user, proc, termed, strays, todo, asked, lifeVars, runs, faults>>

\* Mutant of TimedOut: the pane that was closed is still remembered.
TimedOutKeepsPane ==
  /\ Runnable /\ pc = "wait" /\ files.pid = 0
  /\ IF Coming THEN Faulty ELSE UNCHANGED faults
  /\ proc' = Closed /\ mem' = [mem EXCEPT !.launching = FALSE] /\ pc' = "idle"
  /\ UNCHANGED <<user, files, termed, strays, todo, asked, lifeVars, runs>>

\* It did not in time: the workspace is closed, for the next start to open a
\* fresh one. A launch that was typed is run in time, but for a fault.
TimedOut ==
  /\ Runnable /\ pc = "wait" /\ files.pid = 0
  /\ IF Coming THEN Faulty ELSE UNCHANGED faults
  /\ proc' = Closed /\ mem' = [mem EXCEPT !.pane = FALSE, !.launching = FALSE] /\ pc' = "idle"
  /\ UNCHANGED <<user, files, termed, strays, todo, asked, lifeVars, runs>>

-----------------------------------------------------------------------------
\* stop(), for start() and for the signal handler.

CanStop(w) ==
  Runnable /\ IF w = "start" THEN pc = "stop" ELSE sig = "stops"

\* SIGTERM ends the group, or its leader alone, or nothing for now.
Terminate(w) ==
  /\ CanStop(w)
  /\ \E i \in todo[w] \ termed :
       /\ Grouped(i) /\ termed' = termed \cup {i}
       /\ \E s \in {"ended", "rest", proc[i]} : proc' = [proc EXCEPT ![i] = s]
  /\ UNCHANGED <<user, files, strays, mem, pc, todo, asked, lifeVars, runs, faults>>

\* What stays for five seconds is killed.
KillGroup(w) ==
  /\ CanStop(w)
  /\ \E i \in todo[w] \cap termed : Grouped(i) /\ proc' = [proc EXCEPT ![i] = "ended"]
  /\ UNCHANGED <<user, files, termed, strays, mem, pc, todo, asked, lifeVars, runs, faults>>

\* All of them gone: start() goes on, the signal handler exits.
Stopped(w) ==
  /\ CanStop(w) /\ \A i \in todo[w] : ~Grouped(i)
  /\ todo' = [todo EXCEPT ![w] = {}]
  /\ mem' = [mem EXCEPT !.launched = {i \in @ : Grouped(i)}]
  /\ IF w = "start" THEN pc' = "agent" /\ UNCHANGED lifeVars
     ELSE life' = "exited" /\ UNCHANGED <<pc, sig, killing>>
  /\ UNCHANGED <<user, world, asked, runs, faults>>

\* Mutant of SignalStops: a stop in the middle of a launch does not wait for it.
SignalStopsNow ==
  /\ sig' = "stops" /\ UNCHANGED <<files, mem>>
  /\ todo' = [todo EXCEPT !.signal = Targets(files, mem.launched)]

\* In the middle of a launch stop() waits for the number, and adopts it.
SignalStops ==
  IF mem.launching /\ files.pid = 0
    THEN sig' = "waits" /\ UNCHANGED <<files, mem, todo>>
    ELSE /\ sig' = "stops"
         /\ files' = (IF mem.launching THEN Adopted ELSE files)
         /\ mem' = (IF mem.launching THEN [mem EXCEPT !.launched = Known] ELSE mem)
         /\ todo' = [todo EXCEPT !.signal = Targets(files', mem'.launched)]

Signal ==
  /\ user = "supervisor" /\ Runnable /\ sig = "none" /\ SignalStops
  /\ UNCHANGED <<user, proc, termed, strays, pc, asked, life, killing, runs, faults>>
SignalWaited ==
  /\ Runnable /\ sig = "waits" /\ ~(mem.launching /\ files.pid = 0) /\ SignalStops
  /\ UNCHANGED <<user, proc, termed, strays, pc, asked, life, killing, runs, faults>>

-----------------------------------------------------------------------------
\* kill(), which nothing interrupts: hide(), and the exit of the keeper's program.

\* In the middle of a launch the launcher is told to end itself.
KillBegins(for) ==
  killing' = for /\ files' = [files EXCEPT !.cancel = @ \/ mem.launching]

Hide ==
  /\ user = "keeper" /\ Runnable /\ want /\ want' = FALSE /\ KillBegins("hide")
  /\ UNCHANGED <<user, proc, termed, strays, mem, pc, todo, fresh, told, life, sig, runs, faults>>
Exit ==
  /\ user = "keeper" /\ Runnable /\ want' = FALSE /\ KillBegins("exit")
  /\ UNCHANGED <<user, proc, termed, strays, mem, pc, todo, fresh, told, life, sig, runs, faults>>

\* The number has come, or two seconds have passed: what is ours gets SIGTERM,
\* and nothing waits for its end.
KillEnds ==
  /\ killing # "no"
  /\ LET f == IF mem.launching THEN Adopted ELSE files
         l == IF mem.launching THEN Known ELSE mem.launched
         hit == Targets(f, l)
     IN /\ files' = f /\ mem' = [mem EXCEPT !.launched = l]
        /\ termed' = termed \cup hit
        /\ \E out \in [hit -> {"ended", "rest", "stays"}] :
             proc' = [i \in Runs |-> IF i \in hit /\ out[i] # "stays" THEN out[i] ELSE proc[i]]
  /\ life' = IF killing = "exit" THEN "exited" ELSE life
  /\ killing' = "no"
  /\ UNCHANGED <<user, strays, pc, todo, asked, sig, runs, faults>>

-----------------------------------------------------------------------------
\* The programs around the session.

\* The thread can be attached to (runCodexPortableHarness).
Show ==
  /\ user = "keeper" /\ Runnable /\ ~want
  /\ want' = TRUE /\ fresh' = fresh + 1
  /\ told' = TRUE /\ (IF told THEN Faulty ELSE UNCHANGED faults)
  /\ UNCHANGED <<user, world, mem, pc, todo, lifeVars, runs>>

\* The supervisor finds its session ended; or gives it up, for a startup screen
\* or a channel that closed, and starts again.
Restart ==
  /\ user = "supervisor" /\ Runnable /\ sig = "none" /\ pc = "watch" /\ pc' = "idle"
  /\ IF Dead THEN UNCHANGED faults ELSE Faulty
  /\ UNCHANGED <<user, world, mem, todo, asked, lifeVars, runs>>

\* The program is killed and started again; its memory is lost.
Killed ==
  /\ Runnable /\ Faulty /\ life' = "killed"
  /\ strays' = strays \cup {i \in Runs : proc[i] = "typed" \/ Grouped(i)}
  /\ mem' = NoMem /\ pc' = "idle" /\ todo' = NoTodo /\ want' = FALSE /\ fresh' = 0 /\ sig' = "none"
  /\ UNCHANGED <<user, proc, files, termed, told, killing, runs>>
Revived ==
  /\ life = "killed" /\ life' = "up"
  /\ UNCHANGED <<user, world, mem, pc, todo, asked, sig, killing, runs, faults>>

-----------------------------------------------------------------------------
\* The pane's shell and what runs in it.

\* The shell runs what was typed; the launcher writes its number.
Launch(i) ==
  /\ proc[i] = "typed" /\ InFront = {}
  /\ proc' = [proc EXCEPT ![i] = "wrote"] /\ files' = [files EXCEPT !.pid = i]
  /\ UNCHANGED <<user, termed, strays, mem, pc, todo, asked, lifeVars, runs, faults>>

\* Then it reads whether it is told to stop, and becomes the agent.
Become(i) ==
  /\ proc[i] = "wrote"
  /\ proc' = [proc EXCEPT ![i] = IF files.cancel THEN "ended" ELSE "up"]
  /\ UNCHANGED <<user, files, termed, strays, mem, pc, todo, asked, lifeVars, runs, faults>>

\* The agent ends, and may leave members of its group behind, but for one that
\* ends in the 20 ms before its launch looks for its number.
Ends(i) ==
  /\ proc[i] = "up" /\ Faulty
  /\ \E s \in {"ended", "rest"} :
       /\ s = "rest" => ~mem.launching \/ i \in mem.launched
       /\ proc' = [proc EXCEPT ![i] = s]
  /\ UNCHANGED <<user, files, termed, strays, mem, pc, todo, asked, lifeVars, runs>>

Shell == \E i \in Runs : Launch(i) \/ Become(i)
Starting == Begin \/ ShowNothing \/ Look \/ Type \/ Took \/ TimedOut
Stopping == \E w \in {"start", "signal"} : Terminate(w) \/ KillGroup(w) \/ Stopped(w)
Program == Starting \/ Stopping \/ SignalWaited \/ KillEnds \/ Revived \/ (Restart /\ Dead)

Next ==
  \/ Starting \/ Stopping \/ Shell
  \/ HerdrFails \/ Signal \/ SignalWaited \/ Hide \/ Exit \/ KillEnds \/ Show
  \/ Restart \/ Killed \/ Revived
  \/ \E i \in Runs : Ends(i)

Spec == Init /\ [][Next]_paneVars /\ WF_paneVars(Program) /\ WF_paneVars(Shell)

-----------------------------------------------------------------------------
\* A program that exited on a signal leaves no session behind: the supervisor
\* has stopped what it launched (stop); the keeper has sent SIGTERM to it, or
\* its launcher will find the cancel file (kill). What an earlier program left,
\* killed outright, is for the next start.
ExitLeavesNothing ==
  life = "exited" => \A i \in Runs \ strays :
    \/ proc[i] \in {"none", "ended"}
    \/ user = "keeper" /\ (i \in termed \/ (proc[i] \in {"typed", "wrote"} /\ files.cancel))

\* The session is shown again, whatever ends it, until it is hidden: "herdr
\* being down only delays it" (herdrKeeper, and the loop of instance-harness).
Shown == \E i \in Runs : proc[i] = "up" /\ Ours(i) /\ files.pid = i
Wanted == IF user = "supervisor" THEN life # "exited" /\ sig = "none" ELSE want
ShownAgain == Wanted ~> (Shown \/ ~Wanted)
=============================================================================
