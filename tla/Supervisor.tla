------------------------------ MODULE Supervisor ------------------------------
(***************************************************************************)
(* The per-sensor supervisor (supervisor.py): it spawns the core and then    *)
(* the plugins, looks after them one after the other, restarts a plugin that *)
(* crashed, and on a core exit or a signal interrupts all of them and waits  *)
(* for each until its own deadline.  Its one thread only sleeps or waits;    *)
(* children exit and signals come at any time.  Times are ticks, and time    *)
(* passes only where the code sleeps or waits.                               *)
(***************************************************************************)
EXTENDS Integers, FiniteSets

CONSTANTS N,            \* plugins this image spawns: 1..N, in the config's order
          Restartable,  \* those with `restart: true`
          RestartMax, RestartReset, Backoff, Stagger, Nap,
          PluginGrace, CoreGrace

ASSUME SupervisorAssumption ==
  /\ N \in Nat /\ Restartable \subseteq 1..N
  /\ {RestartMax, Backoff, Stagger, Nap, PluginGrace, CoreGrace} \subseteq Nat
  /\ PluginGrace <= CoreGrace
  /\ RestartReset \in Nat /\ RestartReset > N * Backoff + Nap

Core == 0
Services == {Core} \cup 1..N
Grace(s) == IF s = Core THEN CoreGrace ELSE PluginGrace

\* Bounds of the clocks: past these nothing changes any more.
Patience == Stagger + N * Backoff + Nap + CoreGrace

VARIABLES
  playback,  \* the source is finite
  pc,        \* "spawn", "stagger", "top", "sweep", "nap", "backoff", "signal", "wait", "done"
  cur,       \* the service it is at
  timer,     \* what is left of a sleep
  proc,      \* per service: "none", "running", "dead", "killed"
  rc,        \* per service: its return code, 0 or 1
  restarts,  \* Service.restarts
  age,       \* ticks since Service.started_at
  stopping,  \* _stopping
  exitRc,    \* _exit_rc
  told,      \* services that were sent SIGINT
  waited,    \* ticks since signalled_at
  asked,     \* history: an operator's signal came
  sinceAsk,  \* history: ticks since
  ran,       \* history: ticks the running child has been up
  rapid      \* history: respawns since the plugin last stayed up

super == <<pc, cur, timer, stopping, exitRc, told, waited>>
child == <<proc, rc, restarts, age>>
history == <<asked, sinceAsk, ran, rapid>>
vars == <<playback, super, child, history>>

TypeOK ==
  /\ playback \in BOOLEAN
  /\ pc \in {"spawn", "stagger", "top", "sweep", "nap", "backoff", "signal", "wait", "done"}
  /\ cur \in 0..(N + 1) /\ timer \in 0..Patience
  /\ proc \in [Services -> {"none", "running", "dead", "killed"}]
  /\ rc \in [Services -> 0..1]
  /\ restarts \in [Services -> 0..RestartMax]
  /\ age \in [Services -> 0..RestartReset]
  /\ stopping \in BOOLEAN /\ exitRc \in 0..1 /\ told \subseteq Services
  /\ waited \in 0..CoreGrace
  /\ asked \in BOOLEAN /\ sinceAsk \in 0..(Patience + 1)
  /\ ran \in [Services -> 0..RestartReset] /\ rapid \in [Services -> Nat]

Init ==
  /\ playback \in BOOLEAN
  /\ pc = "spawn" /\ cur = Core /\ timer = 0
  /\ proc = [s \in Services |-> "none"] /\ rc = [s \in Services |-> 0]
  /\ restarts = [s \in Services |-> 0] /\ age = [s \in Services |-> 0]
  /\ stopping = FALSE /\ exitRc = 0 /\ told = {} /\ waited = 0
  /\ asked = FALSE /\ sinceAsk = 0
  /\ ran = [s \in Services |-> 0] /\ rapid = [s \in Services |-> 0]

Alive(s) == proc[s] = "running"
Gone(s) == proc[s] = "dead"

Spawn(s) ==
  /\ proc' = [proc EXCEPT ![s] = "running"]
  /\ age' = [age EXCEPT ![s] = 0] /\ ran' = [ran EXCEPT ![s] = 0]
  /\ UNCHANGED rc

-----------------------------------------------------------------------------
(* run(): the core first, and the plugins once it had time to come up.       *)

SpawnNext ==
  /\ pc = "spawn" /\ cur <= N /\ ~stopping
  /\ Spawn(cur)
  /\ IF cur = Core THEN pc' = "stagger" /\ timer' = Stagger ELSE UNCHANGED <<pc, timer>>
  /\ cur' = cur + 1
  /\ UNCHANGED <<playback, restarts, stopping, exitRc, told, waited, asked, sinceAsk, rapid>>

\* A plugin that cannot be spawned is done without; without a core there is no sensor.
SpawnFails ==
  /\ pc = "spawn" /\ cur <= N /\ ~stopping
  /\ IF cur = Core THEN pc' = "signal" /\ stopping' = TRUE /\ exitRc' = 1
                   ELSE UNCHANGED <<pc, stopping, exitRc>>
  /\ cur' = cur + 1
  /\ UNCHANGED <<playback, timer, told, waited, child, history>>

Supervise ==
  /\ pc = "spawn" /\ (cur > N \/ stopping)
  /\ pc' = "top"
  /\ UNCHANGED <<playback, cur, timer, stopping, exitRc, told, waited, child, history>>

Wake ==
  /\ pc \in {"stagger", "nap"} /\ timer = 0
  /\ pc' = IF pc = "nap" THEN "top" ELSE "spawn"
  /\ UNCHANGED <<playback, cur, timer, stopping, exitRc, told, waited, child, history>>

-----------------------------------------------------------------------------
(* _monitor(): the stop flag is looked at once per sweep.                     *)

LoopTop ==
  /\ pc = "top"
  /\ pc' = IF stopping THEN "signal" ELSE "sweep"
  /\ cur' = Core
  /\ UNCHANGED <<playback, timer, stopping, exitRc, told, waited, child, history>>

NothingToDo ==
  /\ pc = "sweep" /\ cur <= N /\ ~Gone(cur)
  /\ cur' = cur + 1
  /\ UNCHANGED <<playback, pc, timer, stopping, exitRc, told, waited, child, history>>

SweepEnds ==
  /\ pc = "sweep" /\ cur > N
  /\ pc' = "nap" /\ timer' = Nap
  /\ UNCHANGED <<playback, cur, stopping, exitRc, told, waited, child, history>>

\* Fault: the core is looked after like a plugin without restart.
CoreForgotten ==
  /\ pc = "sweep" /\ cur = Core /\ Gone(Core)
  /\ proc' = [proc EXCEPT ![Core] = "none"]
  /\ cur' = cur + 1
  /\ UNCHANGED <<playback, pc, timer, stopping, exitRc, told, waited, rc, restarts, age, history>>

\* The end of the data is the success of a playback; any other exit of the core is the
\* sensor's failure, even a clean one.
CoreExited ==
  /\ pc = "sweep" /\ cur = Core /\ Gone(Core)
  /\ exitRc' = IF playback THEN rc[Core] ELSE 1
  /\ pc' = "signal" /\ stopping' = TRUE
  /\ UNCHANGED <<playback, cur, timer, told, waited, child, history>>

\* The counter of rapid restarts, forgotten if the plugin stayed up for a while.
Counted(s) == IF age[s] >= RestartReset THEN 0 ELSE restarts[s]

\* restart disabled, or it crashed too often: looked after no more.
PluginDropped ==
  /\ pc = "sweep" /\ cur \in 1..N /\ Gone(cur)
  /\ cur \notin Restartable \/ Counted(cur) >= RestartMax
  /\ proc' = [proc EXCEPT ![cur] = "none"]
  /\ restarts' = [restarts EXCEPT ![cur] = Counted(cur)]
  /\ cur' = cur + 1
  /\ UNCHANGED <<playback, pc, timer, stopping, exitRc, told, waited, rc, age, history>>

\* History: it stayed up for a while, until a sweep found it gone.
Lasted(s) == ran[s] + N * Backoff + Nap >= RestartReset

PluginBacksOff ==
  /\ pc = "sweep" /\ cur \in Restartable /\ Gone(cur) /\ Counted(cur) < RestartMax
  /\ restarts' = [restarts EXCEPT ![cur] = Counted(cur) + 1]
  /\ rapid' = [rapid EXCEPT ![cur] = IF Lasted(cur) THEN 1 ELSE @ + 1]
  /\ ran' = [ran EXCEPT ![cur] = 0]
  /\ pc' = "backoff" /\ timer' = Backoff
  /\ UNCHANGED <<playback, cur, stopping, exitRc, told, waited, proc, rc, age, asked, sinceAsk>>

\* A stop that came during the backoff wins.
StopWins ==
  /\ pc = "backoff" /\ timer = 0 /\ stopping
  /\ pc' = "sweep" /\ cur' = cur + 1
  /\ UNCHANGED <<playback, timer, stopping, exitRc, told, waited, child, history>>

Respawn ==
  /\ pc = "backoff" /\ timer = 0 /\ ~stopping
  /\ Spawn(cur)
  /\ pc' = "sweep" /\ cur' = cur + 1
  /\ UNCHANGED <<playback, timer, stopping, exitRc, told, waited, restarts, asked, sinceAsk, rapid>>

\* Fault: the time of the last start is kept.
RespawnFailsUnnoticed ==
  /\ pc = "backoff" /\ timer = 0 /\ ~stopping
  /\ pc' = "sweep" /\ cur' = cur + 1
  /\ UNCHANGED <<playback, timer, stopping, exitRc, told, waited, child, history>>

\* The dead process stays, to be found again by the next sweep.
RespawnFails ==
  /\ pc = "backoff" /\ timer = 0 /\ ~stopping
  /\ age' = [age EXCEPT ![cur] = 0]
  /\ pc' = "sweep" /\ cur' = cur + 1
  /\ UNCHANGED <<playback, timer, stopping, exitRc, told, waited, proc, rc, restarts, history>>

-----------------------------------------------------------------------------
(* _teardown(): all are interrupted at once, waited for shortest grace first. *)

Interrupt ==
  /\ pc = "signal"
  /\ stopping' = TRUE
  /\ told' = {s \in Services : Alive(s)}
  /\ waited' = 0
  /\ pc' = "wait" /\ cur' = 1
  /\ UNCHANGED <<playback, timer, exitRc, child, history>>

\* The core comes last.
AfterWait == IF cur = Core THEN pc' = "done" /\ UNCHANGED cur
             ELSE cur' = (IF cur < N THEN cur + 1 ELSE Core) /\ UNCHANGED pc

\* Plugins 1..N, or straight to the core when there is none.
Current == IF cur > N THEN Core ELSE cur

ChildEnded ==
  /\ pc = "wait" /\ ~Alive(Current)
  /\ AfterWait
  /\ UNCHANGED <<playback, timer, stopping, exitRc, told, waited, child, history>>

\* Fault: one budget for all, the shortest.
KillTogether ==
  /\ pc = "wait" /\ Alive(Current) /\ waited >= PluginGrace
  /\ proc' = [proc EXCEPT ![Current] = "killed"]
  /\ AfterWait
  /\ UNCHANGED <<playback, timer, stopping, exitRc, told, waited, rc, restarts, age, history>>

\* Fault: every budget begins with its own wait.
KillInTurn ==
  /\ pc = "wait" /\ Alive(Current) /\ waited >= Grace(Current)
  /\ proc' = [proc EXCEPT ![Current] = "killed"]
  /\ waited' = 0
  /\ AfterWait
  /\ UNCHANGED <<playback, timer, stopping, exitRc, told, rc, restarts, age, history>>

\* The deadline counts from the moment all were interrupted.
Kill ==
  /\ pc = "wait" /\ Alive(Current) /\ waited >= Grace(Current)
  /\ proc' = [proc EXCEPT ![Current] = "killed"]
  /\ AfterWait
  /\ UNCHANGED <<playback, timer, stopping, exitRc, told, waited, rc, restarts, age, history>>

-----------------------------------------------------------------------------
(* The environment.                                                          *)

\* SIGTERM or SIGINT: the handler sets the flag and nothing else.
Signal ==
  /\ pc # "done" /\ ~asked
  /\ asked' = TRUE /\ stopping' = TRUE
  /\ UNCHANGED <<playback, pc, cur, timer, exitRc, told, waited, child, sinceAsk, ran, rapid>>

\* A child ends by itself: asked to, finished, crashed, or by a forwarded SIGUSR1 that it
\* had no handler for yet.
Exit(s) ==
  /\ Alive(s) /\ pc # "done"
  /\ proc' = [proc EXCEPT ![s] = "dead"]
  /\ \E code \in 0..1 : rc' = [rc EXCEPT ![s] = code]
  /\ UNCHANGED <<playback, super, restarts, age, history>>

Up(n, limit) == IF n < limit THEN n + 1 ELSE n

Asleep ==
  \/ pc \in {"stagger", "nap", "backoff"} /\ timer > 0
  \/ pc = "wait" /\ Alive(Current) /\ waited < Grace(Current)

Tick ==
  /\ Asleep
  /\ timer' = IF timer > 0 THEN timer - 1 ELSE 0
  /\ waited' = IF pc = "wait" THEN waited + 1 ELSE waited
  /\ age' = [s \in Services |-> IF pc = "wait" \/ s = Core THEN age[s] ELSE Up(age[s], RestartReset)]
  /\ ran' = [s \in Services |-> IF Alive(s) /\ pc # "wait" /\ s # Core THEN Up(ran[s], RestartReset)
                                ELSE ran[s]]
  /\ sinceAsk' = IF asked THEN Up(sinceAsk, Patience + 1) ELSE 0
  /\ UNCHANGED <<playback, pc, cur, stopping, exitRc, told, proc, rc, restarts, asked, rapid>>

Ended == pc = "done" /\ UNCHANGED vars

Step ==
  \/ SpawnNext \/ SpawnFails \/ Supervise \/ Wake
  \/ LoopTop \/ NothingToDo \/ SweepEnds \/ CoreExited
  \/ PluginDropped \/ PluginBacksOff \/ StopWins \/ Respawn \/ RespawnFails
  \/ Interrupt \/ ChildEnded \/ Kill

Next == Step \/ Tick \/ Signal \/ (\E s \in Services : Exit(s)) \/ Ended

\* The supervisor goes on and time passes; no child has to end.
Spec == Init /\ [][Next]_vars /\ WF_vars(Step) /\ WF_vars(Tick)

-----------------------------------------------------------------------------
(* Properties.                                                               *)

\* The exit status tells the truth: zero only after an operator's signal or the clean
\* end of a playback; non-zero only if the core ended before it was interrupted, or
\* never ran.
ExitIsHonest ==
  pc = "done" =>
    /\ exitRc = 0 => asked \/ (playback /\ rc[Core] = 0 /\ proc[Core] = "dead")
    /\ exitRc # 0 => Core \notin told

\* Nobody outlives the supervisor, and nobody is killed that had not its whole grace
\* after the interrupt; the slowest plugin costs the core nothing.
NobodyLeftBehind ==
  /\ pc = "done" => \A s \in Services : ~Alive(s)
  /\ \A s \in Services : proc[s] = "killed" => s \in told /\ waited >= Grace(s)

\* supervisor.py:125-248: the sensor's end is told as it was, and nothing of it survives.
EndsAreHonest == ExitIsHonest /\ NobodyLeftBehind

\* A stop is done within the core's grace and what the supervisor may have been asleep
\* for when it came: the start of the core, or a sweep with a backoff for every plugin.
LongestSleep == IF Stagger > Cardinality(Restartable) * Backoff + Nap THEN Stagger
              ELSE Cardinality(Restartable) * Backoff + Nap

StopInTime == pc = "done" => sinceAsk <= LongestSleep + CoreGrace

\* A plugin that keeps crashing, or cannot be spawned any more, is given up: between two
\* runs that lasted there are at most RestartMax attempts.
RapidRestartsEnd == \A s \in Services : rapid[s] <= RestartMax

\* The exit of the core, or a signal, ends the sensor.
SensorEnds == (Gone(Core) \/ asked) ~> pc = "done"
=============================================================================
