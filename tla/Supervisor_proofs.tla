-------------------------- MODULE Supervisor_proofs --------------------------
(***************************************************************************)
(* How a sensor ends, for any number of plugins and all times.  The exit   *)
(* status is honest because nothing revives a core that is gone (Verdict); *)
(* nobody is left behind because the waits go through all children while   *)
(* none is spawned any more, and nobody is killed early because only the   *)
(* interrupt starts the clock the graces are measured by (Waits).  A stop  *)
(* is in time because the sweep it came into sleeps at most once for every *)
(* plugin that is restarted (OnTime).                                      *)
(***************************************************************************)
EXTENDS Supervisor, FiniteSetTheorems, TLAPS

Ending == {"signal", "wait", "done"}

\* What exitRc will tell.
Verdict ==
  /\ pc = "spawn" /\ cur = Core => proc[Core] = "none"
  /\ pc = "stagger" => cur # Core
  /\ pc = "backoff" => cur \in 1..N
  /\ stopping /\ pc \notin Ending => asked
  /\ exitRc # 0 => pc \in Ending /\ proc[Core] \in {"none", "dead"} /\ Core \notin told
  /\ pc \in Ending /\ exitRc = 0 => asked \/ (playback /\ rc[Core] = 0 /\ proc[Core] = "dead")

\* Who is waited for, and who was killed.
Waits ==
  /\ pc = "wait" => \A s \in Services : Alive(s) => s \in told
  /\ pc = "wait" => \A s \in 1..N : cur = Core \/ s < cur => ~Alive(s)
  /\ pc = "done" => \A s \in Services : ~Alive(s)
  /\ pc \notin {"wait", "done"} => told = {} /\ \A s \in Services : proc[s] # "killed"
  /\ \A s \in Services : proc[s] = "killed" => s \in told /\ waited >= Grace(s)

(* How long ago a plugin that is gone may have been seen up: a backoff for  *)
(* each of the others since the last sweep came by, and the nap between.   *)
Sweeps(n) == n * Backoff

Elapsed(s) ==
  IF pc = "sweep" THEN IF cur <= s THEN Sweeps(N - s) + Nap + Sweeps(IF cur = Core THEN 0 ELSE cur - 1)
                       ELSE Sweeps(cur - 1 - s)
  ELSE IF pc = "backoff" THEN (IF cur < s THEN Sweeps(N - s) + Nap + Sweeps(cur - 1)
                               ELSE Sweeps(cur - s - 1)) + (Backoff - timer)
  ELSE IF pc = "nap" THEN Sweeps(N - s) + (Nap - timer)
  ELSE IF pc = "top" THEN Sweeps(N - s) + Nap
  ELSE 0

\* It will still be looked after, and is not just being.
Due(s) ==
  /\ pc \notin Ending
  /\ ~(pc = "backoff" /\ cur = s)
  /\ ~(stopping /\ pc \in {"nap", "top"})
  /\ ~(stopping /\ pc \in {"sweep", "backoff"} /\ s < cur)

Late == \A s \in 1..N :
  Due(s) /\ proc[s] \in {"running", "dead"} =>
    /\ age[s] <= ran[s] + Elapsed(s)
    /\ Alive(s) => age[s] <= ran[s]

Phases ==
  /\ pc = "backoff" => timer <= Backoff /\ proc[cur] = "dead"
  /\ pc = "nap" => timer <= Nap
  /\ rapid[Core] = 0
  /\ pc = "stagger" => cur = 1
  /\ pc \in {"spawn", "stagger"} =>
       \A s \in 1..N : rapid[s] = 0 /\ (s >= cur => proc[s] = "none")
  /\ pc \notin Ending => \A s \in Services : proc[s] \in {"none", "running", "dead"}

Counts == \A s \in Services :
  /\ rapid[s] <= RestartMax
  /\ pc \notin Ending /\ proc[s] # "none" => rapid[s] <= restarts[s]

IInv == TypeOK /\ Verdict /\ Waits

(* The longest sleeps are within the clock's bound.                        *)
LEMMA Clocks ==
  /\ Patience \in Nat /\ Stagger <= Patience /\ Nap <= Patience
  /\ N >= 1 => Backoff <= Patience
  /\ \A s \in Services : Grace(s) \in Nat /\ Grace(s) <= CoreGrace
<1> DEFINE Sweep == N * Backoff
<1>1. Sweep \in Nat /\ (N >= 1 => Backoff <= Sweep)
  BY SupervisorAssumption
<1> HIDE DEF Sweep
<1>2. Patience = Stagger + Sweep + Nap + CoreGrace
  BY DEF Patience, Sweep
<1>3. {RestartMax, Backoff, Stagger, Nap, PluginGrace, CoreGrace} \subseteq Nat
  BY SupervisorAssumption
<1> QED BY <1>1, <1>2, <1>3, SupervisorAssumption DEF Grace

LEMMA InitIInv == Init => IInv
<1> SUFFICES ASSUME Init PROVE IInv
  OBVIOUS
<1>1. playback \in BOOLEAN /\ stopping \in BOOLEAN /\ asked \in BOOLEAN
  BY Zenon DEF Init
<1>2. TypeOK
  BY <1>1, SupervisorAssumption, Clocks DEF Init, TypeOK, Services, Core
<1>3. Verdict /\ Waits
  BY SupervisorAssumption DEF Init, Verdict, Waits, Services, Core, Ending, Alive
<1> QED BY <1>2, <1>3 DEF IInv

(* Every action keeps the types.                                           *)
LEMMA TypeStep == IInv /\ [Next]_vars => TypeOK'
<1> SUFFICES ASSUME IInv, [Next]_vars PROVE TypeOK'
  OBVIOUS
<1> USE SupervisorAssumption, Clocks DEF IInv, TypeOK, Services, Core, Verdict, Spawn,
      Counted, Lasted, AfterWait, Current, Up, Asleep, Alive, Gone, super, child, history,
      vars
<1>1. CASE SpawnNext
  BY <1>1 DEF SpawnNext
<1>2. CASE SpawnFails
  <2>1. CASE cur = Core
    BY <1>2, <2>1 DEF SpawnFails
  <2>2. CASE cur # Core
    BY <1>2, <2>2 DEF SpawnFails
  <2> QED BY <2>1, <2>2
<1>3. CASE Supervise
  BY <1>3 DEF Supervise
<1>4. CASE Wake
  BY <1>4 DEF Wake
<1>5. CASE LoopTop
  BY <1>5 DEF LoopTop
<1>6. CASE NothingToDo
  BY <1>6 DEF NothingToDo
<1>7. CASE SweepEnds
  BY <1>7 DEF SweepEnds
<1>8. CASE CoreExited
  <2>1. rc[Core] \in 0..1
    OBVIOUS
  <2>2. exitRc' \in {1, rc[Core]}
    BY Zenon, <1>8 DEF CoreExited
  <2>3. /\ pc' = "signal" /\ stopping' = TRUE
        /\ UNCHANGED <<playback, cur, timer, told, waited, child, history>>
    BY Zenon, <1>8 DEF CoreExited
  <2> QED BY <2>1, <2>2, <2>3
<1>9. CASE PluginDropped
  BY <1>9 DEF PluginDropped
<1>10. CASE PluginBacksOff
  BY <1>10 DEF PluginBacksOff
<1>11. CASE StopWins
  BY <1>11 DEF StopWins
<1>12. CASE Respawn
  BY <1>12 DEF Respawn
<1>13. CASE RespawnFails
  BY <1>13 DEF RespawnFails
<1>14. CASE Interrupt
  BY <1>14 DEF Interrupt
<1>15. CASE ChildEnded
  <2>1. cur' \in 0..(N + 1)
    BY <1>15 DEF ChildEnded
  <2>2. pc' \in {"wait", "done"}
    BY <1>15 DEF ChildEnded
  <2> QED BY <1>15, <2>1, <2>2 DEF ChildEnded
<1>16. CASE Kill
  BY <1>16 DEF Kill
<1>17. CASE Tick
  BY <1>17 DEF Tick
<1>18. CASE Signal
  BY <1>18 DEF Signal
<1>19. ASSUME NEW s \in Services, Exit(s) PROVE TypeOK'
  BY <1>19 DEF Exit
<1>20. CASE UNCHANGED vars
  BY <1>20
<1> HIDE DEF TypeOK
<1> QED
  BY <1>1, <1>2, <1>3, <1>4, <1>5, <1>6, <1>7, <1>8, <1>9, <1>10, <1>11, <1>12, <1>13,
      <1>14, <1>15, <1>16, <1>17, <1>18, <1>19, <1>20 DEF Next, Step, Ended

(* No action revives a core that is gone.                                  *)
LEMMA VerdictStep == IInv /\ [Next]_vars => Verdict'
<1> SUFFICES ASSUME IInv, [Next]_vars PROVE Verdict'
  OBVIOUS
<1> USE SupervisorAssumption DEF IInv, TypeOK, Services, Core, Verdict, Ending, Waits,
      Spawn, Counted, Lasted, AfterWait, Current, Up, Asleep, Alive, Gone, super, child,
      history, vars
<1>1. CASE SpawnNext
  BY <1>1 DEF SpawnNext
<1>2. CASE SpawnFails
  BY <1>2 DEF SpawnFails
<1>3. CASE Supervise
  BY <1>3 DEF Supervise
<1>4. CASE Wake
  BY <1>4 DEF Wake
<1>5. CASE LoopTop
  BY <1>5 DEF LoopTop
<1>6. CASE NothingToDo
  BY <1>6 DEF NothingToDo
<1>7. CASE SweepEnds
  BY <1>7 DEF SweepEnds
<1>8. CASE CoreExited
  BY <1>8 DEF CoreExited
<1>9. CASE PluginDropped
  BY <1>9 DEF PluginDropped
<1>10. CASE PluginBacksOff
  BY <1>10 DEF PluginBacksOff
<1>11. CASE StopWins
  BY <1>11 DEF StopWins
<1>12. CASE Respawn
  BY <1>12 DEF Respawn
<1>13. CASE RespawnFails
  BY <1>13 DEF RespawnFails
<1>14. CASE Interrupt
  BY <1>14 DEF Interrupt
<1>15. CASE ChildEnded
  BY <1>15 DEF ChildEnded
<1>16. CASE Kill
  BY <1>16 DEF Kill
<1>17. CASE Tick
  BY <1>17 DEF Tick
<1>18. CASE Signal
  BY <1>18 DEF Signal
<1>19. ASSUME NEW s \in Services, Exit(s) PROVE Verdict'
  BY <1>19 DEF Exit
<1>20. CASE UNCHANGED vars
  BY <1>20
<1> HIDE DEF Verdict
<1> QED
  BY <1>1, <1>2, <1>3, <1>4, <1>5, <1>6, <1>7, <1>8, <1>9, <1>10, <1>11, <1>12, <1>13,
      <1>14, <1>15, <1>16, <1>17, <1>18, <1>19, <1>20 DEF Next, Step, Ended

(* No wait is skipped, and none is cut short.                              *)
LEMMA WaitsStep == IInv /\ [Next]_vars => Waits'
<1> SUFFICES ASSUME IInv, [Next]_vars PROVE Waits'
  OBVIOUS
<1> USE SupervisorAssumption, Clocks DEF IInv, TypeOK, Services, Core, Verdict, Waits,
      Spawn, Counted, Lasted, AfterWait, Current, Up, Asleep, Alive, Gone, super, child,
      history, vars
<1>1. CASE SpawnNext
  BY <1>1 DEF SpawnNext
<1>2. CASE SpawnFails
  BY <1>2 DEF SpawnFails
<1>3. CASE Supervise
  BY <1>3 DEF Supervise
<1>4. CASE Wake
  BY <1>4 DEF Wake
<1>5. CASE LoopTop
  BY <1>5 DEF LoopTop
<1>6. CASE NothingToDo
  BY <1>6 DEF NothingToDo
<1>7. CASE SweepEnds
  BY <1>7 DEF SweepEnds
<1>8. CASE CoreExited
  BY <1>8 DEF CoreExited
<1>9. CASE PluginDropped
  BY <1>9 DEF PluginDropped
<1>10. CASE PluginBacksOff
  BY <1>10 DEF PluginBacksOff
<1>11. CASE StopWins
  BY <1>11 DEF StopWins
<1>12. CASE Respawn
  BY <1>12 DEF Respawn
<1>13. CASE RespawnFails
  BY <1>13 DEF RespawnFails
<1>14. CASE Interrupt
  BY <1>14 DEF Interrupt
<1>15. CASE ChildEnded
  BY <1>15 DEF ChildEnded
<1>16. CASE Kill
  BY <1>16 DEF Kill
<1>17. CASE Tick
  BY <1>17 DEF Tick
<1>18. CASE Signal
  BY <1>18 DEF Signal
<1>19. ASSUME NEW s \in Services, Exit(s) PROVE Waits'
  BY <1>19 DEF Exit
<1>20. CASE UNCHANGED vars
  BY <1>20
<1> HIDE DEF Waits
<1> QED
  BY <1>1, <1>2, <1>3, <1>4, <1>5, <1>6, <1>7, <1>8, <1>9, <1>10, <1>11, <1>12, <1>13,
      <1>14, <1>15, <1>16, <1>17, <1>18, <1>19, <1>20 DEF Next, Step, Ended

(* Where everybody is in each phase.                                       *)
LEMMA PhasesStep == IInv /\ Phases /\ [Next]_vars => Phases'
<1> SUFFICES ASSUME IInv, Phases, [Next]_vars PROVE Phases'
  OBVIOUS
<1> USE Phases, SupervisorAssumption DEF IInv, TypeOK, Services, Core, Verdict, Ending,
      Phases, Waits, Spawn, Counted, Lasted, AfterWait, Current, Up, Asleep, Alive, Gone,
      super, child, history, vars
<1>1. CASE SpawnNext
  BY <1>1 DEF SpawnNext
<1>2. CASE SpawnFails
  BY <1>2 DEF SpawnFails
<1>3. CASE Supervise
  BY <1>3 DEF Supervise
<1>4. CASE Wake
  BY <1>4 DEF Wake
<1>5. CASE LoopTop
  BY <1>5 DEF LoopTop
<1>6. CASE NothingToDo
  BY <1>6 DEF NothingToDo
<1>7. CASE SweepEnds
  BY <1>7 DEF SweepEnds
<1>8. CASE CoreExited
  BY <1>8 DEF CoreExited
<1>9. CASE PluginDropped
  BY <1>9 DEF PluginDropped
<1>10. CASE PluginBacksOff
  BY <1>10 DEF PluginBacksOff
<1>11. CASE StopWins
  BY <1>11 DEF StopWins
<1>12. CASE Respawn
  BY <1>12 DEF Respawn
<1>13. CASE RespawnFails
  BY <1>13 DEF RespawnFails
<1>14. CASE Interrupt
  BY <1>14 DEF Interrupt
<1>15. CASE ChildEnded
  BY <1>15 DEF ChildEnded
<1>16. CASE Kill
  BY <1>16 DEF Kill
<1>17. CASE Tick
  BY <1>17 DEF Tick
<1>18. CASE Signal
  BY <1>18 DEF Signal
<1>19. ASSUME NEW s \in Services, Exit(s) PROVE Phases'
  BY <1>19 DEF Exit
<1>20. CASE UNCHANGED vars
  BY <1>20
<1> HIDE DEF Phases
<1> QED
  BY <1>1, <1>2, <1>3, <1>4, <1>5, <1>6, <1>7, <1>8, <1>9, <1>10, <1>11, <1>12, <1>13,
      <1>14, <1>15, <1>16, <1>17, <1>18, <1>19, <1>20 DEF Next, Step, Ended

(* The arithmetic of the sweeps.                                           *)
LEMMA SweepSums ==
  /\ \A n \in Nat : Sweeps(n) \in Nat /\ Sweeps(n + 1) = Sweeps(n) + Backoff
  /\ Sweeps(0) = 0 /\ Backoff \in Nat /\ Nap \in Nat
  /\ \A s \in 1..N : Sweeps(N - s) + Sweeps(s - 1) <= Sweeps(N)
<1>1. Backoff \in Nat /\ Nap \in Nat /\ N \in Nat
  BY SupervisorAssumption
<1>2. \A n \in Nat : n * Backoff \in Nat /\ (n + 1) * Backoff = n * Backoff + Backoff
  BY <1>1
<1>3. \A s \in 1..N : (N - s) * Backoff + (s - 1) * Backoff <= N * Backoff
  <2> SUFFICES ASSUME NEW s \in 1..N PROVE (N - s) * Backoff + (s - 1) * Backoff <= N * Backoff
    OBVIOUS
  <2>1. (N - s) * Backoff + (s - 1) * Backoff = N * Backoff - Backoff
    BY <1>1
  <2> QED BY <2>1, <1>1
<1> QED BY <1>1, <1>2, <1>3 DEF Sweeps

(* A plugin found gone was up no longer ago than a sweep takes.            *)
LEMMA LateStep == IInv /\ Phases /\ Late /\ [Next]_vars => Late'
<1> SUFFICES ASSUME IInv, Phases, Late, [Next]_vars, NEW p \in 1..N, Due(p)',
                    proc'[p] \in {"running", "dead"}
             PROVE  age'[p] <= ran'[p] + Elapsed(p)' /\ (Alive(p)' => age'[p] <= ran'[p])
  BY DEF Late
<1> DEFINE Goal == age'[p] <= ran'[p] + Elapsed(p)' /\ (Alive(p)' => age'[p] <= ran'[p])
<1> SUFFICES Goal
  OBVIOUS
<1>a. Due(p) /\ proc[p] \in {"running", "dead"} =>
        age[p] <= ran[p] + Elapsed(p) /\ (Alive(p) => age[p] <= ran[p])
  BY DEF Late
<1>b. /\ N \in Nat /\ Nap \in Nat /\ Backoff \in Nat /\ timer \in Nat /\ cur \in Nat
      /\ age[p] \in Nat /\ ran[p] \in Nat /\ p \in Services /\ p # Core
  BY SupervisorAssumption DEF IInv, TypeOK, Services, Core
<1>c. /\ Sweeps(N - p) \in Nat /\ Sweeps(0) = 0
      /\ cur > p => Sweeps(cur - p) = Sweeps(cur - 1 - p) + Backoff /\ Sweeps(cur - 1 - p) \in Nat
      /\ cur > 0 => Sweeps(cur) = Sweeps(cur - 1) + Backoff /\ Sweeps(cur - 1) \in Nat
  <2>1. cur > p => cur - 1 - p \in Nat /\ cur - 1 - p + 1 = cur - p
    BY <1>b
  <2>2. cur > 0 => cur - 1 \in Nat /\ cur - 1 + 1 = cur
    BY <1>b
  <2>3. N - p \in Nat
    BY <1>b
  <2>4. cur > p => Sweeps(cur - p) = Sweeps(cur - 1 - p) + Backoff /\ Sweeps(cur - 1 - p) \in Nat
    BY <2>1, SweepSums
  <2>5. cur > 0 => Sweeps(cur) = Sweeps(cur - 1) + Backoff /\ Sweeps(cur - 1) \in Nat
    BY <2>2, SweepSums
  <2> QED BY <2>3, <2>4, <2>5, SweepSums
<1> HIDE DEF Late
<1> USE <1>a, <1>b, <1>c DEF Due, Ending, Elapsed, Core
<1>1. CASE SpawnNext
  <2>1. cur' = cur + 1 /\ pc' \in {"spawn", "stagger"} /\ Due(p) /\ Elapsed(p) = 0 /\ Elapsed(p)' = 0
    BY <1>1 DEF SpawnNext
  <2>2. proc' = [proc EXCEPT ![cur] = "running"] /\ age' = [age EXCEPT ![cur] = 0]
        /\ ran' = [ran EXCEPT ![cur] = 0]
    BY <1>1 DEF SpawnNext, Spawn
  <2>3. CASE p = cur
    <3>1. age'[p] = 0 /\ ran'[p] = 0
      BY <2>2, <2>3 DEF IInv, TypeOK
    <3> QED BY <3>1, <2>1
  <2>4. CASE p # cur
    <3>1. age'[p] = age[p] /\ ran'[p] = ran[p] /\ proc'[p] = proc[p]
      BY <2>2, <2>4 DEF IInv, TypeOK
    <3> QED BY <3>1, <2>1 DEF Alive
  <2> QED BY <2>3, <2>4
<1>2. CASE SpawnFails
  BY <1>2, SupervisorAssumption DEF SpawnFails, IInv, TypeOK, Services, Verdict, Phases, AfterWait, Current, Alive, super, child, history
<1>3. CASE Supervise
  BY <1>3, SupervisorAssumption DEF Supervise, IInv, TypeOK, Services, Verdict, Phases, AfterWait, Current, Alive, super, child, history
<1>4. CASE Wake
  <2>1. /\ UNCHANGED <<cur, timer, stopping, proc, age, ran>> /\ timer = 0
        /\ \/ pc = "nap" /\ pc' = "top" 
           \/ pc = "stagger" /\ pc' = "spawn"
    BY <1>4 DEF Wake, child, history
  <2> QED BY <2>1 DEF Alive
<1>5. CASE LoopTop
  BY <1>5, SupervisorAssumption DEF LoopTop, IInv, TypeOK, Services, Verdict, Phases, AfterWait, Current, Alive, super, child, history
<1>6. CASE NothingToDo
  <2>1. /\ pc = "sweep" /\ pc' = pc /\ cur' = cur + 1 /\ proc[cur] # "dead"
        /\ UNCHANGED <<timer, stopping, proc, age, ran>>
    BY <1>6 DEF NothingToDo, child, history, Gone
  <2>2. CASE cur = Core
    BY <2>1, <2>2 DEF Alive
  <2>3. CASE cur \in 1..(p - 1)
    BY <2>1, <2>3 DEF Alive
  <2>4. CASE cur = p
    BY <2>1, <2>4 DEF Alive
  <2>5. CASE cur > p
    BY <2>1, <2>5 DEF Alive
  <2> QED BY <2>2, <2>3, <2>4, <2>5
<1>7. CASE SweepEnds
  BY <1>7, SupervisorAssumption DEF SweepEnds, IInv, TypeOK, Services, Verdict, Phases, AfterWait, Current, Alive, super, child, history
<1>8. CASE CoreExited
  BY <1>8, SupervisorAssumption DEF CoreExited, IInv, TypeOK, Services, Verdict, Phases, AfterWait, Current, Alive, super, child, history
<1>9. CASE PluginDropped
  <2>1. /\ pc = "sweep" /\ pc' = pc /\ cur' = cur + 1 /\ cur \in 1..N
        /\ proc' = [proc EXCEPT ![cur] = "none"]
        /\ UNCHANGED <<timer, stopping, age, ran>>
    BY <1>9 DEF PluginDropped, history
  <2>3. CASE cur < p
    <3>1. proc'[p] = proc[p]
      BY <2>1, <2>3 DEF IInv, TypeOK
    <3> QED BY <2>1, <2>3, <3>1 DEF Alive
  <2>4. CASE cur = p
    <3>1. proc'[p] = "none"
      BY <2>1, <2>4 DEF IInv, TypeOK
    <3> QED BY <3>1
  <2>5. CASE cur > p
    <3>1. proc'[p] = proc[p]
      BY <2>1, <2>5 DEF IInv, TypeOK
    <3> QED BY <2>1, <2>5, <3>1 DEF Alive
  <2> QED BY <2>3, <2>4, <2>5
<1>10. CASE PluginBacksOff
  <2>1. /\ pc = "sweep" /\ pc' = "backoff" /\ timer' = Backoff
        /\ ran' = [ran EXCEPT ![cur] = 0]
        /\ UNCHANGED <<cur, stopping, proc, age>>
    BY <1>10 DEF PluginBacksOff
  <2>2. cur \in 1..N
    BY <1>10, SupervisorAssumption DEF PluginBacksOff
  <2>3. cur # p
    BY <2>1
  <2>4. ran'[p] = ran[p]
    BY <2>1, <2>3 DEF IInv, TypeOK
  <2>5. CASE cur < p
    BY <2>1, <2>2, <2>4, <2>5 DEF Alive
  <2>6. CASE cur > p
    BY <2>1, <2>2, <2>4, <2>6 DEF Alive
  <2> QED BY <2>3, <2>5, <2>6
<1>11. CASE StopWins
  <2>1. /\ pc = "backoff" /\ pc' = "sweep" /\ cur' = cur + 1 /\ timer = 0 /\ stopping
        /\ UNCHANGED <<timer, stopping, proc, age, ran>> /\ cur \in 1..N
    BY <1>11 DEF StopWins, child, history, IInv, Verdict
  <2>2. cur < p
    BY <2>1
  <2> QED BY <2>1, <2>2 DEF Alive
<1>12. CASE Respawn
  <2>1. /\ pc = "backoff" /\ pc' = "sweep" /\ cur' = cur + 1 /\ timer = 0 /\ cur \in 1..N
        /\ proc' = [proc EXCEPT ![cur] = "running"] /\ age' = [age EXCEPT ![cur] = 0]
        /\ ran' = [ran EXCEPT ![cur] = 0] /\ UNCHANGED <<timer, stopping>>
    BY <1>12 DEF Respawn, Spawn, IInv, Verdict
  <2>2. CASE p = cur
    <3>1. age'[p] = 0 /\ ran'[p] = 0
      BY <2>1, <2>2 DEF IInv, TypeOK
    <3> QED BY <2>1, <2>2, <3>1
  <2>3. CASE p # cur
    <3>1. age'[p] = age[p] /\ ran'[p] = ran[p] /\ proc'[p] = proc[p]
      BY <2>1, <2>3 DEF IInv, TypeOK
    <3>2. CASE cur < p
      BY <2>1, <3>1, <3>2 DEF Alive
    <3>3. CASE cur > p
      BY <2>1, <3>1, <3>3 DEF Alive
    <3> QED BY <2>3, <3>2, <3>3
  <2> QED BY <2>2, <2>3
<1>13. CASE RespawnFails
  <2>1. /\ pc = "backoff" /\ pc' = "sweep" /\ cur' = cur + 1 /\ timer = 0 /\ cur \in 1..N
        /\ age' = [age EXCEPT ![cur] = 0]
        /\ UNCHANGED <<timer, stopping, proc, ran>>
    BY <1>13 DEF RespawnFails, history, IInv, Verdict
  <2>2. CASE p = cur
    <3>1. age'[p] = 0 /\ ran'[p] \in Nat
      BY <2>1, <2>2 DEF IInv, TypeOK
    <3> QED BY <2>1, <2>2, <3>1
  <2>3. CASE p # cur
    <3>1. age'[p] = age[p]
      BY <2>1, <2>3 DEF IInv, TypeOK
    <3>2. CASE cur < p
      BY <2>1, <3>1, <3>2 DEF Alive
    <3>3. CASE cur > p
      BY <2>1, <3>1, <3>3 DEF Alive
    <3> QED BY <2>3, <3>2, <3>3
  <2> QED BY <2>2, <2>3
<1>14. CASE Interrupt
  BY <1>14, SupervisorAssumption DEF Interrupt, IInv, TypeOK, Services, Verdict, Phases, AfterWait, Current, Alive, super, child, history
<1>15. CASE ChildEnded
  BY <1>15, SupervisorAssumption DEF ChildEnded, IInv, TypeOK, Services, Verdict, Phases, AfterWait, Current, Alive, super, child, history
<1>16. CASE Kill
  BY <1>16, SupervisorAssumption DEF Kill, IInv, TypeOK, Services, Verdict, Phases, AfterWait, Current, Alive, super, child, history
<1>17. CASE Tick
  <2>1. /\ UNCHANGED <<pc, cur, stopping, proc>>
        /\ timer' = IF timer > 0 THEN timer - 1 ELSE 0
    BY <1>17 DEF Tick
  <2>2. pc \in {"stagger", "nap", "backoff"} /\ timer > 0
    BY <1>17, <2>1 DEF Tick, Asleep
  <2>3. age'[p] = Up(age[p], RestartReset)
    BY <1>17, <2>2 DEF Tick
  <2>4. ran'[p] = IF Alive(p) THEN Up(ran[p], RestartReset) ELSE ran[p]
    BY <1>17, <2>2 DEF Tick
  <2>5. RestartReset \in Nat /\ ran[p] <= RestartReset /\ age[p] <= RestartReset
    BY SupervisorAssumption DEF IInv, TypeOK
  <2>6. Due(p) /\ proc[p] \in {"running", "dead"}
    BY <2>1
  <2>7. age'[p] <= age[p] + 1 /\ age'[p] <= RestartReset /\ age'[p] \in Nat
    BY <2>3, <2>5 DEF Up
  <2>10. pc = "backoff" => /\ cur # p /\ Elapsed(p)' = Elapsed(p) + 1 /\ Elapsed(p) \in Nat
                           /\ timer <= Backoff /\ timer' = timer - 1
    <3> SUFFICES ASSUME pc = "backoff"
                 PROVE  /\ cur # p /\ Elapsed(p)' = Elapsed(p) + 1 /\ Elapsed(p) \in Nat
                        /\ timer <= Backoff /\ timer' = timer - 1
      OBVIOUS
    <3>1. timer <= Backoff /\ timer' = timer - 1 /\ pc' = "backoff" /\ cur' = cur /\ cur \in 1..N
      BY <2>1, <2>2 DEF Phases, IInv, Verdict
    <3>2. CASE cur < p
      BY <3>1, <3>2
    <3>3. CASE cur = p
      BY <2>1, <3>1, <3>3
    <3>4. CASE cur > p
      <4>1. cur - p - 1 = cur - 1 - p
        OBVIOUS
      <4> QED BY <3>1, <3>4, <4>1
    <3> QED BY <3>2, <3>3, <3>4
  <2>8. CASE Alive(p)
    <3>1. ran'[p] = Up(ran[p], RestartReset)
      BY <2>4, <2>8
    <3>2. age'[p] <= ran'[p] /\ ran'[p] \in Nat
      BY <2>3, <2>5, <2>6, <2>8, <3>1 DEF Up
    <3>3. Elapsed(p)' >= 0
      <4>1. CASE pc = "backoff"
        BY <4>1, <2>1, <2>2, <2>10
      <4>2. CASE pc = "nap"
        BY <4>2, <2>1, <2>2 DEF Phases
      <4>3. CASE pc = "stagger"
        BY <4>3, <2>1
      <4>4. pc \in {"stagger", "nap", "backoff"}
        BY <2>2
      <4> HIDE DEF Elapsed, Due, Ending, Goal
      <4> HIDE <1>a, <1>b, <1>c
      <4> QED BY <4>1, <4>2, <4>3, <4>4
    <3>4. Elapsed(p)' \in Int
      <4>1. CASE pc = "backoff"
        BY <4>1, <2>1, <2>2, <2>10
      <4>2. CASE pc = "nap"
        BY <4>2, <2>1, <2>2
      <4>3. CASE pc = "stagger"
        BY <4>3, <2>1
      <4>4. pc \in {"stagger", "nap", "backoff"}
        BY <2>2
      <4> HIDE DEF Elapsed, Due, Ending, Goal
      <4> HIDE <1>a, <1>b, <1>c
      <4> QED BY <4>1, <4>2, <4>3, <4>4
    <3> HIDE <1>a, <1>c DEF Elapsed, Due, Ending
    <3> QED BY <2>7, <3>2, <3>3, <3>4
  <2>9. CASE ~Alive(p)
    <3>1. ran'[p] = ran[p]
      BY <2>4, <2>9
    <3>2. CASE pc = "backoff"
      BY <2>1, <2>2, <2>6, <2>7, <2>9, <2>10, <3>1, <3>2 DEF Alive
    <3>3. CASE pc = "nap"
      BY <2>1, <2>2, <2>6, <2>7, <2>9, <3>1, <3>3 DEF Alive
    <3>4. CASE pc = "stagger"
      BY <2>1, <2>2, <2>6, <3>4, <2>9 DEF Alive, Phases
    <3> QED BY <2>2, <3>2, <3>3, <3>4
  <2> QED BY <2>8, <2>9
<1>18. CASE Signal
  BY <1>18, SupervisorAssumption DEF Signal, IInv, TypeOK, Services, Verdict, Phases, AfterWait, Current, Alive, super, child, history
<1>19. ASSUME NEW s \in Services, Exit(s) PROVE Goal
  BY <1>19 DEF Exit, super, history, Alive, IInv, TypeOK
<1>20. CASE UNCHANGED vars
  BY <1>20 DEF vars, super, child, history, Alive
<1> HIDE DEF Goal, Due, Elapsed
<1> QED
  BY <1>1, <1>2, <1>3, <1>4, <1>5, <1>6, <1>7, <1>8, <1>9, <1>10, <1>11, <1>12, <1>13,
      <1>14, <1>15, <1>16, <1>17, <1>18, <1>19, <1>20 DEF Next, Step, Ended
(* Respawns since a plugin last stayed up are counted, or it was dropped.  *)
LEMMA CountsStep == IInv /\ Phases /\ Late /\ Counts /\ [Next]_vars => Counts'
<1> SUFFICES ASSUME IInv, Phases, Late, Counts, [Next]_vars PROVE Counts'
  OBVIOUS
<1> USE SupervisorAssumption, SweepSums DEF IInv, TypeOK, Services, Core, Verdict, Ending,
      Phases, Counts, Waits, Spawn, Counted, Lasted, AfterWait, Current, Up, Asleep, Alive,
      Gone, super, child, history, vars
<1>1. CASE SpawnNext
  <2>1. /\ rapid' = rapid /\ restarts' = restarts /\ cur \in 0..N /\ pc = "spawn"
        /\ proc' = [proc EXCEPT ![cur] = "running"]
    BY <1>1 DEF SpawnNext
  <2>2. \A s \in Services : s # cur => proc'[s] = proc[s]
    BY <2>1
  <2>3. \A s \in Services : restarts[s] \in Nat /\ rapid[s] <= RestartMax
                            /\ (proc[s] # "none" => rapid[s] <= restarts[s])
    <3>1. \A s \in Services : restarts[s] \in Nat
      <4>1. RestartMax \in Nat
        BY SupervisorAssumption
      <4>2. restarts \in [Services -> 0..RestartMax]
        OBVIOUS
      <4> HIDE SupervisorAssumption, SweepSums
          DEF IInv, TypeOK, Phases, Verdict, Waits, Ending, Counts, Services
      <4> QED BY <4>1, <4>2
    <3>2. pc \notin Ending
      BY <2>1
    <3> HIDE SupervisorAssumption, SweepSums DEF IInv, TypeOK, Phases, Verdict, Waits, Ending
    <3> QED BY <3>1, <3>2
  <2>4. cur # Core => rapid[cur] = 0
    BY <2>1
  <2>5. cur = Core => rapid[cur] = 0
    BY <2>1
  <2> HIDE DEF IInv, TypeOK, Phases, Verdict, Waits, Ending
  <2> QED BY <2>1, <2>2, <2>3, <2>4, <2>5
<1>2. CASE SpawnFails
  BY <1>2 DEF SpawnFails
<1>3. CASE Supervise
  BY <1>3 DEF Supervise
<1>4. CASE Wake
  BY <1>4 DEF Wake
<1>5. CASE LoopTop
  BY <1>5 DEF LoopTop
<1>6. CASE NothingToDo
  BY <1>6 DEF NothingToDo
<1>7. CASE SweepEnds
  BY <1>7 DEF SweepEnds
<1>8. CASE CoreExited
  BY <1>8 DEF CoreExited
<1>9. CASE PluginDropped
  BY <1>9 DEF PluginDropped
<1>10. CASE PluginBacksOff
  <2>1. /\ pc = "sweep" /\ cur \in Restartable /\ proc[cur] = "dead" /\ Counted(cur) < RestartMax
        /\ restarts' = [restarts EXCEPT ![cur] = Counted(cur) + 1]
        /\ rapid' = [rapid EXCEPT ![cur] = IF Lasted(cur) THEN 1 ELSE rapid[cur] + 1]
        /\ pc' = "backoff" /\ proc' = proc
    BY <1>10 DEF PluginBacksOff
  <2>2. cur \in 1..N /\ cur \in Services
    BY <2>1
  <2>3. restarts'[cur] = Counted(cur) + 1 /\ rapid'[cur] = IF Lasted(cur) THEN 1 ELSE rapid[cur] + 1
    BY <2>1, <2>2
  <2>4. \A s \in Services : s # cur => restarts'[s] = restarts[s] /\ rapid'[s] = rapid[s]
    BY <2>1
  <2>5. rapid[cur] <= restarts[cur] /\ restarts[cur] \in Nat /\ rapid[cur] \in Nat /\ age[cur] \in Nat
        /\ ran[cur] \in Nat
    BY <2>1, <2>2
  <2>6. age[cur] <= ran[cur] + Elapsed(cur)
    BY <2>1, <2>2 DEF Late, Due
  <2>7. Elapsed(cur) = Sweeps(N - cur) + Nap + Sweeps(cur - 1)
    BY <2>1, <2>2 DEF Elapsed
  <2>8. Elapsed(cur) <= N * Backoff + Nap /\ Elapsed(cur) \in Nat /\ N * Backoff \in Nat
    <3>1. Sweeps(N) = N * Backoff
      BY DEF Sweeps
    <3>2. Sweeps(N) \in Nat /\ Sweeps(N - cur) \in Nat /\ Sweeps(cur - 1) \in Nat
      BY <2>2
    <3>3. Sweeps(N - cur) + Sweeps(cur - 1) <= Sweeps(N)
      BY <2>2
    <3>4. Nap \in Nat
      BY SupervisorAssumption
    <3>5. Elapsed(cur) <= Sweeps(N) + Nap /\ Elapsed(cur) \in Nat
      <4> HIDE SupervisorAssumption, SweepSums DEF IInv, TypeOK, Phases, Verdict, Waits, Counts
      <4> QED BY <2>7, <3>2, <3>3, <3>4
    <3> QED BY Zenon, <3>1, <3>2, <3>5
  <2>9. age[cur] >= RestartReset => Lasted(cur)
    <3> HIDE SupervisorAssumption
    <3>1. RestartReset \in Nat
      BY SupervisorAssumption
    <3> DEFINE S == N * Backoff
    <3>2. S \in Nat /\ Elapsed(cur) <= S + Nap /\ Elapsed(cur) \in Nat /\ Nap \in Nat
      BY <2>8, SupervisorAssumption
    <3>3. Lasted(cur) <=> ran[cur] + S + Nap >= RestartReset
      BY DEF Lasted
    <3> HIDE DEF S, Lasted
    <3> QED BY <2>5, <2>6, <3>1, <3>2, <3>3
  <2>10. rapid'[cur] <= restarts'[cur] /\ restarts'[cur] <= RestartMax /\ restarts'[cur] \in Nat
    <3>1. RestartMax \in Nat
      BY SupervisorAssumption
    <3>2. Counted(cur) = IF age[cur] >= RestartReset THEN 0 ELSE restarts[cur]
      BY DEF Counted
    <3> HIDE SupervisorAssumption, SweepSums
        DEF Lasted, Counted, IInv, TypeOK, Phases, Verdict, Waits, Counts
    <3>3. CASE Lasted(cur)
      BY <2>1, <2>3, <2>5, <3>1, <3>2, <3>3
    <3>4. CASE ~Lasted(cur)
      BY <2>1, <2>3, <2>5, <2>9, <3>1, <3>2, <3>4
    <3> QED BY <3>3, <3>4
  <2>11. \A s \in Services : rapid'[s] <= RestartMax /\ (proc'[s] # "none" => rapid'[s] <= restarts'[s])
    <3> SUFFICES ASSUME NEW s \in Services
                 PROVE  rapid'[s] <= RestartMax /\ (proc'[s] # "none" => rapid'[s] <= restarts'[s])
      OBVIOUS
    <3>1. CASE s = cur
      <4>1. RestartMax \in Nat
        BY SupervisorAssumption
      <4>2. rapid'[cur] \in Nat
        <5> HIDE SupervisorAssumption, SweepSums DEF IInv, TypeOK, Phases, Verdict, Waits, Counts, Lasted, Counted
        <5> QED BY <2>3, <2>5
      <4> HIDE SupervisorAssumption, SweepSums DEF IInv, TypeOK, Phases, Verdict, Waits, Counts, Lasted, Counted
      <4> QED BY <3>1, <2>10, <4>1, <4>2
    <3>2. CASE s # cur
      BY <3>2, <2>4, <2>1
    <3> QED BY <3>1, <3>2
  <2> QED BY <2>11, <2>1
<1>11. CASE StopWins
  BY <1>11 DEF StopWins
<1>12. CASE Respawn
  BY <1>12 DEF Respawn
<1>13. CASE RespawnFails
  BY <1>13 DEF RespawnFails
<1>14. CASE Interrupt
  BY <1>14 DEF Interrupt
<1>15. CASE ChildEnded
  BY <1>15 DEF ChildEnded
<1>16. CASE Kill
  BY <1>16 DEF Kill
<1>17. CASE Tick
  BY <1>17 DEF Tick
<1>18. CASE Signal
  BY <1>18 DEF Signal
<1>19. ASSUME NEW s \in Services, Exit(s) PROVE Counts'
  BY <1>19 DEF Exit
<1>20. CASE UNCHANGED vars
  BY <1>20
<1> HIDE DEF Counts
<1> QED
  BY <1>1, <1>2, <1>3, <1>4, <1>5, <1>6, <1>7, <1>8, <1>9, <1>10, <1>11, <1>12, <1>13,
      <1>14, <1>15, <1>16, <1>17, <1>18, <1>19, <1>20 DEF Next, Step, Ended


LEMMA Invariance == Spec => []IInv
<1>1. IInv /\ [Next]_vars => IInv'
  BY TypeStep, VerdictStep, WaitsStep DEF IInv
<1> QED BY InitIInv, <1>1, PTL DEF Spec

LEMMA Respawns == Spec => [](Phases /\ Late /\ Counts)
<1>1. Init => Phases /\ Late /\ Counts
  BY SupervisorAssumption DEF Init, Phases, Late, Counts, Services, Core, Ending, Alive
<1>2. IInv /\ (Phases /\ Late /\ Counts) /\ [Next]_vars => (Phases /\ Late /\ Counts)'
  BY PhasesStep, LateStep, CountsStep
<1> QED BY <1>1, <1>2, Invariance, PTL DEF Spec

(* How long the supervisor still sleeps before it sees a stop: the sleep   *)
(* it is in, a backoff for every plugin the sweep still comes to, the nap. *)
ToCome(c) == Cardinality({s \in Restartable : s >= c})

SleepLeft ==
  IF pc \in {"stagger", "nap"} THEN timer
  ELSE IF pc = "sweep" THEN Sweeps(ToCome(cur)) + Nap
  ELSE IF pc = "backoff" THEN timer + Sweeps(ToCome(cur + 1)) + Nap
  ELSE 0

OnTime ==
  /\ asked => stopping
  /\ ~asked => sinceAsk = 0
  /\ pc = "stagger" => timer <= Stagger
  /\ pc = "backoff" => cur \in Restartable
  /\ asked /\ pc \notin {"wait", "done"} => sinceAsk + SleepLeft <= LongestSleep
  /\ asked /\ pc \in {"wait", "done"} => sinceAsk <= LongestSleep + waited

(* A sweep comes to no more plugins than there are, and to one fewer with  *)
(* each that it has seen to.                                               *)
LEMMA ComesTo ==
  /\ \A c \in Nat : ToCome(c) \in Nat /\ ToCome(c) <= Cardinality(Restartable)
  /\ \A c \in Nat : ToCome(c + 1) <= ToCome(c)
  /\ \A c \in Restartable : ToCome(c) = ToCome(c + 1) + 1
  /\ Cardinality(Restartable) \in Nat
<1> DEFINE From(c) == {s \in Restartable : s >= c}
<1>1. IsFiniteSet(Restartable) /\ Restartable \subseteq Nat
  <2>1. IsFiniteSet(1..N)
    BY FS_Interval, SupervisorAssumption
  <2>2. Restartable \subseteq 1..N /\ N \in Nat
    BY SupervisorAssumption
  <2>3. IsFiniteSet(Restartable)
    BY <2>1, <2>2, FS_Subset
  <2>4. \A s \in Restartable : s \in Nat
    BY <2>2
  <2> QED BY <2>3, <2>4
<1>2. ASSUME NEW c \in Nat
      PROVE  /\ IsFiniteSet(From(c)) /\ From(c + 1) \subseteq From(c)
             /\ Cardinality(From(c)) \in Nat
             /\ Cardinality(From(c)) <= Cardinality(Restartable)
  <2>1. From(c) \subseteq Restartable
    OBVIOUS
  <2>2. IsFiniteSet(From(c)) /\ Cardinality(From(c)) <= Cardinality(Restartable)
    BY <1>1, <2>1, FS_Subset
  <2>3. Cardinality(From(c)) \in Nat
    BY <2>2, FS_CardinalityType
  <2>4. \A s \in Restartable : s >= c + 1 => s >= c
    BY <1>1
  <2>5. From(c + 1) \subseteq From(c)
    BY <2>4
  <2> QED BY <2>2, <2>3, <2>5
<1>3. ASSUME NEW c \in Nat PROVE Cardinality(From(c + 1)) <= Cardinality(From(c))
  BY <1>2, FS_Subset
<1>4. ASSUME NEW c \in Restartable PROVE Cardinality(From(c)) = Cardinality(From(c + 1)) + 1
  <2>0. c \in Nat /\ c >= c /\ \A s \in Restartable : s >= c + 1 <=> s >= c /\ s # c
    BY <1>1
  <2>1. c \in Nat /\ c \in From(c) /\ From(c + 1) = From(c) \ {c}
    BY <2>0
  <2>2. IsFiniteSet(From(c)) /\ Cardinality(From(c)) \in Nat
    BY <2>1, <1>2
  <2>3. Cardinality(From(c) \ {c}) = Cardinality(From(c)) - 1
    BY <2>1, <2>2, FS_RemoveElement
  <2>4. Cardinality(From(c + 1)) = Cardinality(From(c)) - 1
    BY <2>1, <2>3
  <2> QED BY <2>2, <2>4
<1>5. Cardinality(Restartable) \in Nat
  BY <1>1, FS_CardinalityType
<1> QED BY <1>2, <1>3, <1>4, <1>5 DEF ToCome

(* More backoffs take longer.                                              *)
LEMMA SweepsGrow ==
  ASSUME NEW m \in Nat, NEW n \in Nat, m <= n
  PROVE  Sweeps(m) <= Sweeps(n) /\ Sweeps(m) \in Nat /\ Sweeps(n) \in Nat
<1>1. Backoff \in Nat /\ n - m \in Nat
  BY SupervisorAssumption
<1>2. (n - m) * Backoff \in Nat /\ n * Backoff = m * Backoff + (n - m) * Backoff
      /\ m * Backoff \in Nat
  BY <1>1
<1> QED BY <1>2 DEF Sweeps

(* What is slept is never more than the longest sleep.                     *)
LEMMA Longest ==
  /\ LongestSleep \in Nat /\ Stagger <= LongestSleep
  /\ \A c \in Nat : Sweeps(ToCome(c)) \in Nat /\ Sweeps(ToCome(c)) + Nap <= LongestSleep
  /\ \A c \in Nat : Sweeps(ToCome(c + 1)) <= Sweeps(ToCome(c))
  /\ \A c \in Restartable : Sweeps(ToCome(c)) = Sweeps(ToCome(c + 1)) + Backoff
<1>1. LongestSleep = IF Stagger > Sweeps(Cardinality(Restartable)) + Nap THEN Stagger
                     ELSE Sweeps(Cardinality(Restartable)) + Nap
  BY DEF LongestSleep, Sweeps
<1>2. Stagger \in Nat /\ Nap \in Nat /\ Restartable \subseteq Nat
  BY SupervisorAssumption
<1>3. Sweeps(Cardinality(Restartable)) \in Nat
  BY ComesTo, SweepSums
<1>4. ASSUME NEW c \in Nat
      PROVE  /\ Sweeps(ToCome(c)) \in Nat
             /\ Sweeps(ToCome(c)) <= Sweeps(Cardinality(Restartable))
             /\ Sweeps(ToCome(c + 1)) <= Sweeps(ToCome(c))
  <2>1. ToCome(c) \in Nat /\ ToCome(c + 1) \in Nat /\ ToCome(c + 1) <= ToCome(c)
    BY ComesTo
  <2> QED BY <2>1, ComesTo, SweepsGrow
<1>5. ASSUME NEW c \in Restartable
      PROVE  Sweeps(ToCome(c)) = Sweeps(ToCome(c + 1)) + Backoff
  BY ComesTo, SweepSums, <1>2
<1> QED BY <1>1, <1>2, <1>3, <1>4, <1>5

(* A step takes from what is left to sleep what it adds to the time since. *)
LEMMA OnTimeStep == IInv /\ Phases /\ OnTime /\ [Next]_vars => OnTime'
<1> SUFFICES ASSUME IInv, Phases, OnTime, [Next]_vars PROVE OnTime'
  OBVIOUS
<1>a. /\ cur \in Nat /\ timer \in Nat /\ waited \in Nat /\ sinceAsk \in Nat
      /\ Backoff \in Nat /\ Nap \in Nat /\ Stagger \in Nat
  BY SupervisorAssumption DEF IInv, TypeOK
<1>b. /\ LongestSleep \in Nat /\ Stagger <= LongestSleep
      /\ Sweeps(ToCome(cur)) \in Nat /\ Sweeps(ToCome(cur)) + Nap <= LongestSleep
      /\ Sweeps(ToCome(cur + 1)) \in Nat
      /\ Sweeps(ToCome(cur + 1)) <= Sweeps(ToCome(cur))
      /\ cur \in Restartable => Sweeps(ToCome(cur)) = Sweeps(ToCome(cur + 1)) + Backoff
      /\ Sweeps(ToCome(Core)) \in Nat /\ Sweeps(ToCome(Core)) + Nap <= LongestSleep
  <2>1. cur + 1 \in Nat /\ Core \in Nat
    BY <1>a DEF Core
  <2> QED BY <1>a, <2>1, Longest
<1>c. /\ asked => stopping
      /\ ~asked => sinceAsk = 0
      /\ pc = "stagger" => timer <= Stagger
      /\ pc = "backoff" => cur \in Restartable /\ timer <= Backoff
      /\ pc = "nap" => timer <= Nap
      /\ asked /\ pc \notin {"wait", "done"} => sinceAsk + SleepLeft <= LongestSleep
      /\ asked /\ pc \in {"wait", "done"} => sinceAsk <= LongestSleep + waited
  BY DEF OnTime, Phases
<1> HIDE DEF Sweeps, ToCome, LongestSleep
<1> USE DEF SleepLeft, Up, Asleep, AfterWait, Spawn, history, child
<1>1. CASE SpawnNext
  BY <1>1, <1>a, <1>b, <1>c DEF SpawnNext, OnTime
<1>2. CASE SpawnFails
  BY <1>2, <1>a, <1>b, <1>c DEF SpawnFails, OnTime
<1>3. CASE Supervise
  BY <1>3, <1>a, <1>b, <1>c DEF Supervise, OnTime
<1>4. CASE Wake
  BY <1>4, <1>a, <1>b, <1>c DEF Wake, OnTime
<1>5. CASE LoopTop
  BY <1>5, <1>a, <1>b, <1>c DEF LoopTop, OnTime
<1>6. CASE NothingToDo
  BY <1>6, <1>a, <1>b, <1>c DEF NothingToDo, OnTime
<1>7. CASE SweepEnds
  BY <1>7, <1>a, <1>b, <1>c DEF SweepEnds, OnTime
<1>8. CASE CoreExited
  BY <1>8, <1>a, <1>b, <1>c DEF CoreExited, OnTime
<1>9. CASE PluginDropped
  BY <1>9, <1>a, <1>b, <1>c DEF PluginDropped, OnTime
<1>10. CASE PluginBacksOff
  BY <1>10, <1>a, <1>b, <1>c DEF PluginBacksOff, OnTime
<1>11. CASE StopWins
  BY <1>11, <1>a, <1>b, <1>c DEF StopWins, OnTime
<1>12. CASE Respawn
  BY <1>12, <1>a, <1>b, <1>c DEF Respawn, OnTime
<1>13. CASE RespawnFails
  BY <1>13, <1>a, <1>b, <1>c DEF RespawnFails, OnTime
<1>14. CASE Interrupt
  BY <1>14, <1>a, <1>b, <1>c DEF Interrupt, OnTime
<1>15. CASE ChildEnded
  BY <1>15, <1>a, <1>b, <1>c DEF ChildEnded, OnTime
<1>16. CASE Kill
  BY <1>16, <1>a, <1>b, <1>c DEF Kill, OnTime
<1>17. CASE Tick
  BY <1>17, <1>a, <1>b, <1>c DEF Tick, OnTime
<1>18. CASE Signal
  BY <1>18, <1>a, <1>b, <1>c DEF Signal, OnTime
<1>19. ASSUME NEW s \in Services, Exit(s) PROVE OnTime'
  BY <1>19, <1>a, <1>b, <1>c DEF Exit, OnTime, super
<1>20. CASE UNCHANGED vars
  BY <1>20, <1>a, <1>b, <1>c DEF OnTime, super, vars
<1> QED
  BY <1>1, <1>2, <1>3, <1>4, <1>5, <1>6, <1>7, <1>8, <1>9, <1>10, <1>11, <1>12, <1>13, <1>14, <1>15, <1>16, <1>17, <1>18, <1>19, <1>20 DEF Next, Step, Ended

-----------------------------------------------------------------------------
(* The theorems.                                                           *)

(* Every variable keeps its type: no sleep is longer than the clock's      *)
(* bound, no restart counter passes the limit.                             *)
THEOREM TypeCorrect == Spec => []TypeOK
<1>1. IInv => TypeOK
  BY DEF IInv
<1> QED BY <1>1, Invariance, PTL

(* The exit status tells how the sensor ended, no child outlives the       *)
(* supervisor, and none is killed before its grace is over                 *)
(* (supervisor.py:125-248).                                                *)
THEOREM EndIsHonest == Spec => []EndsAreHonest
<1>1. IInv => EndsAreHonest
  BY DEF IInv, TypeOK, Verdict, Waits, Ending, EndsAreHonest, ExitIsHonest, NobodyLeftBehind
<1> QED BY <1>1, Invariance, PTL

(* Between two runs that lasted there are at most RestartMax respawns of a *)
(* plugin, for any number of plugins and whatever the times                *)
(* (supervisor.py:167-218).                                                *)
THEOREM CrashLoopsEnd == Spec => []RapidRestartsEnd
<1>1. Counts => RapidRestartsEnd
  BY DEF Counts, RapidRestartsEnd
<1> QED BY <1>1, Respawns, PTL

(* A stop takes at most the longest sleep and the core's grace, however    *)
(* many plugins there are and whenever it comes (supervisor.py:125-248).   *)
THEOREM StopsInTime == Spec => []StopInTime
<1>1. Init => OnTime
  <2>1. LongestSleep \in Nat
    BY Longest
  <2> QED BY <2>1 DEF Init, OnTime, SleepLeft
<1>2. IInv /\ Phases /\ OnTime /\ [Next]_vars => OnTime'
  BY OnTimeStep
<1>3. IInv /\ OnTime => StopInTime
  <2> SUFFICES ASSUME IInv, OnTime, pc = "done" PROVE sinceAsk <= LongestSleep + CoreGrace
    BY DEF StopInTime
  <2>1. LongestSleep \in Nat /\ CoreGrace \in Nat
    BY Longest, SupervisorAssumption
  <2>2. waited \in Nat /\ waited <= CoreGrace /\ sinceAsk \in Nat
    BY <2>1 DEF IInv, TypeOK
  <2>3. sinceAsk = 0 \/ sinceAsk <= LongestSleep + waited
    BY DEF OnTime
  <2> QED BY <2>1, <2>2, <2>3
<1>4. Spec => []Phases
  BY Respawns, PTL
<1> QED BY <1>1, <1>2, <1>3, <1>4, Invariance, PTL DEF Spec
=============================================================================
