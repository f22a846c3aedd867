------------------------- MODULE RunLifecycleProofs -------------------------
(***************************************************************************)
(* That the runs of a host are one at a time, and what each of them does:  *)
(* the invariants of RunLock for any set of processes that take the lock   *)
(* any number of times and may be killed anywhere, then those of           *)
(* RunLifecycle and TrafficRun for any settings, delays, intervals and     *)
(* numbers of runs, measurements and retries.                              *)
(***************************************************************************)
EXTENDS RunLifecycle, RunLock, TLAPS

-----------------------------------------------------------------------------
(* The run lock. *)

(* What each process has open and locked follows from where it stands. *)
FilesMatchPc ==
  \A p \in Procs :
    /\ at[p] \in {"flock", "critical", "close"} <=> fd[p] # NoFile
    /\ at[p] = "critical" => locked[p] = fd[p]
    /\ at[p] # "critical" => locked[p] = NoFile

(* The kernel's side of flock: one exclusive holder of an inode. *)
OneHolderPerFile ==
  \A p, q \in Procs : locked[p] # NoFile /\ locked[p] = locked[q] => p = q

(* Until a race, every open descriptor is of the file the path names. *)
OpenFilesAreLinked ==
  ~raced => \A p \in Procs : fd[p] # NoFile => fd[p] = link

LockInv == LockTypeOK /\ FilesMatchPc /\ OneHolderPerFile /\ OpenFilesAreLinked

(* LockInv is inductive: it holds in the beginning and every step keeps it.    *)
LEMMA LockInvInductive == LockSpec => []LockInv
<1>1. LockInit => LockInv
  <2> SUFFICES ASSUME LockInit PROVE LockInv
    OBVIOUS
  <2>1. 0 \in 0..MaxAttempts /\ 0 \in 0..0
    BY RunLockAssumption
  <2>2. LockTypeOK
    BY <2>1 DEF LockInit, LockTypeOK, NoFile, Places
  <2> QED
    BY <2>2 DEF LockInit, LockInv, FilesMatchPc, OneHolderPerFile, OpenFilesAreLinked
<1>2. LockInv /\ [LockNext]_lockVars => LockInv'
  <2> SUFFICES ASSUME LockInv, [LockNext]_lockVars PROVE LockInv'
    OBVIOUS
  <2> USE RunLockAssumption
      DEF LockInv, LockTypeOK, FilesMatchPc, OneHolderPerFile, OpenFilesAreLinked,
          NoFile, Places, MoveTo
  <2>1. ASSUME NEW p \in Procs, Open(p) PROVE LockInv'
    <3>1. CASE link = NoFile
      BY <2>1, <3>1 DEF Open
    <3>2. CASE link # NoFile
      BY <2>1, <3>2 DEF Open
    <3> QED
      BY <3>1, <3>2
  <2>2. ASSUME NEW p \in Procs, Flock(p) PROVE LockInv'
    BY <2>2 DEF Flock
  <2>3. ASSUME NEW p \in Procs, FlockRefused(p) PROVE LockInv'
    BY <2>3 DEF FlockRefused
  <2>4. ASSUME NEW p \in Procs, Unlock(p) PROVE LockInv'
    BY <2>4 DEF Unlock
  <2>5. ASSUME NEW p \in Procs, Close(p) PROVE LockInv'
    BY <2>5 DEF Close
  <2>6. ASSUME NEW p \in Procs, Unlink(p) PROVE LockInv'
    <3>1. LockTypeOK' /\ FilesMatchPc' /\ OneHolderPerFile'
      BY <2>6 DEF Unlink
    <3>2. OpenFilesAreLinked'
      <4> SUFFICES ASSUME ~raced', NEW q \in Procs, fd'[q] # NoFile
                   PROVE  FALSE
        BY DEF OpenFilesAreLinked
      <4>1. fd[q] # NoFile /\ ~raced /\ fd[q] # link
        BY <2>6 DEF Unlink
      <4> QED
        BY <4>1
    <3> QED
      BY <3>1, <3>2
  <2>7. ASSUME NEW p \in Procs, Crash(p) PROVE LockInv'
    BY <2>7 DEF Crash
  <2>8. CASE UNCHANGED lockVars
    BY <2>8 DEF lockVars
  <2> QED
    BY <2>1, <2>2, <2>3, <2>4, <2>5, <2>6, <2>7, <2>8 DEF LockNext, LockStep
<1> QED
  BY <1>1, <1>2, PTL DEF LockSpec

(* The state of the lock is what utils.py:183-212 can make of it: at most  *)
(* one inode is linked, and descriptors are of inodes that exist.          *)
THEOREM LockTyping == LockSpec => []LockTypeOK
<1>1. LockInv => LockTypeOK
  BY DEF LockInv
<1> QED
  BY <1>1, LockInvInductive, PTL

(* Whenever two nfvbench runs overlap, some process has unlinked a lock    *)
(* file that another one had already opened (utils.py:204-210).            *)
THEOREM OverlapOnlyAfterRace == LockSpec => []OverlapNeedsUnlinkRace
<1>1. LockInv => OverlapNeedsUnlinkRace
  BY DEF LockInv, FilesMatchPc, OneHolderPerFile, OpenFilesAreLinked,
     OverlapNeedsUnlinkRace, MutualExclusion
<1> QED
  BY <1>1, LockInvInductive, PTL

(* A process that is not inside RunLock holds no lock, killed or not, so a *)
(* left-over file never blocks a run (utils.py:199, 204).                  *)
THEOREM NoLockOutlivesItsRun == LockSpec => []NoStaleLock
<1>1. LockInv => NoStaleLock
  BY DEF LockInv, FilesMatchPc, NoStaleLock
<1> QED
  BY <1>1, LockInvInductive, PTL

-----------------------------------------------------------------------------
(* The runs. *)

USE TrafficRunAssumption, RunLifecycleAssumption

(* What passing time does to the generator. *)
LEMMA PassFacts ==
  ASSUME NEW h \in Trex, NEW d \in Nat
  PROVE  /\ Pass(h, d) \in Trex
         /\ Pass(h, d).tx - Pass(h, d).own = h.tx - h.own
         /\ Pass(h, d).foreign = h.foreign
         /\ h.left = 0 => Pass(h, d).left = 0 /\ Pass(h, d).tx = h.tx
<1> DEFINE sent == h.pace * Least(h.left, d)
<1>1. Least(h.left, d) \in Nat /\ Least(h.left, d) <= h.left
  BY DEF Least, Trex
<1>2. sent \in Nat /\ (h.left = 0 => sent = 0)
  <2>1. CASE h.pace = 0
    BY <2>1, <1>1
  <2>2. CASE h.pace = 1
    BY <2>2, <1>1
  <2> QED
    BY <2>1, <2>2 DEF Trex
<1>3. Pass(h, d) = [left |-> h.left - Least(h.left, d), pace |-> h.pace,
                    tx |-> h.tx + sent, own |-> h.own + sent, foreign |-> h.foreign]
  <2>1. Pass(h, d) = [h EXCEPT !.left = h.left - Least(h.left, d),
                               !.tx = h.tx + sent, !.own = h.own + sent]
    BY Zenon DEF Pass
  <2> HIDE DEF sent
  <2> DEFINE less == Least(h.left, d)
  <2> HIDE DEF less
  <2>2. h = [left |-> h.left, pace |-> h.pace, tx |-> h.tx, own |-> h.own, foreign |-> h.foreign]
    BY DEF Trex
  <2> QED
    BY <2>1, <2>2
<1> HIDE DEF sent
<1>4. h.tx \in Nat /\ h.own \in Nat /\ h.left \in Nat /\ h.foreign \in Nat /\ h.pace \in {0, 1}
  BY DEF Trex
<1>5. Pass(h, d) \in Trex
  BY <1>1, <1>2, <1>3, <1>4 DEF Trex
<1> QED
  BY <1>1, <1>2, <1>3, <1>4, <1>5

(* What TRex is when it is stopped. *)
LEMMA StoppedFacts ==
  ASSUME NEW h \in Trex
  PROVE  /\ Stopped(h) \in Trex
         /\ Stopped(h).left = 0 /\ Stopped(h).tx = h.tx
         /\ Stopped(h).own = h.own /\ Stopped(h).foreign = h.foreign
BY DEF Stopped, Trex

(* What it is when it is started. *)
LEMMA StartedFacts ==
  ASSUME NEW h \in Trex, NEW pace \in {0, 1}
  PROVE  /\ Started(h, pace) \in Trex
         /\ Started(h, pace).tx = h.tx
         /\ Started(h, pace).own = 0 /\ Started(h, pace).foreign = h.tx
BY DEF Started, Trex

(* What it is when nothing transmits. *)
LEMMA SilentFacts ==
  /\ Silent \in Trex
  /\ Silent.left = 0 /\ Silent.tx = 0 /\ Silent.own = 0 /\ Silent.foreign = 0
BY DEF Silent, Trex

(* Delays are bounded. *)
LEMMA DelayFacts == \A d \in Delays : d \in Nat /\ d <= MaxDelay
BY DEF Delays

-----------------------------------------------------------------------------
(* Type correctness *)

(* The types at the start. *)
LEMMA InitType == Init => TypeOK
<1> SUFFICES ASSUME Init PROVE TypeOK
  OBVIOUS
<1>1. /\ pc = "idle" /\ run = 1 /\ interval = 0 /\ trex = Silent
      /\ elapsed = 0 /\ prevTx = 0 /\ stats = 0 /\ result = 0
      /\ tries = 0 /\ polls = 0 /\ runner = 0 /\ owner = 0 /\ open = {} /\ excused = {}
  BY DEF Init, NoSession
<1>2. want \in Settings /\ file \in Settings /\ server \in Settings \cup {Down}
  BY DEF Init
<1>3. /\ local \in BOOLEAN /\ mislaid \in BOOLEAN /\ single \in BOOLEAN /\ running \in BOOLEAN
      /\ late \in BOOLEAN /\ failed \in BOOLEAN /\ ending \in BOOLEAN
  BY DEF Init
<1>4. interval \in 0 .. Duration /\ trex \in Trex
  BY <1>1, SilentFacts
<1> QED
  BY <1>1, <1>2, <1>3, <1>4 DEF TypeOK

(* What a step of a measurement leaves well typed. *)
MeasureTyped ==
  /\ pc' \in {"run", "start", "poll", "stats", "yielded", "over", "measured",
              "stlError", "error", "sysExit"}
  /\ single' = single /\ interval' = interval
  /\ running' \in BOOLEAN /\ late' \in BOOLEAN /\ failed' \in BOOLEAN
  /\ elapsed' \in Nat /\ prevTx' \in Nat /\ stats' \in Nat /\ result' \in Nat
  /\ trex' \in Trex

(* Polling keeps the types of the measurement. *)
LEMMA PollTyped ==
  ASSUME TypeOK, NEW d \in Delays, PollStats(d)
  PROVE  MeasureTyped
<1>0. d \in Nat /\ Pass(trex, d) \in Trex /\ Stopped(Pass(trex, d)) \in Trex
  BY PassFacts, StoppedFacts, DelayFacts DEF TypeOK
<1>2. CASE pc' = "over"
  <2>1. \/ UNCHANGED <<running, elapsed, trex, late>>
        \/ /\ running' = FALSE /\ elapsed' = 0 /\ late' = TRUE
           /\ trex' = Stopped(Pass(trex, d))
    <3>1. ~ SleepAndMaybeStop(d)
      BY <1>2 DEF SleepAndMaybeStop
    <3> QED
      BY <3>1, Zenon DEF PollStats
  <2>2. running' \in BOOLEAN /\ late' \in BOOLEAN
    BY <2>1, Zenon DEF TypeOK
  <2>3. elapsed' \in Nat /\ trex' \in Trex
    BY <1>0, <2>1 DEF TypeOK
  <2>4. UNCHANGED <<single, interval, prevTx, stats, result, failed>>
    BY DEF PollStats
  <2> QED
    BY <1>2, <2>2, <2>3, <2>4 DEF MeasureTyped, TypeOK
<1>3. CASE pc' # "over"
  <2> DEFINE timeLeft == Duration - Elapsed(d)
             nap == IF interval = 0 THEN Duration ELSE Least(interval, timeLeft)
             last == interval = 0 \/ timeLeft <= interval
  <2>0. running /\ Elapsed(d) <= Duration /\ SleepAndMaybeStop(d)
    BY <1>3, Zenon DEF PollStats
  <2>1. Elapsed(d) \in Nat /\ timeLeft \in Nat
    BY <1>0, <2>0 DEF Elapsed, TypeOK
  <2>2. nap \in Nat
    BY <2>1 DEF Least, TypeOK
  <2>3. /\ pc' = "stats" /\ running' = ~last /\ late' = late
        /\ elapsed' = IF last THEN 0 ELSE Elapsed(d) + nap
        /\ trex' = IF last THEN Stopped(Pass(trex, d + nap)) ELSE Pass(trex, d + nap)
    BY <2>0, Zenon DEF SleepAndMaybeStop
  <2>4. UNCHANGED <<single, interval, prevTx, stats, result, failed>>
    BY DEF PollStats
  <2> HIDE DEF nap, last, timeLeft
  <2>5. d + nap \in Nat /\ Elapsed(d) + nap \in Nat
    BY <1>0, <2>1, <2>2
  <2>6. Pass(trex, d + nap) \in Trex /\ Stopped(Pass(trex, d + nap)) \in Trex
    BY <2>5, PassFacts, StoppedFacts DEF TypeOK
  <2>7. elapsed' \in Nat /\ trex' \in Trex
    <3>1. CASE last
      BY <2>3, <2>6, <3>1
    <3>2. CASE ~last
      BY <2>3, <2>5, <2>6, <3>2
    <3> QED
      BY <3>1, <3>2
  <2>8. running' \in BOOLEAN
    BY <2>3
  <2> QED
    BY <2>3, <2>4, <2>7, <2>8 DEF MeasureTyped, TypeOK
<1> QED
  BY <1>2, <1>3

(* So does reading the statistics. *)
LEMMA GetStatsTyped ==
  ASSUME TypeOK, NEW d \in Delays, GetStats(d)
  PROVE  MeasureTyped
<1> USE DEF TypeOK
<1>1. d \in Nat /\ Pass(trex, d) \in Trex /\ Pass(trex, d).tx \in Nat
  <2>1. d \in Nat /\ Pass(trex, d) \in Trex
    BY PassFacts, DelayFacts
  <2> QED
    BY <2>1 DEF Trex
<1> DEFINE g == Pass(trex, d)
<1>2. /\ trex' = g
      /\ elapsed' = IF running THEN Elapsed(d) ELSE 0
      /\ \/ pc' = "sysExit" /\ UNCHANGED <<prevTx, stats>>
         \/ pc' = "yielded" /\ prevTx' = g.tx /\ stats' = g.tx
      /\ UNCHANGED <<single, interval, running, result, late, failed>>
  BY DEF GetStats
<1> HIDE DEF g
<1>3. elapsed' \in Nat
  BY <1>1, <1>2 DEF Elapsed
<1>4. g \in Trex /\ g.tx \in Nat
  BY <1>1 DEF g
<1> QED
  BY <1>2, <1>3, <1>4 DEF MeasureTyped

(* So does the consumer's loop. *)
LEMMA ConsumeTyped ==
  ASSUME TypeOK, NEW d \in Delays, Consume(d)
  PROVE  MeasureTyped
<1> USE DEF TypeOK
<1>1. d \in Nat /\ Pass(trex, d) \in Trex /\ Stopped(Pass(trex, d)) \in Trex
  BY PassFacts, StoppedFacts, DelayFacts
<1>2. elapsed' \in Nat /\ running' \in BOOLEAN
  BY <1>1 DEF Consume, Elapsed
<1>3. trex' \in Trex
  BY <1>1 DEF Consume
<1> QED
  BY <1>2, <1>3 DEF Consume, MeasureTyped

(* So does every step of a measurement. *)
LEMMA MeasureType ==
  ASSUME TypeOK, Measurement \/ MeasurementOffline \/ CallFails
  PROVE  MeasureTyped
<1> USE DEF TypeOK
<1>0. /\ \A h \in Trex : h.tx \in Nat
      /\ 0 \in Delays
  BY DEF Trex, Delays
<1>1. CASE RunnerBusy
  BY <1>1 DEF RunnerBusy, MeasureTyped
<1>2. ASSUME NEW d \in Delays, ClearStats(d) PROVE MeasureTyped
  <2>1. Pass(trex, d) \in Trex
    BY PassFacts, DelayFacts
  <2>2. [Pass(trex, d) EXCEPT !.tx = 0, !.own = 0, !.foreign = 0] \in Trex
    BY <2>1 DEF Trex
  <2> QED
    BY <1>2, <2>2 DEF ClearStats, MeasureTyped
<1>3. ASSUME NEW d \in Delays, NEW e \in Delays, NEW pace \in {0, 1}, StartTraffic(d, e, pace)
      PROVE  MeasureTyped
  <2>1. Pass(trex, d) \in Trex
    BY PassFacts, DelayFacts
  <2>2. Started(Pass(trex, d), pace) \in Trex
    BY <2>1, StartedFacts
  <2>3. Pass(Started(Pass(trex, d), pace), e) \in Trex
    BY <2>2, PassFacts, DelayFacts
  <2> QED
    BY <1>3, <2>3 DEF StartTraffic, MeasureTyped
<1>4. ASSUME NEW d \in Delays, NEW pace \in {0, 1}, StartFailsHalfway(d, pace)
      PROVE  MeasureTyped
  <2>1. Pass(trex, d) \in Trex
    BY PassFacts, DelayFacts
  <2>2. Started(Pass(trex, d), pace) \in Trex
    BY <2>1, StartedFacts
  <2> QED
    BY <1>4, <2>2 DEF StartFailsHalfway, MeasureTyped
<1>5. CASE TakeResult
  BY <1>0, <1>5 DEF TakeResult, Final, MeasureTyped
<1>6. CASE CallFails
  BY <1>6 DEF CallFails, MeasureTyped
<1> QED
  BY <1>0, <1>1, <1>2, <1>3, <1>4, <1>5, <1>6, PollTyped, GetStatsTyped, ConsumeTyped
     DEF Measurement, MeasurementOffline

(* A process that ends keeps the types. *)
LEMMA GoneTyped ==
  ASSUME TypeOK, ClientGone
  PROVE  /\ want' \in Settings
         /\ single' \in BOOLEAN /\ running' \in BOOLEAN /\ late' \in BOOLEAN /\ failed' \in BOOLEAN
         /\ interval' \in 0 .. Duration
         /\ elapsed' \in Nat /\ prevTx' \in Nat /\ stats' \in Nat /\ result' \in Nat
         /\ tries' \in Nat /\ polls' \in Nat
<1>1. want' = file /\ single' = FALSE /\ interval' = 0
  BY DEF ClientGone
<1>2. running' = FALSE /\ late' = FALSE /\ failed' = FALSE
  BY DEF ClientGone
<1>3. elapsed' = 0 /\ prevTx' = 0 /\ stats' = 0 /\ result' = 0 /\ tries' = 0 /\ polls' = 0
  BY DEF ClientGone
<1>4. want' \in Settings /\ interval' \in 0 .. Duration
  BY <1>1 DEF TypeOK
<1>5. running' \in BOOLEAN /\ late' \in BOOLEAN /\ failed' \in BOOLEAN /\ single' \in BOOLEAN
  BY <1>1, <1>2, Zenon
<1> QED
  BY <1>3, <1>4, <1>5

(* Without the ports a measurement adds no traffic. *)
LEMMA OfflineKeepsLeft ==
  ASSUME TypeOK, MeasurementOffline, trex.left = 0
  PROVE  trex'.left = 0
<1>1. CASE RunnerBusy
  BY <1>1 DEF RunnerBusy
<1>2. CASE ~running /\ PollStats(0)
  BY <1>2, Zenon DEF PollStats
<1>3. ASSUME NEW d \in Delays, ~Cancels(d), Consume(d) PROVE trex'.left = 0
  <2>1. trex' = Pass(trex, d)
    BY <1>3 DEF Consume
  <2> QED
    BY <2>1, PassFacts, DelayFacts DEF TypeOK
<1>4. CASE TakeResult
  BY <1>4 DEF TakeResult
<1> QED
  BY <1>1, <1>2, <1>3, <1>4 DEF MeasurementOffline

(* The rest of the run, and what happens to it. *)
LEMMA TypeStep == TypeOK /\ [Next]_vars => TypeOK'
<1> SUFFICES ASSUME TypeOK, [Next]_vars PROVE TypeOK'
  OBVIOUS
<1> USE DEF TypeOK, runVars, connVars, worldVars, measureVars, Goto
<1>1. CASE BeginRun
  BY <1>1 DEF BeginRun
<1>2. CASE Connect
  BY <1>2 DEF Connect
<1>3. CASE StopServer
  <2>1. \/ /\ server' = Down /\ open' = {} /\ owner' = 0 /\ trex' = Stopped(trex)
        \/ UNCHANGED <<server, open, owner, trex>>
    BY <1>3, Zenon DEF StopServer, NobodyThere, NoSession
  <2>2. trex' \in Trex
    BY <2>1, StoppedFacts
  <2>4. owner' \in Nat /\ server' \in Settings \cup {Down}
    BY <2>1
  <2>5. open' \subseteq Nat
    <3>1. open' = {} \/ open' = open
      BY <2>1
    <3> QED
      BY <3>1
  <2>3. pc' = "spawn"
    BY <1>3 DEF StopServer
  <2> QED
    BY <1>3, <2>2, <2>3, <2>4, <2>5 DEF StopServer
<1>4. CASE Spawn
  BY <1>4 DEF Spawn, Starts
<1>5. CASE AwaitServer
  <2>0. open' = open \/ open' = open \cup {run}
    BY <1>5, Zenon DEF AwaitServer
  <2>1. open' \subseteq Nat
    BY <2>0
  <2>3. polls' \in Nat
    BY <1>5 DEF AwaitServer
  <2>2. pc' \in {"reset", "error", "await", "sysExit", "spawn"}
    BY <1>5 DEF AwaitServer
  <2> QED
    BY <1>5, <2>1, <2>2, <2>3 DEF AwaitServer
<1>6. CASE ResetPorts
  BY <1>6, SilentFacts DEF ResetPorts
<1>7. CASE Stage
  BY <1>7 DEF Stage
<1>8. CASE SetupTraffic
  BY <1>8 DEF SetupTraffic
<1>9. CASE Measure
  <2>1. MeasureTyped
    BY <1>9, MeasureType DEF Measure
  <2>2. UNCHANGED <<run, want, connVars, ending, runner, worldVars, excused>>
    BY <1>9 DEF Measure
  <2> QED
    BY <2>1, <2>2 DEF MeasureTyped
<1>10. CASE NextMeasurement
  BY <1>10 DEF NextMeasurement
<1>11. CASE AfterStlError
  BY <1>11 DEF AfterStlError
<1>12. CASE RaiseError
  BY <1>12 DEF RaiseError
<1>13. CASE RaiseSystemExit
  BY <1>13 DEF RaiseSystemExit, SystemExitTo
<1>14. CASE NothingToClose
  BY <1>14 DEF NothingToClose
<1>15. CASE CloseFails
  BY <1>15, StoppedFacts DEF CloseFails
<1>16. CASE CloseRunner
  BY <1>16, SilentFacts DEF CloseRunner, NoSession
<1>17. CASE EndRun
  <2>0. open' = {} \/ open' = open
    BY <1>17, Zenon DEF EndRun
  <2>1. open' \subseteq Nat
    BY <2>0
  <2>4. pc' \in {"dead", "idle"} /\ run' \in Nat \ {0}
    BY <1>17 DEF EndRun
  <2>2. ClientGone
    BY <1>17 DEF EndRun
  <2>3. /\ UNCHANGED <<runner, local, server, file, owner, mislaid, excused, trex>>
        /\ ending' = FALSE
    BY <1>17 DEF EndRun
  <2> QED
    BY <2>1, <2>2, <2>3, <2>4, GoneTyped
<1>18. CASE Kill
  <2>1. open' \subseteq Nat /\ pc' = "dead" /\ run' \in Nat \ {0} /\ excused' \subseteq Nat
    BY <1>18 DEF Kill
  <2>2. ClientGone
    BY <1>18 DEF Kill
  <2>3. UNCHANGED <<runner, local, server, file, owner, mislaid, trex>> /\ ending' = FALSE
    BY <1>18 DEF Kill
  <2> QED
    BY <2>1, <2>2, <2>3, GoneTyped
<1>19. CASE Relaunch
  BY <1>19 DEF Relaunch, NoSession
<1>20. CASE ServerDies
  BY <1>20, StoppedFacts DEF ServerDies, NobodyThere, NoSession
<1>21. CASE UNCHANGED vars
  BY <1>21 DEF vars, trafficVars
<1> QED
  BY <1>1, <1>2, <1>3, <1>4, <1>5, <1>6, <1>7, <1>8, <1>9, <1>10, <1>11, <1>12, <1>13,
     <1>14, <1>15, <1>16, <1>17, <1>18, <1>19, <1>20, <1>21 DEF Next, Program

(* Every variable keeps its type (the whole of NFVBench.run and run_traffic). *)
THEOREM TypeCorrect == Spec => []TypeOK
BY InitType, TypeStep, PTL DEF Spec

-----------------------------------------------------------------------------
(* The server and its settings file: the file tells what a server that is  *)
(* up was started with, connect() goes on to its end only with the file    *)
(* this run wants, and who is connected is connected to a server.          *)

ServedInv ==
  /\ ~mislaid /\ server # Down => server = file
  /\ pc = "await" => file = want
  /\ pc \in {"reset", "stage", "check"} /\ local => file = want
  /\ open # {} \/ owner # NoSession => server # Down

(* No server runs at the start, so the file is true. *)
LEMMA InitServed == Init => ServedInv
BY DEF Init, ServedInv

(* Every step keeps the file a true memory of the server. *)
LEMMA ServedStep == TypeOK /\ ServedInv /\ [Next]_vars => ServedInv'
<1> SUFFICES ASSUME TypeOK, ServedInv, [Next]_vars PROVE ServedInv'
  OBVIOUS
<1> USE DEF ServedInv, runVars, worldVars, Goto
<1>1. CASE BeginRun
  BY <1>1 DEF BeginRun
<1>2. CASE Connect
  <2>1. CASE /\ server # Down
             /\ open' = open \cup {run}
             /\ \E restart \in BOOLEAN :
                  Goto(IF local /\ NeedsRestart(restart) THEN "stopServer" ELSE "reset")
    BY <1>2, <2>1 DEF Connect, NeedsRestart
  <2>2. CASE UNCHANGED open /\ Goto(IF local THEN "spawn" ELSE "error")
    BY <1>2, <2>2 DEF Connect
  <2> QED
    BY <1>2, <2>1, <2>2 DEF Connect
<1>3. CASE StopServer
  <2>1. pc' = "spawn" /\ UNCHANGED <<runVars, local, file, mislaid>>
    BY <1>3 DEF StopServer
  <2>2. CASE server' = Down /\ NobodyThere
    BY <2>1, <2>2 DEF NobodyThere
  <2>3. CASE UNCHANGED <<server, open, owner, trex>>
    BY <2>1, <2>3
  <2> QED
    BY <1>3, <2>2, <2>3 DEF StopServer
<1>4. CASE Spawn
  BY <1>4 DEF Spawn
<1>5. CASE AwaitServer
  BY <1>5 DEF AwaitServer
<1>6. CASE ResetPorts
  BY <1>6 DEF ResetPorts
<1>7. CASE Stage
  BY <1>7 DEF Stage
<1>8. CASE SetupTraffic
  BY <1>8 DEF SetupTraffic
<1>9. CASE Measure
  <2>1. pc' \notin {"await", "reset", "stage", "check"}
    BY <1>9, MeasureType DEF Measure, MeasureTyped
  <2>2. UNCHANGED <<worldVars, want>>
    BY <1>9 DEF Measure
  <2> QED
    BY <2>1, <2>2
<1>10. CASE NextMeasurement
  BY <1>10 DEF NextMeasurement
<1>11. CASE AfterStlError
  BY <1>11 DEF AfterStlError
<1>12. CASE RaiseError
  BY <1>12 DEF RaiseError
<1>13. CASE RaiseSystemExit
  BY <1>13 DEF RaiseSystemExit, SystemExitTo
<1>14. CASE NothingToClose
  BY <1>14 DEF NothingToClose
<1>15. CASE CloseFails
  BY <1>15 DEF CloseFails
<1>16. CASE CloseRunner
  BY <1>16 DEF CloseRunner
<1>17. CASE EndRun
  BY <1>17 DEF EndRun
<1>18. CASE Kill
  BY <1>18 DEF Kill
<1>19. CASE Relaunch
  BY <1>19 DEF Relaunch
<1>20. CASE ServerDies
  BY <1>20 DEF ServerDies, NobodyThere
<1>21. CASE UNCHANGED vars
  BY <1>21 DEF vars, trafficVars
<1> QED
  BY <1>1, <1>2, <1>3, <1>4, <1>5, <1>6, <1>7, <1>8, <1>9, <1>10, <1>11, <1>12, <1>13,
     <1>14, <1>15, <1>16, <1>17, <1>18, <1>19, <1>20, <1>21 DEF Next, Program

(* Whatever crashed or failed before, a local server that a run has set up *)
(* runs with the settings of that run (trex_gen.py:833-952).               *)
THEOREM Served == Spec => []ServedAsAsked
<1>1. Init => TypeOK /\ ServedInv
  BY InitType, InitServed
<1>2. TypeOK /\ ServedInv /\ [Next]_vars => (TypeOK /\ ServedInv)'
  BY TypeStep, ServedStep
<1>3. TypeOK /\ ServedInv => ServedAsAsked
  BY DEF TypeOK, ServedInv, ServedAsAsked, NoSession
<1> QED
  BY <1>1, <1>2, <1>3, PTL DEF Spec

-----------------------------------------------------------------------------
(* Sessions: what is still connected at the end of a run, a failure kept;  *)
(* only a session that still is, or that a failure kept, has the ports;    *)
(* and nothing transmits on ports that nobody has.                         *)

QuietInv ==
  /\ open \subseteq excused \cup {run}
  /\ pc \in {"closed", "idle", "dead"} => open \subseteq excused
  /\ owner \in open \cup excused \cup {NoSession}
  /\ trex.left > 0 => owner # NoSession

(* Nothing is connected at the start. *)
LEMMA InitQuiet == Init => QuietInv
BY SilentFacts DEF Init, QuietInv

(* Every step keeps what is connected or transmits explained. *)
LEMMA QuietStep == TypeOK /\ QuietInv /\ [Next]_vars => QuietInv'
<1> SUFFICES ASSUME TypeOK, QuietInv, [Next]_vars PROVE QuietInv'
  OBVIOUS
<1> USE DEF QuietInv, runVars, worldVars, Goto
<1>1. CASE BeginRun
  BY <1>1 DEF BeginRun
<1>2. CASE Connect
  <2>1. open' = open \cup {run} \/ open' = open
    BY <1>2 DEF Connect
  <2>2. pc' \in {"stopServer", "reset", "spawn", "error"}
    BY <1>2 DEF Connect
  <2>3. UNCHANGED <<run, excused, owner, trex>>
    BY <1>2 DEF Connect
  <2> QED
    BY <2>1, <2>2, <2>3
<1>3. CASE StopServer
  <2>1. pc' = "spawn" /\ UNCHANGED <<run, excused>>
    BY <1>3 DEF StopServer
  <2>2. CASE server' = Down /\ NobodyThere
    BY <2>1, <2>2, StoppedFacts DEF NobodyThere, TypeOK
  <2>3. CASE UNCHANGED <<server, open, owner, trex>>
    BY <2>1, <2>3
  <2> QED
    BY <1>3, <2>2, <2>3 DEF StopServer
<1>4. CASE Spawn
  BY <1>4 DEF Spawn
<1>5. CASE AwaitServer
  <2>1. open' = open \cup {run} \/ open' = open
    BY <1>5 DEF AwaitServer
  <2>2. pc' \in {"reset", "error", "await", "sysExit", "spawn"}
    BY <1>5 DEF AwaitServer
  <2>3. UNCHANGED <<run, excused, owner, trex>>
    BY <1>5 DEF AwaitServer
  <2> QED
    BY <2>1, <2>2, <2>3
<1>6. CASE ResetPorts
  <2>1. UNCHANGED <<run, open, excused>> /\ pc' \in {"stage", "error"}
    BY <1>6 DEF ResetPorts
  <2>2. CASE run \in open /\ owner' = run /\ trex' = Silent
    BY <2>1, <2>2, SilentFacts
  <2>3. CASE UNCHANGED <<owner, trex>>
    BY <2>1, <2>3
  <2> QED
    BY <1>6, <2>2, <2>3 DEF ResetPorts
<1>7. CASE Stage
  BY <1>7 DEF Stage
<1>8. CASE SetupTraffic
  BY <1>8 DEF SetupTraffic
<1>9. CASE Measure
  <2>1. pc' \notin {"closed", "idle", "dead"}
    BY <1>9, MeasureType DEF Measure, MeasureTyped
  <2>2. UNCHANGED <<run, worldVars, excused>>
    BY <1>9 DEF Measure
  <2>3. CASE owner = run
    BY <2>1, <2>2, <2>3 DEF TypeOK, NoSession
  <2>4. CASE CallFails
    BY <2>1, <2>2, <2>4 DEF CallFails
  <2>5. CASE MeasurementOffline
    <3>1. trex'.left > 0 => trex.left > 0
      <4>1. trex.left \in Nat
        BY DEF TypeOK, Trex
      <4> QED
        BY <2>5, <4>1, OfflineKeepsLeft
    <3> QED
      BY <2>1, <2>2, <3>1
  <2> QED
    BY <1>9, <2>3, <2>4, <2>5 DEF Measure
<1>10. CASE NextMeasurement
  BY <1>10 DEF NextMeasurement
<1>11. CASE AfterStlError
  BY <1>11 DEF AfterStlError
<1>12. CASE RaiseError
  BY <1>12 DEF RaiseError
<1>13. CASE RaiseSystemExit
  BY <1>13 DEF RaiseSystemExit, SystemExitTo
<1>14. CASE NothingToClose
  BY <1>14 DEF NothingToClose
<1>15. CASE CloseFails
  <2>1. trex' = trex \/ trex'.left = 0
    BY <1>15, StoppedFacts DEF CloseFails, TypeOK
  <2>2. pc' = "closed" /\ excused' = excused \cup ({runner, run} \cap open)
    BY <1>15 DEF CloseFails
  <2>3. UNCHANGED <<run, open, owner>>
    BY <1>15 DEF CloseFails
  <2> QED
    BY <2>1, <2>2, <2>3
<1>16. CASE CloseRunner
  BY <1>16, SilentFacts DEF CloseRunner
<1>17. CASE EndRun
  <2>1. open' = {} \/ open' = open
    BY <1>17 DEF EndRun
  <2>2. open \subseteq excused /\ UNCHANGED <<owner, excused, trex>>
    BY <1>17 DEF EndRun
  <2> QED
    BY <2>1, <2>2
<1>18. CASE Kill
  BY <1>18 DEF Kill
<1>19. CASE Relaunch
  BY <1>19 DEF Relaunch
<1>20. CASE ServerDies
  BY <1>20, StoppedFacts DEF ServerDies, NobodyThere, TypeOK
<1>21. CASE UNCHANGED vars
  BY <1>21 DEF vars, trafficVars
<1> QED
  BY <1>1, <1>2, <1>3, <1>4, <1>5, <1>6, <1>7, <1>8, <1>9, <1>10, <1>11, <1>12, <1>13,
     <1>14, <1>15, <1>16, <1>17, <1>18, <1>19, <1>20, <1>21 DEF Next, Program

(* Between runs nothing transmits and nobody is connected, but for what a  *)
(* failure kept (nfvbench.py:140-148, chain_runner.py:205-228).            *)
THEOREM Quiet == Spec => []QuietBetweenRuns
<1>1. Init => TypeOK /\ QuietInv
  BY InitType, InitQuiet
<1>2. TypeOK /\ QuietInv /\ [Next]_vars => (TypeOK /\ QuietInv)'
  BY TypeStep, QuietStep
<1>3. QuietInv => QuietBetweenRuns
  BY DEF QuietInv, QuietBetweenRuns
<1> QED
  BY <1>1, <1>2, <1>3, PTL DEF Spec

-----------------------------------------------------------------------------
(* Statistics: the counter is the sum of its two parts; traffic that is    *)
(* still on when a measurement begins, and packets that it adds, need a    *)
(* call that failed; a runner without a clock has stopped its traffic; and *)
(* what it keeps then is the counter.                                      *)

Measuring == {"run", "start", "poll", "stats", "yielded", "over", "measured"}

CountInv == trex.tx = trex.own + trex.foreign

LeftoverInv ==
  /\ pc \in {"stage", "check"} => trex.left = 0 /\ trex.foreign = 0
  /\ pc \in {"run", "start"} /\ trex.left > 0 => failed
  /\ pc = "start" => trex.tx = 0
  /\ pc = "stlError" => failed
  /\ pc \in Measuring /\ trex.foreign > 0 => failed

StopInv ==
  /\ pc \in {"stats", "yielded", "poll"} /\ ~running => trex.left = 0
  /\ pc \in {"over", "measured"} => trex.left = 0
  /\ pc = "over" => ~running

ResultInv ==
  /\ pc \in {"yielded", "poll", "over"} /\ single /\ ~running /\ ~late => stats = trex.tx
  /\ pc = "measured" /\ ~(single /\ late) => result = trex.tx

StatsInv == CountInv /\ LeftoverInv /\ StopInv /\ ResultInv

(* Nothing is counted at the start. *)
LEMMA InitStats == Init => StatsInv
BY SilentFacts DEF Init, StatsInv, CountInv, LeftoverInv, StopInv, ResultInv, Measuring

(* The steps of a measurement, one by one. *)
LEMMA ClearKeeps ==
  ASSUME TypeOK, StatsInv, NEW d \in Delays, ClearStats(d)
  PROVE  StatsInv'
<1> DEFINE g == Pass(trex, d)
<1>1. g \in Trex /\ (trex.left = 0 => g.left = 0)
  BY PassFacts, DelayFacts DEF TypeOK
<1>2. /\ pc = "run" /\ pc' = "start"
      /\ trex' = [g EXCEPT !.tx = 0, !.own = 0, !.foreign = 0]
      /\ failed' = failed
  BY DEF ClearStats
<1> HIDE DEF g
<1>3. trex'.left = g.left /\ trex'.tx = 0 /\ trex'.own = 0 /\ trex'.foreign = 0
  BY <1>1, <1>2 DEF Trex
<1>4. trex.left \in Nat /\ g.left \in Nat
  BY <1>1 DEF TypeOK, Trex
<1>5. trex'.left > 0 => failed'
  <2>1. trex.left > 0 => failed
    BY <1>2 DEF StatsInv, LeftoverInv
  <2> QED
    BY <1>1, <1>2, <1>3, <1>4, <2>1
<1> QED
  BY <1>2, <1>3, <1>5 DEF StatsInv, CountInv, LeftoverInv, StopInv, ResultInv, Measuring

(* What a start finds counted is there because of traffic still on. *)
LEMMA StartFinds ==
  ASSUME TypeOK, StatsInv, pc = "start", NEW d \in Delays, NEW pace \in {0, 1}
  PROVE  /\ Started(Pass(trex, d), pace) \in Trex
         /\ Started(Pass(trex, d), pace).tx = Started(Pass(trex, d), pace).foreign
         /\ Started(Pass(trex, d), pace).own = 0
         /\ Started(Pass(trex, d), pace).foreign > 0 => failed
<1> DEFINE g == Pass(trex, d)
<1>1. g \in Trex /\ (trex.left = 0 => g.left = 0 /\ g.tx = trex.tx)
  BY PassFacts, DelayFacts DEF TypeOK
<1> HIDE DEF g
<1>2. Started(g, pace) \in Trex /\ Started(g, pace).tx = g.tx /\ Started(g, pace).own = 0
      /\ Started(g, pace).foreign = g.tx
  BY <1>1, StartedFacts
<1>3. g.tx > 0 => failed
  <2>1. trex.left \in Nat /\ g.tx \in Nat
    BY <1>1 DEF TypeOK, Trex
  <2>2. trex.tx = 0 /\ (trex.left > 0 => failed)
    BY DEF StatsInv, LeftoverInv
  <2> QED
    BY <1>1, <2>1, <2>2
<1> QED
  BY <1>2, <1>3 DEF g

(* Starting the traffic keeps the statistics explained. *)
LEMMA StartKeeps ==
  ASSUME TypeOK, StatsInv, NEW d \in Delays, NEW e \in Delays, NEW pace \in {0, 1},
         StartTraffic(d, e, pace)
  PROVE  StatsInv'
<1> DEFINE h == Started(Pass(trex, d), pace)
<1>1. pc = "start" /\ pc' = "poll" /\ running' = TRUE /\ failed' = failed /\ trex' = Pass(h, e)
  BY DEF StartTraffic
<1>2. h \in Trex /\ h.tx = h.foreign /\ h.own = 0 /\ (h.foreign > 0 => failed)
  BY <1>1, StartFinds
<1> HIDE DEF h
<1>3. trex' \in Trex /\ trex'.tx - trex'.own = h.tx - h.own /\ trex'.foreign = h.foreign
  BY <1>1, <1>2, PassFacts, DelayFacts
<1>4. /\ h.tx \in Nat /\ h.own \in Nat /\ h.foreign \in Nat
      /\ trex'.tx \in Nat /\ trex'.own \in Nat /\ trex'.foreign \in Nat
  BY <1>2, <1>3 DEF Trex
<1>5. trex'.tx = trex'.own + trex'.foreign
  BY <1>2, <1>3, <1>4
<1>6. trex'.foreign > 0 => failed'
  BY <1>1, <1>2, <1>3
<1> QED
  BY <1>1, <1>5, <1>6 DEF StatsInv, CountInv, LeftoverInv, StopInv, ResultInv, Measuring

(* So does a start that fails. *)
LEMMA StartFailsKeeps ==
  ASSUME TypeOK, StatsInv, NEW d \in Delays, NEW pace \in {0, 1}, StartFailsHalfway(d, pace)
  PROVE  StatsInv'
<1> DEFINE h == Started(Pass(trex, d), pace)
<1>1. pc = "start" /\ pc' = "stlError" /\ failed' = TRUE /\ trex' = h
  BY DEF StartFailsHalfway
<1>2. h \in Trex /\ h.tx = h.foreign /\ h.own = 0
  BY <1>1, StartFinds
<1> HIDE DEF h
<1>3. trex'.tx = trex'.own + trex'.foreign
  BY <1>1, <1>2 DEF Trex
<1> QED
  BY <1>1, <1>3 DEF StatsInv, CountInv, LeftoverInv, StopInv, ResultInv, Measuring

(* The counter when time passes, and the traffic is perhaps stopped. *)
LEMMA AfterPass ==
  ASSUME TypeOK, StatsInv, NEW d \in Nat,
         NEW h \in {Pass(trex, d), Stopped(Pass(trex, d))}
  PROVE  /\ h \in Trex /\ h.tx = h.own + h.foreign /\ h.foreign = trex.foreign
         /\ trex.left = 0 => h.left = 0 /\ h.tx = trex.tx
<1> DEFINE g == Pass(trex, d)
<1>1. /\ g \in Trex /\ g.tx - g.own = trex.tx - trex.own /\ g.foreign = trex.foreign
      /\ trex.left = 0 => g.left = 0 /\ g.tx = trex.tx
  BY PassFacts DEF TypeOK
<1>2. h \in {g, Stopped(g)}
  OBVIOUS
<1> HIDE DEF g
<1>3. trex.tx = trex.own + trex.foreign
  BY DEF StatsInv, CountInv
<1>4. /\ g.tx \in Nat /\ g.own \in Nat /\ g.foreign \in Nat
      /\ trex.tx \in Nat /\ trex.own \in Nat /\ trex.foreign \in Nat
  BY <1>1 DEF TypeOK, Trex
<1>5. g.tx = g.own + g.foreign
  BY <1>1, <1>3, <1>4
<1>6. CASE h = g
  BY <1>1, <1>5, <1>6
<1>7. CASE h = Stopped(g)
  BY <1>1, <1>5, <1>7, StoppedFacts
<1> QED
  BY <1>2, <1>6, <1>7

(* So does a poll. *)
LEMMA PollKeeps ==
  ASSUME TypeOK, StatsInv, NEW d \in Delays, PollStats(d)
  PROVE  StatsInv'
<1>1. pc = "poll" /\ UNCHANGED <<single, stats, result, failed>>
  BY DEF PollStats
<1>2. d \in Nat
  BY DelayFacts
<1>3. trex.foreign > 0 => failed
  BY <1>1 DEF StatsInv, LeftoverInv, Measuring
<1>4. CASE ~running
  <2>1. pc' = "over" /\ UNCHANGED <<running, trex, late>>
    BY <1>4, Zenon DEF PollStats
  <2>2. trex.left = 0 /\ (single /\ ~late => stats = trex.tx)
    BY <1>1, <1>4 DEF StatsInv, StopInv, ResultInv
  <2>3. trex'.left = 0 /\ (single' /\ ~late' => stats' = trex'.tx)
    BY <1>1, <2>1, <2>2
  <2> QED
    BY <1>1, <1>3, <1>4, <2>1, <2>3 DEF StatsInv, CountInv, LeftoverInv, StopInv, ResultInv, Measuring
<1>5. CASE running /\ Elapsed(d) > Duration
  <2>1. pc' = "over" /\ running' = FALSE /\ late' = TRUE /\ trex' = Stopped(Pass(trex, d))
    <3>1. ~ (Elapsed(d) <= Duration)
      <4>1. Elapsed(d) \in Nat
        BY <1>2 DEF Elapsed, TypeOK
      <4> QED
        BY <1>5, <4>1
    <3> QED
      BY <1>5, <3>1, Zenon DEF PollStats
  <2>2. trex'.tx = trex'.own + trex'.foreign /\ trex'.foreign = trex.foreign
    BY <1>2, <2>1, AfterPass
  <2>3. trex'.left = 0
    BY <1>2, <2>1, PassFacts, StoppedFacts DEF TypeOK
  <2> QED
    BY <1>1, <1>3, <2>1, <2>2, <2>3 DEF StatsInv, CountInv, LeftoverInv, StopInv, ResultInv, Measuring
<1>6. CASE running /\ Elapsed(d) <= Duration
  <2>1. SleepAndMaybeStop(d)
    <3>1. ~ (Elapsed(d) > Duration)
      <4>1. Elapsed(d) \in Nat
        BY <1>2 DEF Elapsed, TypeOK
      <4> QED
        BY <1>6, <4>1
    <3> QED
      BY <1>6, <3>1, Zenon DEF PollStats
  <2> DEFINE timeLeft == Duration - Elapsed(d)
             nap == IF interval = 0 THEN Duration ELSE Least(interval, timeLeft)
             last == interval = 0 \/ timeLeft <= interval
  <2>2. nap \in Nat
    <3>1. timeLeft \in Nat
      BY <1>2, <1>6 DEF Elapsed, TypeOK
    <3> QED
      BY <3>1 DEF Least, TypeOK
  <2>3. /\ pc' = "stats" /\ running' = ~last
        /\ trex' = IF last THEN Stopped(Pass(trex, d + nap)) ELSE Pass(trex, d + nap)
    BY <2>1, Zenon DEF SleepAndMaybeStop
  <2> HIDE DEF nap, last, timeLeft
  <2>4. trex' \in {Pass(trex, d + nap), Stopped(Pass(trex, d + nap))} /\ d + nap \in Nat
    BY <1>2, <2>2, <2>3
  <2>5. trex'.tx = trex'.own + trex'.foreign /\ trex'.foreign = trex.foreign
    BY <2>4, AfterPass
  <2>6. ~running' => trex'.left = 0
    BY <2>3, <2>4, PassFacts, StoppedFacts DEF TypeOK
  <2> QED
    BY <1>1, <1>3, <2>3, <2>5, <2>6 DEF StatsInv, CountInv, LeftoverInv, StopInv, ResultInv, Measuring
<1> QED
  BY <1>4, <1>5, <1>6, Zenon DEF PollStats

(* So does reading the statistics. *)
LEMMA GetStatsKeeps ==
  ASSUME TypeOK, StatsInv, NEW d \in Delays, GetStats(d)
  PROVE  StatsInv'
<1> DEFINE g == Pass(trex, d)
<1>1. /\ pc = "stats" /\ trex' = g
      /\ UNCHANGED <<single, running, late, failed>>
      /\ \/ pc' = "sysExit"
         \/ pc' = "yielded" /\ stats' = g.tx
  BY DEF GetStats
<1>2. /\ g.tx = g.own + g.foreign /\ g.foreign = trex.foreign
      /\ trex.left = 0 => g.left = 0
  BY AfterPass, DelayFacts
<1> HIDE DEF g
<1>3. /\ trex.foreign > 0 => failed
      /\ ~running => trex.left = 0
  BY <1>1 DEF StatsInv, LeftoverInv, StopInv, Measuring
<1>4. CASE pc' = "sysExit"
  BY <1>1, <1>2, <1>4 DEF StatsInv, CountInv, LeftoverInv, StopInv, ResultInv, Measuring
<1>5. CASE pc' = "yielded" /\ stats' = g.tx
  BY <1>1, <1>2, <1>3, <1>5 DEF StatsInv, CountInv, LeftoverInv, StopInv, ResultInv, Measuring
<1> QED
  BY <1>1, <1>4, <1>5

(* So does the consumer's loop. *)
LEMMA ConsumeKeeps ==
  ASSUME TypeOK, StatsInv, NEW d \in Delays, Consume(d)
  PROVE  StatsInv'
<1>1. /\ pc = "yielded" /\ pc' = "poll"
      /\ UNCHANGED <<single, stats, late, failed>>
  BY DEF Consume
<1>2. /\ trex.foreign > 0 => failed
      /\ ~running => trex.left = 0
      /\ single /\ ~running /\ ~late => stats = trex.tx
  BY <1>1 DEF StatsInv, LeftoverInv, StopInv, ResultInv, Measuring
<1>3. CASE Cancels(d)
  <2>1. running' = FALSE /\ trex' = Stopped(Pass(trex, d)) /\ ~single
    BY <1>3 DEF Consume, Cancels
  <2>2. trex'.tx = trex'.own + trex'.foreign /\ trex'.foreign = trex.foreign
    BY <2>1, AfterPass, DelayFacts
  <2>3. trex'.left = 0
    BY <2>1, PassFacts, StoppedFacts, DelayFacts DEF TypeOK
  <2> QED
    BY <1>1, <1>2, <2>1, <2>2, <2>3 DEF StatsInv, CountInv, LeftoverInv, StopInv, ResultInv, Measuring
<1>4. CASE ~Cancels(d)
  <2>1. (running' <=> running) /\ trex' = Pass(trex, d)
    BY <1>4 DEF Consume
  <2>2. /\ trex'.tx = trex'.own + trex'.foreign /\ trex'.foreign = trex.foreign
        /\ trex.left = 0 => trex'.left = 0 /\ trex'.tx = trex.tx
    BY <2>1, AfterPass, DelayFacts
  <2> QED
    BY <1>1, <1>2, <2>1, <2>2 DEF StatsInv, CountInv, LeftoverInv, StopInv, ResultInv, Measuring
<1> QED
  BY <1>3, <1>4

(* So does taking the result. *)
LEMMA TakeResultKeeps ==
  ASSUME TypeOK, StatsInv, TakeResult
  PROVE  StatsInv'
<1>1. /\ pc = "over" /\ pc' = "measured" /\ result' = Final(trex)
      /\ UNCHANGED <<single, late, failed, trex>>
  BY DEF TakeResult
<1>2. /\ trex.foreign > 0 => failed
      /\ trex.left = 0
      /\ single /\ ~late => stats = trex.tx
  BY <1>1 DEF StatsInv, LeftoverInv, StopInv, ResultInv, Measuring
<1>3. ~(single /\ late) => result' = trex.tx
  BY <1>1, <1>2 DEF Final
<1> QED
  BY <1>1, <1>2, <1>3 DEF StatsInv, CountInv, LeftoverInv, StopInv, ResultInv, Measuring

(* So does every step of a measurement. *)
LEMMA MeasureKeeps ==
  ASSUME TypeOK, StatsInv, Measurement \/ MeasurementOffline \/ CallFails
  PROVE  StatsInv'
<1>0. 0 \in Delays
  BY DEF Delays
<1>1. CASE RunnerBusy
  BY <1>1 DEF RunnerBusy, StatsInv, CountInv, LeftoverInv, StopInv, ResultInv, Measuring
<1>2. CASE CallFails
  BY <1>2 DEF CallFails, StatsInv, CountInv, LeftoverInv, StopInv, ResultInv, Measuring
<1> QED
  BY <1>0, <1>1, <1>2, ClearKeeps, StartKeeps, StartFailsKeeps, PollKeeps, GetStatsKeeps,
     ConsumeKeeps, TakeResultKeeps DEF Measurement, MeasurementOffline

(* Outside a measurement only the sum and what precedes one are at stake. *)
NotMeasuring == {"idle", "connect", "stopServer", "spawn", "await", "reset", "error",
                 "sysExit", "finally", "closed", "dead"}

(* Steps outside of measurements leave them alone. *)
LEMMA ElsewhereKeeps ==
  ASSUME StatsInv, pc' \in NotMeasuring, trex'.tx = trex'.own + trex'.foreign
  PROVE  StatsInv'
BY DEF NotMeasuring, StatsInv, CountInv, LeftoverInv, StopInv, ResultInv, Measuring

(* Every step keeps the statistics explained. *)
LEMMA StatsStep == TypeOK /\ StatsInv /\ [Next]_vars => StatsInv'
<1> SUFFICES ASSUME TypeOK, StatsInv, [Next]_vars PROVE StatsInv'
  OBVIOUS
<1> USE DEF Goto, NotMeasuring, measureVars, runVars
<1>0. /\ trex \in Trex /\ trex.tx = trex.own + trex.foreign
      /\ Silent.tx = Silent.own + Silent.foreign
      /\ Stopped(trex).tx = Stopped(trex).own + Stopped(trex).foreign
  BY SilentFacts, StoppedFacts DEF TypeOK, StatsInv, CountInv
<1>1. CASE BeginRun
  BY <1>0, <1>1, ElsewhereKeeps DEF BeginRun
<1>2. CASE Connect
  <2>1. pc' \in {"stopServer", "reset", "spawn", "error"} /\ trex' = trex
    BY <1>2 DEF Connect
  <2> QED
    BY <1>0, <2>1, ElsewhereKeeps
<1>3. CASE StopServer
  BY <1>0, <1>3, ElsewhereKeeps DEF StopServer, NobodyThere
<1>4. CASE Spawn
  BY <1>0, <1>4, ElsewhereKeeps DEF Spawn
<1>5. CASE AwaitServer
  <2>1. pc' \in {"reset", "error", "await", "sysExit", "spawn"} /\ trex' = trex
    BY <1>5 DEF AwaitServer
  <2> QED
    BY <1>0, <2>1, ElsewhereKeeps
<1>6. CASE ResetPorts
  <2>1. CASE pc' = "stage" /\ trex' = Silent
    BY <2>1, SilentFacts
       DEF StatsInv, CountInv, LeftoverInv, StopInv, ResultInv, Measuring
  <2>2. CASE pc' = "error" /\ trex' = trex
    BY <1>0, <2>2, ElsewhereKeeps
  <2> QED
    BY <1>6, <2>1, <2>2 DEF ResetPorts
<1>7. CASE Stage
  BY <1>7 DEF Stage, StatsInv, CountInv, LeftoverInv, StopInv, ResultInv, Measuring
<1>8. CASE SetupTraffic
  <2>1. /\ pc = "check" /\ pc' \in {"run", "error"} /\ trex' = trex
    BY <1>8 DEF SetupTraffic
  <2>2. trex.left = 0 /\ trex.foreign = 0
    BY <2>1 DEF StatsInv, LeftoverInv
  <2> QED
    BY <1>0, <2>1, <2>2 DEF StatsInv, CountInv, LeftoverInv, StopInv, ResultInv, Measuring
<1>9. CASE Measure
  BY <1>9, MeasureKeeps DEF Measure
<1>10. CASE NextMeasurement
  <2>1. pc = "measured" /\ pc' \in {"run", "finally"} /\ UNCHANGED <<trex, failed>>
    BY <1>10 DEF NextMeasurement
  <2>2. trex.left = 0 /\ (trex.foreign > 0 => failed)
    BY <2>1 DEF StatsInv, LeftoverInv, StopInv, Measuring
  <2> QED
    BY <1>0, <2>1, <2>2 DEF StatsInv, CountInv, LeftoverInv, StopInv, ResultInv, Measuring
<1>11. CASE AfterStlError
  <2>1. pc = "stlError" /\ pc' \in {"run", "finally"} /\ UNCHANGED <<trex, failed>>
    BY <1>11 DEF AfterStlError
  <2>2. failed
    BY <2>1 DEF StatsInv, LeftoverInv
  <2> QED
    BY <1>0, <2>1, <2>2 DEF StatsInv, CountInv, LeftoverInv, StopInv, ResultInv, Measuring
<1>12. CASE RaiseError
  BY <1>0, <1>12, ElsewhereKeeps DEF RaiseError
<1>13. CASE RaiseSystemExit
  BY <1>0, <1>13, ElsewhereKeeps DEF RaiseSystemExit, SystemExitTo
<1>14. CASE NothingToClose
  BY <1>0, <1>14, ElsewhereKeeps DEF NothingToClose
<1>15. CASE CloseFails
  BY <1>0, <1>15, ElsewhereKeeps DEF CloseFails
<1>16. CASE CloseRunner
  BY <1>0, <1>16, ElsewhereKeeps DEF CloseRunner
<1>17. CASE EndRun
  BY <1>0, <1>17, ElsewhereKeeps DEF EndRun
<1>18. CASE Kill
  BY <1>0, <1>18, ElsewhereKeeps DEF Kill
<1>19. CASE Relaunch
  BY <1>0, <1>19, ElsewhereKeeps DEF Relaunch
<1>20. CASE ServerDies
  <2>1. /\ pc' = pc /\ trex' = Stopped(trex)
        /\ UNCHANGED <<single, running, stats, result, late, failed>>
    BY <1>20 DEF ServerDies, NobodyThere
  <2>2. /\ trex'.left = 0 /\ trex'.tx = trex.tx
        /\ trex'.own = trex.own /\ trex'.foreign = trex.foreign
    BY <1>0, <2>1, StoppedFacts
  <2>3. CountInv'
    BY <1>0, <2>2 DEF CountInv
  <2>4. LeftoverInv'
    BY <2>1, <2>2 DEF StatsInv, LeftoverInv, Measuring
  <2>5. StopInv'
    BY <2>1, <2>2 DEF StatsInv, StopInv
  <2>6. ResultInv'
    BY <2>1, <2>2 DEF StatsInv, ResultInv
  <2> QED
    BY <2>3, <2>4, <2>5, <2>6 DEF StatsInv
<1>21. CASE UNCHANGED vars
  BY <1>21 DEF vars, trafficVars, StatsInv, CountInv, LeftoverInv, StopInv, ResultInv, Measuring
<1> QED
  BY <1>1, <1>2, <1>3, <1>4, <1>5, <1>6, <1>7, <1>8, <1>9, <1>10, <1>11, <1>12, <1>13,
     <1>14, <1>15, <1>16, <1>17, <1>18, <1>19, <1>20, <1>21 DEF Next, Program

(* The statistics of every measurement count all its packets and, unless a *)
(* call failed before, no other, but for the late poll of a fixed rate run *)
(* (traffic_client.py:54-112).                                             *)
THEOREM Complete == Spec => []CompleteStats
<1>1. Init => TypeOK /\ StatsInv
  BY InitType, InitStats
<1>2. TypeOK /\ StatsInv /\ [Next]_vars => (TypeOK /\ StatsInv)'
  BY TypeStep, StatsStep
<1>3. StatsInv => CompleteStats
  BY DEF StatsInv, CountInv, LeftoverInv, StopInv, ResultInv, Measuring, CompleteStats
<1> QED
  BY <1>1, <1>2, <1>3, PTL DEF Spec
=============================================================================
