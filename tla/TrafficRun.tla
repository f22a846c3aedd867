----------------------------- MODULE TrafficRun -----------------------------
(***************************************************************************)
(* One measurement: TrafficClient.run_traffic over a TrafficRunner, as     *)
(* run_fixed_rate and __run_search_iteration consume it.  TRex stops by    *)
(* itself duration_sec after it started; the runner has its own clock,     *)
(* started later, and looks at it only between its sleeps.                 *)
(*                                                                         *)
(* Time is counted in ticks.  A step takes the ticks its sleeps ask for    *)
(* and up to MaxDelay more.                                                *)
(***************************************************************************)
EXTENDS Integers

CONSTANTS
  Duration,   (* duration_sec                                              *)
  MaxDelay    (* bound: ticks that a call may take                         *)

ASSUME TrafficRunAssumption ==
  /\ Duration \in Nat \ {0}
  /\ MaxDelay \in 0..(Duration - 1)

VARIABLES
  pc,
  single,     (* a fixed rate run, otherwise a search                      *)
  interval,   (* interval_sec                                              *)
  running,    (* TrafficRunner.start_time is set                           *)
  elapsed,    (* time_elapsed(), while running                             *)
  prevTx,
  stats,      (* packets sent, in the statistics last yielded              *)
  result,     (* packets sent, in the statistics of the measurement        *)
  late,       (* the last poll came after the duration                     *)
  failed,     (* history: a call to TRex failed in an earlier measurement  *)
  trex        (* the generator: see Trex                                   *)

trafficVars == <<pc, single, interval, running, elapsed, prevTx, stats,
                 result, late, failed, trex>>

(* left: ticks it goes on transmitting; pace: packets per tick; tx: the    *)
(* counter; own: packets of the traffic started last; foreign: packets of  *)
(* earlier traffic that it counted since the counters were cleared.        *)
Trex == [left : Nat, pace : {0, 1}, tx : Nat, own : Nat, foreign : Nat]

Silent == [left |-> 0, pace |-> 0, tx |-> 0, own |-> 0, foreign |-> 0]

Least(a, b) == IF a < b THEN a ELSE b

(* The generator d ticks later. *)
Pass(g, d) ==
  LET sent == g.pace * Least(g.left, d)
  IN [g EXCEPT !.left = @ - Least(g.left, d), !.tx = @ + sent, !.own = @ + sent]

Stopped(g) == [g EXCEPT !.left = 0]

Delays == 0..MaxDelay

-----------------------------------------------------------------------------
(* Seeded faults: definitions below with a plausible slip. *)

(* The search too trusts the last interval. *)
FinalOfInterval(g) == stats

-----------------------------------------------------------------------------
(* The statistics TrafficClient calls the result: those of the last        *)
(* interval of a fixed rate run, fresh ones in a search.                   *)
Final(g) == IF single THEN stats ELSE g.tx

(* TrafficRunner.time_elapsed, d ticks after the last step. *)
Elapsed(d) == elapsed + d

(* TrafficRunner.run: a runner that believes it runs returns None, which   *)
(* log_stats cannot read.                                                  *)
RunnerBusy ==
  /\ pc = "run" /\ running
  /\ pc' = "error"
  /\ UNCHANGED <<single, interval, running, elapsed, prevTx, stats, result, late, failed, trex>>

ClearStats(d) ==
  /\ pc = "run" /\ ~running
  /\ pc' = "start"
  /\ trex' = [Pass(trex, d) EXCEPT !.tx = 0, !.own = 0, !.foreign = 0]
  /\ UNCHANGED <<single, interval, running, elapsed, prevTx, stats, result, late, failed>>

(* What start_traffic makes of the generator: traffic that is still on is  *)
(* stopped by force=True, its packets since the clearing stay counted.     *)
Started(g, pace) ==
  [g EXCEPT !.left = Duration, !.pace = pace, !.own = 0, !.foreign = g.tx]

(* set_service_mode and start_traffic, port by port; the runner's clock    *)
(* starts when all are started.                                            *)
StartTraffic(d, e, pace) ==
  /\ pc = "start"
  /\ pc' = "poll"
  /\ trex' = Pass(Started(Pass(trex, d), pace), e)
  /\ running' = TRUE /\ elapsed' = 0
  /\ prevTx' = 0 /\ late' = FALSE
  /\ UNCHANGED <<single, interval, stats, result, failed>>

(* An STLError at the second port: traffic is on, the clock is not. *)
StartFailsHalfway(d, pace) ==
  /\ pc = "start"
  /\ pc' = "stlError"
  /\ trex' = Started(Pass(trex, d), pace)
  /\ failed' = TRUE
  /\ UNCHANGED <<single, interval, running, elapsed, prevTx, stats, result, late>>

(* The rest of poll_stats when the duration is not over. *)
SleepAndMaybeStop(d) ==
  LET timeLeft == Duration - Elapsed(d)
      last == interval = 0 \/ timeLeft <= interval
      nap == IF interval = 0 THEN Duration ELSE Least(interval, timeLeft)
  IN /\ pc' = "stats"
     /\ running' = ~last
     /\ elapsed' = IF last THEN 0 ELSE Elapsed(d) + nap
     /\ trex' = IF last THEN Stopped(Pass(trex, d + nap)) ELSE Pass(trex, d + nap)
     /\ late' = late

(* TrafficRunner.poll_stats up to get_stats; None ends run_traffic. *)
PollStats(d) ==
  /\ pc = "poll"
  /\ \/ /\ ~running
        /\ pc' = "over"
        /\ UNCHANGED <<running, elapsed, trex, late>>
     \/ /\ running /\ Elapsed(d) > Duration
        /\ pc' = "over" /\ running' = FALSE /\ elapsed' = 0 /\ late' = TRUE
        /\ trex' = Stopped(Pass(trex, d))
     \/ /\ running /\ Elapsed(d) <= Duration
        /\ SleepAndMaybeStop(d)
  /\ UNCHANGED <<single, interval, prevTx, stats, result, failed>>

(* get_stats, then log_stats: no transmission since the last statistics is *)
(* taken for a configuration issue, and the process exits.                 *)
GetStats(d) ==
  /\ pc = "stats"
  /\ LET g == Pass(trex, d)
     IN /\ trex' = g
        /\ elapsed' = IF running THEN Elapsed(d) ELSE 0
        /\ IF g.tx = prevTx
           THEN pc' = "sysExit" /\ UNCHANGED <<prevTx, stats>>
           ELSE pc' = "yielded" /\ prevTx' = g.tx /\ stats' = g.tx
  /\ UNCHANGED <<single, interval, running, result, late, failed>>

(* The consumer of the statistics: the search cancels the traffic once the *)
(* duration is over, and pauses.                                           *)
Cancels(d) == running /\ ~single /\ Elapsed(d) >= Duration

Consume(d) ==
  /\ pc = "yielded"
  /\ pc' = "poll"
  /\ running' = (running /\ ~Cancels(d))
  /\ elapsed' = IF running' THEN Elapsed(d) ELSE 0
  /\ trex' = IF Cancels(d) THEN Stopped(Pass(trex, d)) ELSE Pass(trex, d)
  /\ UNCHANGED <<single, interval, prevTx, stats, result, late, failed>>

(* The end of the measurement. *)
TakeResult ==
  /\ pc = "over"
  /\ pc' = "measured"
  /\ result' = Final(trex)
  /\ UNCHANGED <<single, interval, running, elapsed, prevTx, stats, late, failed, trex>>

(* A call to TRex raises STLError; one that stops the traffic has cleared  *)
(* start_time already.                                                     *)
CallFails ==
  /\ pc \in {"run", "start", "poll", "stats", "yielded", "over"}
  /\ pc' = "stlError"
  /\ \/ UNCHANGED running
     \/ pc \in {"poll", "yielded"} /\ running' = FALSE
  /\ elapsed' = IF running' THEN elapsed ELSE 0
  /\ failed' = TRUE
  /\ UNCHANGED <<single, interval, prevTx, stats, result, late, trex>>

Measurement ==
  \/ RunnerBusy
  \/ \E d \in Delays : ClearStats(d)
  \/ \E d, e \in Delays, pace \in {0, 1} : StartTraffic(d, e, pace)
  \/ \E d \in Delays, pace \in {0, 1} : StartFailsHalfway(d, pace)
  \/ \E d \in Delays : PollStats(d) \/ GetStats(d) \/ Consume(d)
  \/ TakeResult
  \/ CallFails

(* Its steps that ask nothing of TRex. *)
MeasurementOffline ==
  \/ RunnerBusy
  \/ ~running /\ PollStats(0)
  \/ \E d \in Delays : ~Cancels(d) /\ Consume(d)
  \/ single /\ TakeResult

-----------------------------------------------------------------------------
(* The statistics of a measurement count every packet of its traffic, and  *)
(* the traffic is over.  They count no other packet either, unless a call  *)
(* that failed before left traffic on, which is stopped only by the next   *)
(* start, after the counters were cleared (traffic_client.py:54-70,        *)
(* trex_gen.py:1143-1146).  Not so for a fixed rate run polled after its   *)
(* duration: it keeps the statistics of before the stop                    *)
(* (traffic_client.py:100-102).                                            *)
CompleteStats ==
  pc = "measured" =>
    /\ trex.left = 0
    /\ ~(single /\ late) => result = trex.own + trex.foreign
    /\ trex.foreign > 0 => failed
=============================================================================
