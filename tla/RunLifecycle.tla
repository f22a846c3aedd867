---------------------------- MODULE RunLifecycle ----------------------------
(***************************************************************************)
(* The runs of one NFVBench object against one TRex server: NFVBench.run,  *)
(* ChainRunner, TRex.connect with the starting and restarting of a local   *)
(* server, the measurements of TrafficRun, and the closing.  In server     *)
(* mode self.chain_runner outlives the run, so a later run may close it    *)
(* again; a killed process is started anew.  Chains and connectivity       *)
(* checks are ChainStaging and EndToEnd: here they succeed or fail.        *)
(***************************************************************************)
EXTENDS TrafficRun, FiniteSets

CONSTANTS
  Settings,     (* contents of /etc/trex_cfg.yaml a run may ask for        *)
  Intervals,    (* values of interval_sec                                  *)
  RetryCount,   (* generic_retry_count                                     *)
  Measurements, (* bound: measurements of a run                            *)
  Runs,         (* bound: runs                                             *)
  Down          (* no TRex server                                          *)

ASSUME RunLifecycleAssumption ==
  /\ Intervals \subseteq 0..Duration
  /\ RetryCount \in Nat \ {0} /\ Measurements \in Nat \ {0} /\ Runs \in Nat \ {0}
  /\ Down \notin Settings

(* Sessions, the STLClients, are named by the run that opened them. *)
NoSession == 0

VARIABLES
  run,       (* the run                                                    *)
  want,      (* the settings it asks for                                   *)
  tries,     (* starts of the local server by this connect()               *)
  polls,     (* attempts to connect after a start, or measurements done    *)
  ending,    (* SystemExit is on its way                                   *)
  runner,    (* the session of self.chain_runner                           *)
  (* outside the program *)
  local,     (* the server runs on this host                               *)
  server,    (* the settings it runs with, or Down                         *)
  file,      (* /etc/trex_cfg.yaml                                         *)
  open,      (* sessions that are connected                                *)
  owner,     (* the session that has the ports                             *)
  (* history, never read by the program *)
  mislaid,   (* settings were saved while a server was up                  *)
  excused    (* sessions that a failure kept from being closed             *)

runVars == <<run, want, single, interval>>
connVars == <<tries, polls>>
worldVars == <<local, server, file, open, owner, mislaid>>
measureVars == <<running, elapsed, prevTx, stats, result, late, failed>>
vars == <<trafficVars, runVars, connVars, ending, runner, worldVars, excused>>

Goto(there) == pc' = there

-----------------------------------------------------------------------------
(* Seeded faults: definitions below with a plausible slip. *)

(* Only the restart option restarts, a changed configuration does not. *)
NeedsRestartAsked(restart) == restart

(* Starting again "while the status is 2", not at most twice. *)
StartsUncounted == tries

(* SystemExit goes around the closing. *)
ClosesOnSystemExit == "closed"

-----------------------------------------------------------------------------
Init ==
  /\ pc = "idle" /\ run = 1
  /\ single = FALSE /\ interval = 0
  /\ running = FALSE /\ elapsed = 0 /\ prevTx = 0 /\ stats = 0 /\ result = 0
  /\ late = FALSE /\ failed = FALSE
  /\ trex = Silent
  /\ tries = 0 /\ polls = 0 /\ ending = FALSE /\ runner = NoSession
  /\ local \in BOOLEAN
  /\ server \in Settings \cup {Down}
  /\ file \in Settings
  /\ server # Down => file = server
  /\ want = file
  /\ open = {} /\ owner = NoSession
  /\ mislaid = FALSE /\ excused = {}

(* The TrafficClient and the configuration go with their run. *)
ClientGone ==
  /\ want' = file /\ single' = FALSE /\ interval' = 0
  /\ running' = FALSE /\ elapsed' = 0 /\ prevTx' = 0 /\ stats' = 0 /\ result' = 0
  /\ late' = FALSE /\ failed' = FALSE
  /\ tries' = 0 /\ polls' = 0

(* NFVBench.run and a new ChainRunner. *)
BeginRun ==
  /\ pc = "idle" /\ run <= Runs
  /\ Goto("connect")
  /\ want' \in Settings
  /\ UNCHANGED <<run, single, interval, connVars, measureVars, ending, runner, worldVars, excused, trex>>

(* check_config_updated, or the option restart *)
NeedsRestart(restart) == file # want \/ restart

(* connect(): the first attempt, with a timeout of 5 seconds.  Without a   *)
(* server, or without an answer, a local one is started.                   *)
Connect ==
  /\ pc = "connect"
  /\ \/ /\ server # Down
        /\ open' = open \cup {run}
        /\ \E restart \in BOOLEAN :
             Goto(IF local /\ NeedsRestart(restart) THEN "stopServer" ELSE "reset")
     \/ /\ UNCHANGED open
        /\ Goto(IF local THEN "spawn" ELSE "error")
  /\ UNCHANGED <<runVars, connVars, measureVars, ending, runner, excused, trex,
                 local, server, file, owner, mislaid>>

NobodyThere == open' = {} /\ owner' = NoSession /\ trex' = Stopped(trex)

(* __stop_server, whose STLError is only a warning, and the wait. *)
StopServer ==
  /\ pc = "stopServer"
  /\ Goto("spawn")
  /\ \/ run \in open /\ server' = Down /\ NobodyThere
     \/ UNCHANGED <<server, open, owner, trex>>
  /\ UNCHANGED <<runVars, connVars, measureVars, ending, runner, excused,
                 local, file, mislaid>>

(* connect() starts the server again at most twice. *)
Starts == tries + 1

(* TRexTrafficServer.run_server: the settings are saved, then t-rex-64 is  *)
(* spawned.  It may fail; next to a running server it does.                *)
Spawn ==
  /\ pc = "spawn"
  /\ Goto("await")
  /\ file' = want
  /\ server' \in IF server = Down THEN {want, Down} ELSE {server}
  /\ mislaid' = (server # Down)
  /\ tries' = Starts /\ polls' = 0
  /\ UNCHANGED <<runVars, measureVars, ending, runner, excused, trex, local, open, owner>>

(* __connect_after_start: the attempts, and after a failed one what        *)
(* /tmp/trex.log says: nothing (0), an error (1), to start again (2).      *)
(* After the third start the answer is not looked at any more.             *)
AwaitServer ==
  /\ pc = "await"
  /\ \/ /\ server # Down
        /\ open' = open \cup {run}
        /\ Goto("reset") /\ UNCHANGED polls
     \/ /\ polls + 1 = RetryCount
        /\ Goto("error") /\ UNCHANGED <<open, polls>>
     \/ /\ polls + 1 < RetryCount
        /\ \/ polls' = polls + 1 /\ Goto("await")
           \/ Goto("sysExit") /\ UNCHANGED polls
           \/ Goto(IF tries < 3 THEN "spawn" ELSE "reset") /\ UNCHANGED polls
        /\ UNCHANGED open
  /\ UNCHANGED <<runVars, tries, measureVars, ending, runner, excused, trex,
                 local, server, file, owner, mislaid>>

(* The end of connect(): the ports are taken, whoever has them; or the     *)
(* server does not answer, or the speeds of its ports differ.              *)
ResetPorts ==
  /\ pc = "reset"
  /\ \/ /\ run \in open
        /\ owner' = run /\ trex' = Silent
        /\ Goto("stage")
     \/ /\ Goto("error")
        /\ UNCHANGED <<owner, trex>>
  /\ UNCHANGED <<runVars, connVars, measureVars, ending, runner, excused,
                 local, server, file, open, mislaid>>

(* ChainManager and the rest of ChainRunner.__init__: only then is the     *)
(* instance assigned to self.chain_runner.                                 *)
Stage ==
  /\ pc = "stage"
  /\ \/ Goto("check") /\ runner' = run
     \/ Goto("error") /\ UNCHANGED runner
  /\ tries' = 0 /\ polls' = 0
  /\ UNCHANGED <<runVars, measureVars, ending, worldVars, excused, trex>>

(* ChainRunner.run: the worker and __setup_traffic; what the configuration *)
(* says of the measurements matters from here on.                          *)
SetupTraffic ==
  /\ pc = "check"
  /\ \/ Goto("run") /\ single' \in BOOLEAN /\ interval' \in Intervals
     \/ Goto("error") /\ UNCHANGED <<single, interval>>
  /\ UNCHANGED <<run, want, connVars, measureVars, ending, runner, worldVars, excused, trex>>

(* A step of a measurement; TRex answers to those who have its ports only. *)
Measure ==
  /\ \/ owner = run /\ Measurement
     \/ owner # run /\ (CallFails \/ MeasurementOffline)
  /\ UNCHANGED <<run, want, connVars, ending, runner, worldVars, excused>>

(* The next frame size, or the next iteration of the search; or the end.   *)
NextMeasurement ==
  /\ pc = "measured"
  /\ \/ Goto("run") /\ polls + 1 < Measurements /\ polls' = polls + 1
     \/ Goto("finally") /\ UNCHANGED polls
  /\ UNCHANGED <<runVars, tries, measureVars, ending, runner, worldVars, excused, trex>>

(* A search survives STLError: this half of the range ends, the other      *)
(* follows or not.  Nothing else does.                                     *)
AfterStlError ==
  /\ pc = "stlError"
  /\ \/ ~single /\ Goto("run") /\ polls + 1 < Measurements /\ polls' = polls + 1
     \/ Goto("finally") /\ UNCHANGED polls
  /\ UNCHANGED <<runVars, tries, measureVars, ending, runner, worldVars, excused, trex>>

RaiseError ==
  /\ pc = "error"
  /\ Goto("finally")
  /\ UNCHANGED <<runVars, connVars, measureVars, ending, runner, worldVars, excused, trex>>

(* Where SystemExit goes: through the finally clause of NFVBench.run. *)
SystemExitTo == "finally"

RaiseSystemExit ==
  /\ pc = "sysExit"
  /\ Goto(SystemExitTo)
  /\ ending' = TRUE
  /\ UNCHANGED <<runVars, connVars, measureVars, runner, worldVars, excused, trex>>

-----------------------------------------------------------------------------
(* The end of a run: self.chain_runner is closed, this run's or, when      *)
(* __init__ raised, still that of an earlier one.                          *)

NothingToClose ==
  /\ pc = "finally" /\ runner \notin open
  /\ Goto("closed")
  /\ excused' = excused \cup ({run} \cap open)
  /\ UNCHANGED <<runVars, connVars, measureVars, ending, runner, worldVars, trex>>

(* ChainManager.delete raised, or a call to TRex other than stop_traffic:  *)
(* the session stays.                                                      *)
CloseFails ==
  /\ pc = "finally" /\ runner \in open
  /\ Goto("closed")
  /\ trex' \in {trex, Stopped(trex)}
  /\ excused' = excused \cup ({runner, run} \cap open)
  /\ UNCHANGED <<runVars, connVars, measureVars, ending, runner, worldVars>>

(* TrafficClient.close of the session: stop_traffic, whose failure is      *)
(* passed over, clear_stats, reset and disconnect.                         *)
CloseRunner ==
  /\ pc = "finally" /\ runner \in open
  /\ Goto("closed")
  /\ open' = open \ {runner}
  /\ owner' = NoSession /\ trex' = Silent
  /\ excused' = excused \cup ({run} \cap open')
  /\ UNCHANGED <<runVars, connVars, measureVars, ending, runner, local, server, file, mislaid>>

(* The next run, or the end of the process. *)
EndRun ==
  /\ pc = "closed"
  /\ run' = run + 1
  /\ ending' = FALSE
  /\ IF ending
     THEN Goto("dead") /\ open' = {}
     ELSE Goto("idle") /\ UNCHANGED open
  /\ ClientGone
  /\ UNCHANGED <<runner,
                 local, server, file, owner, mislaid, excused, trex>>

(* The process is killed; a new one is started later. *)
Kill ==
  /\ pc \notin {"idle", "dead"}
  /\ Goto("dead")
  /\ run' = run + 1 /\ ending' = FALSE
  /\ open' = {} /\ excused' = excused \cup {run}
  /\ ClientGone
  /\ UNCHANGED <<runner,
                 local, server, file, owner, mislaid, trex>>

Relaunch ==
  /\ pc = "dead"
  /\ Goto("idle")
  /\ runner' = NoSession
  /\ UNCHANGED <<runVars, connVars, measureVars, ending, worldVars, excused, trex>>

(* The TRex server dies. *)
ServerDies ==
  /\ server # Down /\ pc # "idle"
  /\ server' = Down /\ NobodyThere
  /\ UNCHANGED <<pc, runVars, connVars, measureVars, ending, runner, local, file,
                 mislaid, excused>>

Program ==
  \/ Connect \/ StopServer \/ Spawn \/ AwaitServer \/ ResetPorts \/ Stage
  \/ SetupTraffic \/ Measure \/ NextMeasurement \/ AfterStlError
  \/ RaiseError \/ RaiseSystemExit
  \/ NothingToClose \/ CloseFails \/ CloseRunner \/ EndRun

Next == BeginRun \/ Program \/ Kill \/ Relaunch \/ ServerDies

Spec == Init /\ [][Next]_vars /\ WF_vars(Program)

-----------------------------------------------------------------------------
(* Properties, with CompleteStats of TrafficRun *)

TypeOK ==
  /\ pc \in {"idle", "connect", "stopServer", "spawn", "await", "reset", "stage",
             "check", "run", "start", "poll", "stats", "yielded", "over",
             "measured", "stlError", "error", "sysExit", "finally", "closed", "dead"}
  /\ run \in Nat \ {0} /\ want \in Settings /\ file \in Settings
  /\ server \in Settings \cup {Down} /\ local \in BOOLEAN /\ mislaid \in BOOLEAN
  /\ single \in BOOLEAN /\ interval \in 0..Duration
  /\ running \in BOOLEAN /\ late \in BOOLEAN /\ failed \in BOOLEAN
  /\ elapsed \in Nat /\ prevTx \in Nat /\ stats \in Nat /\ result \in Nat
  /\ trex \in Trex
  /\ tries \in Nat /\ polls \in Nat /\ ending \in BOOLEAN
  /\ runner \in Nat /\ owner \in Nat /\ open \subseteq Nat /\ excused \subseteq Nat

(* When connect() is through, a local server runs with the settings of     *)
(* this run, also after crashes of either side and runs that failed: the   *)
(* settings file is a true memory of what the server was started with.     *)
(* Unless it was written while a server was up that could not be stopped   *)
(* or did not answer (trex_gen.py:833-952, traffic_server.py:95-110).      *)
ServedAsAsked ==
  pc \in {"stage", "check"} /\ local /\ owner = run /\ ~mislaid => server = want

(* Between runs nothing transmits and no session is connected, but for     *)
(* those a failure kept from being closed: __init__ raised after the       *)
(* connection, ChainManager.delete raised, or the process was killed       *)
(* (nfvbench.py:140-148, chain_runner.py:205-228).                         *)
QuietBetweenRuns ==
  pc = "idle" =>
    /\ open \subseteq excused
    /\ trex.left > 0 => owner \in excused

(* Every run ends, whatever fails and however long the calls take          *)
(* (traffic_client.py:88-112,1321-1334).                                   *)
RunEnds == pc \notin {"idle", "dead"} ~> pc \in {"idle", "dead"}
=============================================================================
