# NFVbench in TLA+

Specifications of [NFVbench](../src/README.rst), a tool that measures the packet
rate of an NFV infrastructure: it brings up chains of loopback VMs in OpenStack,
drives a TRex traffic generator through them, searches the highest rate without
too much loss (NDR/PDR), and takes everything down again. It runs from the
command line or as a REST server.

The modules are translated from the Python code; comments name the lines. TLC
checks them on small instances and TLAPS proves the main results for all values
of the constants. `PROJECT.json` maps every definition to its source lines.

## 1. The system

| Part | Source (`src/`) | State | Operations | Hard about it |
|---|---|---|---|---|
| REST server | `nfvbench/nfvbenchd.py` | class attributes of `Ctx`: queue, busy flag, results, ids, current id | `start_run`, `status`, `status/<id>` in Flask threads; the loop of the main thread | unlocked shared state between threads; main thread that dies |
| Run lock | `nfvbench/utils.py` `RunLock` | lock file, its inode, flock | enter, exit, process death | open, lock and unlink are separate |
| Run lifecycle | `nfvbench/nfvbench.py`, `chain_runner.py` | config, current `ChainRunner` | configure, run all frame sizes, close | failures in each phase, state kept from run to run |
| Chain staging | `nfvbench/chaining.py`, `chain_router.py`, `compute.py` | OpenStack resources, reuse flags, placement | bring up, reuse, wait, delete, unwind | one of many steps fails; leftovers mixed with new resources |
| Cleanup | `nfvbench/cleanup.py` | discovered leftovers | delete by kind | order of deletion |
| NDR/PDR search | `nfvbench/traffic_client.py` `__range_search` | ranges, results, statistics | iterate, split targets | noisy measurements, generator errors, boundaries |
| Traffic runner | `nfvbench/traffic_client.py` `TrafficRunner`, `run_traffic` | start time, counters | run, poll, stop | time, last interval |
| End-to-end check, ARP | `nfvbench/traffic_client.py`, `traffic_gen/trex_gen.py` | MACs still missing | capture, retry, resolve | lost, flooded, duplicated packets |
| Generator configuration | `nfvbench/traffic_client.py`, `utils.py` | address blocks | reserve ranges, distribute flows | arithmetic at boundaries |
| TRex driver | `nfvbench/traffic_gen/*`, `traffic_server.py` | connection, ports, streams | connect, restart, start, stop | retries, packed ids |
| Packet path statistics | `nfvbench/packet_stats.py`, `stats_*.py` | counters | baseline, difference, aggregate | order of readings |
| Fluentd log | `nfvbench/fluentd.py` | counters of the run | start, emit, summary | reset between runs |
| HTTP client | `client/client.py` | elapsed time | start, poll | polls without an id |
| Configuration, CLI, summarizer, workers | `config*.py`, `specs.py`, `factory.py`, `credentials.py`, `log.py`, `summarizer.py`, `chain_workers.py` | – | parsing, formatting | – |
| VM image, containers, CI, tests | `nfvbenchvm`, `docker`, `xtesting`, `behave_tests`, `test`, `kibana` | – | – | – |

How they interact: a Flask thread puts the configuration of a run on the queue
of `Ctx`; the main thread takes it, enters the run lock and calls
`NFVBench.run`. That builds a `ChainRunner`, which starts the traffic generator,
builds a `ChainManager` (all OpenStack resources), programs the generator with
the MACs and VLANs it found, and for each frame size runs a fixed rate or the
NDR/PDR search. `ChainRunner.close` deletes what the manager created. The result
goes back through `Ctx` to whoever polls.

What makes each part correct:

* server: no accepted run is lost, doubled or overtaken; only results of
  finished runs are handed out; a free server really is idle; the busy flag is
  cleared again, or it is known why not; memory stays bounded;
* run lock: one run at a time per host; no lock outlives its process;
* staging: what was there before is never deleted; what was created is deleted
  once, whatever fails; all VMs on one hypervisor, the one asked for, as far as
  the rights of the user let the code see where they are; it ends;
* runs and measurements: the statistics of a measurement count all its packets
  and no others; the TRex server runs with the settings the run asked for;
  nothing transmits between runs; every run ends;
* end-to-end check: it passes exactly when every expected MAC was seen, a
  resolved port was answered by all chains, and it leaves nothing on;
* generator configuration: chains do not share addresses; flows are as many as
  asked, or the user is told; the same holds for the next frame size;
* statistics: the row of a chain is about its own packets, totals count once;
* cleanup: everything goes after a bounded number of passes, and nothing the
  user did not name;
* search: each reported rate was measured and met its target; a stricter target
  never gets more; close to the real rate when there is one; no load measured
  twice; it ends.

Two parts meet unprotected: `nfvbench --status`/`--cleanup` takes the run lock
only to see whether a run is pending, releases it, and then cleans whatever the
answer was (`status_cleanup`), so it may delete the resources of a run that
starts meanwhile. The code takes no precaution there that a property could be
about; `Cleanup` therefore starts when no run is on.

## 2. Modules

| Module | Extends | What it is |
|---|---|---|
| `Server` | | the REST server, one step per access to a shared attribute |
| `RunService` | | what one client at a time sees of it (abstract) |
| `RunLock` | | the lock file |
| `TrafficRun` | | one measurement: the runner's clock and the generator's |
| `RunLifecycle` | `TrafficRun` | runs, processes and the TRex server around measurements |
| `NdrPdrSearch` | | the search |
| `EndToEnd` | | ARP resolution and the connectivity check |
| `FlowRanges` | | the arithmetic of ranges and flow counts; no state |
| `PacketGroups` | | packet group ids; no state |
| `FlowConfig` | `FlowRanges`, `PacketGroups` | from configuration to streams, frame size after frame size |
| `PacketStats` | `PacketGroups` | packet counters from TRex and VNFs to the rows of a report |
| `ChainResources` | | names, creation order and deletion order of the resources of a configuration; no state |
| `ChainStaging` | `ChainResources` | bring-up, unwinding and take-down |
| `Cleanup` | `ChainResources` | `nfvbench --cleanup` |
| `MC...` | the above | the instances TLC checks |
| `ServerProofs`, `RunLifecycleProofs` (with `RunLock`), `NdrPdrProofs`, `EndToEndProofs`, `FlowConfigProofs`, `PacketStatsProofs`, `ChainStagingProofs`, `CleanupProofs` | the above | lemmas, theorems and their proofs |

Each specification module has a group "Seeded faults": variants of its
definitions with a plausible slip (a dropped guard, an off-by-one, a swapped
order). They are part of no specification. Substituted for the definition they
vary, each makes the property named with it in `PROJECT.json` ("mutants") fail,
which shows that the property does depend on the code.

### Server

The variables `runQueue`, `busy`, `result`, `results`, `ids`, `currentId` are the
attributes of `Ctx`. The interpreter lock makes one attribute access atomic and
nothing more, so every read and write is an action: `StartBusyCheck` and
`EnqueueSetBusy` are the two halves of the race in `_start_run`; `EnqueueRaises`
is a body that is no object, which fails between the flag and the queue; the eviction is
`EnqueueLenCheck`, `EnqueuePop`, `EnqueueEvict`, `EnqueueAppend`; a poll by id is
`StatusOf...`, a poll of the latest result `StatusAny...`. `Main` is the loop of
`WebServer.run`. `config` and `mainPc` are locals of the main thread, `pc`, `rid`,
`loc` and `reply` of the handlers. `accepted`, `finished` and `known` are history.
A run is one step with any result; its insides are the other modules.
`mainPc = "dead"` is the main thread after an exception the loop does not catch.

`RunService` is the abstract view: a run goes from new to pending to completed,
and starts only when none is pending. `Server!Service` maps the queue and the
main thread's config to it. The server implements it when one request is served
at a time; with concurrent requests it does not (section 6).

### RunLock

Inodes are numbers, `link` the one the path names. `Open`, `Flock`,
`FlockRefused` are `__enter__`; `Unlock`, `Close`, `Unlink` are `__exit__`;
`Crash` kills a process anywhere, and the kernel drops its lock.

### TrafficRun and RunLifecycle

`TrafficRunner` starts its clock after all ports are started and looks at it only
between its sleeps; TRex stops by itself, `Duration` after its own start. Time is
counted in ticks: a step takes those its sleeps ask for and up to `MaxDelay` more.
`StartTraffic` is `TrafficRunner.run`; `PollStats` is `poll_stats` up to its call
of `get_stats`, its sleep included; `GetStats` is the rest with `log_stats`;
`Consume` is the loop of `run_traffic` with its consumer, `run_fixed_rate`
(`single`) or a search iteration; `TakeResult` is the statistics it keeps. `CallFails` is an
`STLError`, `MeasurementOffline` a measurement whose server is gone. `own` and
`foreign` of `Trex` are history: packets of this measurement and of earlier
traffic that were counted since the counters were cleared.

`RunLifecycle` goes round that. `BeginRun` is `NFVBench.run`; `Connect`,
`StopServer`, `Spawn`, `AwaitServer`, `ResetPorts` are `TRex.connect` with its
starts and restarts of a local server; `Stage` and `SetupTraffic` are the rest of
`ChainRunner.__init__` and the checks before traffic, which succeed or fail;
`NextMeasurement` repeats; `RaiseError`, `RaiseSystemExit`, `NothingToClose`,
`CloseFails`, `CloseRunner`, `EndRun` are the `except` and `finally` of
`NFVBench.run`. `runner` is `self.chain_runner`: it outlives the run in server
mode, so a later run that fails early closes it a second time. Sessions (the
`STLClient`s) are named by the run that opened them; `owner` is the one that
acquired the ports. `file` is `/etc/trex_cfg.yaml`, which the code compares with
the wanted settings as its memory of how the server was started. The outside may
kill the process (`Kill`, then `Relaunch`) and the server (`ServerDies`) at any
time. `mislaid` and `excused` are history and mark what failures explain.

### NdrPdrSearch

`__range_search` recurses into the lower half, then into the upper. Each target
is in exactly one pending call, so instead of a call stack the module keeps the
range `lo[tag]..hi[tag]` of each target; the call that runs next is the lowest
one (`Current`). `Iterate` is an iteration with the split of the targets,
`EndRange` the end of a range (`__targets_found`), `IterationRaises` an
`STLError`, `NoTransmission` the `sys.exit` of `log_stats`, and
`IterationBlocked` an iteration that finds the runner still running after an
earlier error. Loads are integers: the code only halves, exactly, from 0..200%,
so with `Line` a power of two every bound it reaches above the resolution is an
integer. A curve gives the set of drop rates a measurement at a load may return;
one of the curves is "anything".

### EndToEnd

An endpoint is a chain seen from a port, known by the MAC its packets carry, and
several endpoints may share one. `resolve_arp` is `ArpBegin`, `ArpAnswers` (an
attempt: any set of chains answers), `ArpSendFails`, `ArpRetry`, `ArpPortDone`,
`ArpEnd`; the loop of `ensure_end_to_end` is `ClearStats` to `NextCapture`, one
action per call of the TRex client. A capture (`FetchPackets`) holds a packet of
any set of the endpoints, and any packets of other protocols with any MAC: lost,
repeated and flooded packets are all in it. `ClientRaises` lets every call raise.
`answered` and `forwarded` are history.

### FlowRanges, PacketGroups and FlowConfig

`FlowRanges!LimitedSizes` is `limit_ip_udp_ranges` up to its assignments, with
its searches for a number of addresses and ports whose least common multiple is
the flow count; `LcmRaises` is where the helpers fail on empty sets or zero.
`PacketGroups` is `get_pg_id`.

`FlowConfig` follows a configuration into the generator: `UpdateConfig` (flow
counts rounded up, checks), `BuildDevices`, `ProgramGenerator` (lists of VLANs
and MACs, `ListsRefused`), `SetTraffic` (rates), `ConfigureChain` (one round of
`get_stream_configs`: limits, reservation of address blocks, the adjusted UDP
range), `CreateTraffic`, `StartTraffic`, `NextFrame`. What one chain's limits
leave in the device (`dev`: UDP ranges, address step) is there for the next chain
and frame size, as in the code. An address is its offset in its block. `told` and
`exact` are history: a warning was logged; all chains were exact at a frame size.

### PacketStats

`Packet` is one packet of a chain and direction with a fate: it arrives, is lost
before or in the VNF, or comes back to the port that sent it. TRex counts by
packet group and port, the device under test by its interfaces, which are never
cleared. `Baseline` clears and reads, `Collect` is the final reading with its
differences in place, `GetResults` the aggregation over chains with the rules for
shared and missing counters, `NextFrame` the next frame size with the same
`InterfaceStats` objects. `seen` is history.

### ChainStaging

`ChainResources!Plan(g)` is the sequence of everything `ChainManager.__init__`
asks of OpenStack for a configuration `g`, through `Chain.__init__` and
`ChainVnf._setup`. `pos` walks along it; every step may succeed, find the
resource there (`TakeOver`, which sets its reuse flag), or raise. An exception
unwinds through the constructors; `IdleScope`, `NetsScope`, `VnfScope`,
`ChainScope` and `ManagerScope` are what each of their handlers deletes, and
`Raise` stacks them into `todo`. `DeleteVm`, `DeletePort`, `DeleteNetwork` and
`DeleteFlavor` are one attempt of the respective `delete()`, with the retries;
Neutron refuses to delete a network in use (`InUse`). `placer` is
`InstancePlacer`, and `HypervisorName` what it and `_check_hypervisors` are told of
a VM: its host with admin rights, the name that the configuration states without
(`g.admin`, `g.stated`; `NameRaises` when half of that name is missing). `Close` is `ChainRunner.close`. `Interrupt` is control-C.

A call to OpenStack and its effect are one step, since nobody else uses these
names while the run lock is held. The image, which is uploaded and kept, and the
routers, which no object ever deletes, are part of the model. Left out are
lookups that change nothing and the timing of polling; a poll that times out is
one of the failures. A port that is left over without its VM is not among the
resources: ports are looked up on reused VMs only, so a new VM gets a second port
of the same name next to it, and no deletion reaches the first.

### Cleanup

`Discover` collects what the four cleaners find by name (ports and floating IPs
only on networks found), `Ask` is the prompt. `DeleteServer`, `ServersAsked`,
`WaitForServers`, `WaitRaises` are the compute cleaner: Nova deletes a server
some time after it was asked to, or never (`NovaDeletes`). `DeleteFlavor`,
`DeletePort`, `DeleteFloatingIp`, `DeleteNetwork` are one call each, tried once.
The router cleaner asks each router to remove the ports of all routers found and
stops at the first that is foreign (`ForeignInterface`), as the code does.
`passes` counts complete cleanups without a failing call.

## 3. Runs

| Run | Instance | Shows |
|---|---|---|
| `ServerConcurrent` | 2 threads, 3 runs, `MaxLen` 1, main thread may die | order and exactly-once of runs, only finished results, honest "not found", nothing but a body that is no object locks clients out |
| `ServerSerial` | 1 thread, 4 runs, `MaxLen` 2, main thread may die | busy flag, bounded results, refinement of `RunService` |
| `ServerLive` | 2 threads, 2 runs, fair | accepted runs finish, the server gets free again unless such a body came |
| `RunLockThree` | 3 processes, 2 attempts each | overlap only after the unlink race, no stale lock |
| `RunLockDoc` | 2 processes | *violated*: two runs hold the lock (section 6) |
| `RunLifecycle` | 2 runs of 2 measurements, 2 settings, with kills and crashes anywhere | complete statistics, the right server, quiet between runs, runs end |
| `Search` | 2 targets, line 16, epsilon 3, anything-goes and all monotone curves, all faults | all properties of the search |
| `EndToEnd` | 2 chains, own and shared MACs, with ARP before and between captures | exact verdict, honest resolution, nothing left on, the check ends |
| `FlowConfig` | 3778 configurations, three frame sizes | chains apart, exact flow counts or a warning, the same at the next frame size, streams as asked |
| `PacketStats` | 1 and 2 chains, all kinds of counters, 2 frame sizes | rows and totals |
| `Staging` | 12 configurations, 4 of them without admin rights, thousands of sets of leftovers, 2 failing deletions, 2 attempts | all properties of staging |
| `Cleanup` | 5 sets of leftovers of 3 configurations, 3 passes, 1 failing call | what is left after each pass, only what was asked for, it ends |

Bounds, and why they are enough:

* two handler threads: the races are between two accesses of `Ctx`; a third
  thread only repeats one of the roles. Three or four runs with `MaxLen` 1 or 2
  overflow the results and evict. Request ids and threads are interchangeable,
  so the safety runs use symmetry; `ServerLive`, which checks liveness, does not.
* three processes for the lock: one that leaves, one that opened before the
  unlink, one that comes after; the proofs cover any number.
* `RunLifecycle`: `Duration` 3 with intervals 0 and 2 gives runs without
  intervals, and with a last interval shorter than the others; `MaxDelay` 1 makes
  a poll late. Two runs let the second close what the first left, and two
  settings make it restart the server; `RetryCount` 2 tells a first from a last
  attempt. The safety properties are proved for all values.
* `Line` 16 and `Epsilon` 3: five levels of bisection, with a final range
  smaller than epsilon and not equal to it. The proofs cover all values.
* `EndToEnd`: two chains can resolve or forward in different rounds; two captures
  and two attempts are a first and a last one. Proved for all values.
* `FlowConfig`: up to three chains, so that a middle one exists and remainders
  differ; flow counts with few and many divisors; two block sizes, address steps
  1, 3 and random, UDP ranges of one and more ports with steps. `Frames` 64,
  IMIX, 64: a frame size that stands for three, and one again after it. `Corners`
  are five more configurations at which the properties are tight: a first chain
  given nothing, or less; an uneven remainder over nine chains; UDP ranges that
  begin at 1 and at 2. Proved for all values.
  `PortMask` 4 has room for every chain; what happens beyond is proved.
* `PacketStats`: two chains are the least that can be confused, two frame sizes
  the least where a counter can be left over; three packets, with one of others
  before each. `PortMask` 2 leaves room for both chain ids.
* staging: PVP with one or two chains, PVVP, EXT, shared and private networks,
  idle interfaces, management port and floating IP, routers, `no_cleanup`, and
  three hypervisors in two AZs. Four configurations are without admin rights: the
  stated hypervisor is the one asked for, or is not, or is stated by half; one chain
  of two VMs or two chains, so that the first VM and a later one, reused and new
  ones come apart. Each configuration is combined with sets of leftovers
  (by kind, VNF by VNF without admin rights, or resource by resource for the
  shared PVVP case), with VMs that
  cannot be reused and every placement. `Retries` 2 tells a first from a last
  attempt. `MaxFaults` 2 lets a floating IP fail after its port, or two
  deletions in different scopes. Failures of creation are not bounded.
* `Cleanup`: the leftovers of a PVVP, a furnished PVP and a routed run, whole or
  without servers; every kind of answer at the prompt, repeated as often as the
  user likes; `MaxPolls` 2 has Nova in time and too late. The safety properties
  are proved for any leftovers with the names of a run and any answers.

Fairness: `ServerLive` assumes weak fairness of the main thread and of each
handler that has a request (the operating system schedules threads, none of them
waits for another but on the queue); no client has to send anything. A dead main
thread is a separate constant (`MainMayDie`), FALSE there: what it does to clients is
said by `FreeMeansIdle`, not by the liveness properties. The search, the
staging, the connectivity check, the program of `RunLifecycle` and the cleanup
are single threads whose every wait has a bound (a count of attempts, or a
duration), so weak fairness of their next step is what running means. Nothing is
assumed of TRex, which may die, nor of Nova, which may never delete.

Deadlock is checked in the server runs and in `Cleanup`, where the state graph
must have no end. The other systems stop when their work is done, so it is not
checked there; `SearchEnds`, `CheckEnds` and `RunEnds` say that they stop only in
an end state.

## 4. Properties worth knowing

* `RunsExactlyOnceInOrder`: the sequence of accepted runs is the finished ones,
  then the one in hand, then the queue; in spite of the race in the busy check.
* `NotFoundIsHonest`: a poll by id is told "not found" only if that run has no
  result yet or its id has been dropped.
* `ServerBecomesFree`, `OnlyBadBodiesLockOut`: in spite of runs that end while
  others are queued, the busy flag is cleared again and again. One thing leaves it
  set for ever, a body that is no object (section 6), and then no run is on its way
  either (`LockedOut`). The first needs fairness; the second says at which step it
  happens and is proved.
* `OverlapNeedsUnlinkRace`: the one hole of the run lock is the one named.
* `CompleteStats`: whatever the two clocks and the sleeps do, the statistics of a
  measurement count all packets sent in it; packets of earlier traffic are among
  them only after a failed call, and a fixed rate run that is polled late is the
  one exception (section 6).
* `ServedAsAsked`: after any sequence of failed runs, kills and crashes, the
  settings file is a true memory of what the server was started with. The one
  exception is a file saved while another server stayed up.
* `QuietBetweenRuns`: in spite of the chain runner kept from an earlier run, only
  failures that are named leave sessions or traffic behind.
* `StricterIsLower`, `AnnouncedIsRecorded`, `RecordedIsMeasured`,
  `NoLoadMeasuredTwice`, `WithinEpsilon`: the search, under any noise and error
  except for the last, which needs a monotone curve and no error.
* `VerdictIsExact`: however packets are spread over captures. It speaks of MACs;
  that it means chains is a theorem for endpoints with MACs of their own only.
* `ChainsApart`, `UntoldIsExact`: the two devices reserve in each other's address
  block with sizes that change from chain to chain; if nothing was logged, the
  number of flows is the one asked for.
* `ExactStaysExact`: what worked for one frame size works for every later one,
  where each chain makes the same choice (`Repeatable`): flows that divide evenly,
  one chain or static addresses, UDP ranges that begin above 1. Without each of
  these conditions there are configurations for which it fails; the attempt to
  prove it without the last two found theirs (section 6).
* `TrafficAsAsked`: ports transmit the streams of this frame size for every chain,
  with the flows of the direction in total, and counters tell them apart.
* `RowsAreTheChains`, `TotalsCountOnce`: no packet appears in the row of another
  chain, direction or frame size. The conditions name where the code cannot tell
  counters from missing ones.
* `ReusedNeverDeleted`: matters because the ports of a reused VM carry no reuse
  flag; only that their VM skips the deletion protects them.
* `OneHypervisor`: with admin rights all VMs, reused and new, end on one hypervisor
  that the configuration allows. Without, a reused VM may be anywhere and the first
  new one anywhere it was asked to be; every new VM before which there was another
  is on the hypervisor whose name was accepted, if one was. That is all the code
  achieves there (section 6).
* `LeavesWhatItFound` with `MayOutlive`: the complete list of what a run may
  leave behind. Each entry is a weakness of the code worth knowing: routers,
  networks they use, a flavor without extra specs, the floating IP of a reused
  VM, idle networks of a VNF that failed on its idle ports. It is about runs that
  failed or were closed. A run whose `ChainRunner` raises after staging
  ("abandoned", section 6) or that control-C ends ("interrupted") leaves everything.
* `NothingDeletedTwice`: the scopes of the handlers do not overlap.
* `LeftAfterPasses`: one complete cleanup leaves at most one router, a second no
  router, a third only the image and servers Nova is slow to delete.
* `OnlyWhatWasAsked`: no cleaner touches a kind the user did not name, by letters
  or by a complete name, which may hold the letters of other kinds ("networks,
  ports and floating ips" has those of "router", "flavor" and "instances").

## 5. Proofs

All proofs are checked by TLAPS with its SMT, Zenon and PTL backends.

**Server** (`ServerProofs`), for any number of threads, ids and any `MaxLen`:

* `ServerTyping`, and `RunsInOrder`, whose invariant adds only where ids are held
  (`HandlersHoldIds`, `MainHoldsRun`).
* `ResultsOfFinishedRuns` from `ResultsAreReal`: a result in any local, in
  `Ctx.result` or in `Ctx.results` is of a finished run.
* `NotFoundIsTrue` from `IdsAreFresh` and `FinishedAreKept`: an id is in `Ctx.ids`
  once, under no other request, never again once dropped; and as long as it is
  there or about to be, its finished run has its result. Handlers between two
  accesses make this intricate: an eviction may pop an id while another handler
  is about to append one.
* `LockOutsComeFromBodies`, by the steps that can lead into `LockedOut`: `release()`
  clears the flag, a handler that sets it stands before the queue, one that leaves
  it has queued a run or failed. `AnswersLast` (no handler has an answer while still
  at work) makes the failure the answer given in that step.
* For one request at a time: `FreeServerIsIdle`, `DeadServerStaysBusy` (a dead
  server stays busy for ever, with nothing queued) and
  `ServerImplementsRunService`, from `OneRunAtATime`, which ties the busy flag to
  the one place the pending run can be in: the handler, the queue or the main
  thread. The refinement follows step by step: `EnqueuePut` is `Submit`,
  `ReleaseBusy` is `Complete`, all others stutter. `ResultsStayBounded` needs
  `ResultsAreListed` besides: every result is listed in `Ctx.ids` or is being
  enlisted or dropped.

**Run lock** (first part of `RunLifecycleProofs`), for any set of processes: `LockTyping`,
`OverlapOnlyAfterRace` and `NoLockOutlivesItsRun`, from the invariant that
descriptors match the program counter, an inode has one holder, and before a race
every open descriptor is of the file the path names.

**Runs and measurements** (`RunLifecycleProofs`), for all settings, durations,
delays, intervals and bounds: `TypeCorrect`; `Served` from `ServedInv` (the
file is what a running server was started with, and past the start it is what the
run wants); `Quiet` from `QuietInv` (what is connected is excused or the current
run's, and nothing transmits on ports nobody has); `Complete` from `StatsInv`:
`CountInv` (the counter is own plus foreign packets), `LeftoverInv` (traffic still
on before a measurement needs a failed call), `StopInv` (a runner without a clock
has stopped its traffic) and `ResultInv` (what it then keeps is the counter).

**Search** (`NdrPdrProofs`), for any set of targets, any line rate and epsilon,
any curve: `SearchTyping`, `AnnouncedLoadIsRecorded`, `StricterTargetIsLower`,
`LoadsAreMeasuredOnce`, `ResultsAreMeasured`, `ResultIsWithinEpsilon`. The
inductive invariant `Inv` says that ranges are proper, that a stricter target is
in the same call as a laxer one or in one entirely below (`RangesOrdered`), that
targets of one call are announced together, and that record and announcement are
the left bound. `StricterIsLower` is not inductive without it: it says nothing
of targets still searched. For "measured once" the invariant is extended with
`RangesUnmeasured` (no load strictly inside a pending range was measured), for
"within epsilon" with `RightBoundFails` (above the right bound everything drops
too much) and `AnnouncedWhenFinal`. Assumptions: `SearchAssumption`, in
particular `Epsilon >= 2` in load units, that is a resolution fine enough for
halving to stay in integers.

**Connectivity** (`EndToEndProofs`), for any finite set of chains, any sharing of
MACs and any numbers of retries: `TypeCorrect`; `Verdict` from `MapInv` (what is
still in `macMap` is what no capture has shown); `OwnMacsAllForward`, which turns
the verdict about MACs into one about chains; `Resolved` from `ArpInv` (the
running count is the cardinality of the set of chains found, so a repeated answer
cannot count twice); `Quiet` from `QuietInv`, which lists where traffic, capture
and service mode can be on.

**Packet groups and statistics** (`PacketStatsProofs`):
`FittingIdsAreApart`, for any power of two the ids of up to `PortMask` chains
differ, and `NextChainClashes`, the bound is exact; `RowsOfChains`, for any number
of chains within it, any frame sizes and any fate of any number of packets, from
`RowsInv`: while traffic runs, TRex's counters of a chain's groups are what was
seen of its packets and the VNF's are ahead of the baseline by it
(`FlowsAreSeen`), and the collected differences are what was seen
(`CollectedIsSeen`). `RowsOfChains` rests on `FittingIdsAreApart`: without it a
packet of one chain would count for another.
`TotalsOfChains`, for the total rows, shared interfaces and missing counters: the
sums over chains are recursive functions under `CHOOSE`, which exist and are what
their equations say by `IntervalInduction` (see Staging; `SumIs`, `TotalIs`). From
these, a total of counts is their sum (`TotalIsSum`), that of a shared interface
its one count (`TotalOfOne`), and that of missing counts what the last chain is
told (`TotalOfMissing`). The invariant adds that shared interfaces are ahead of
the baseline by what *all* chains saw (`SharedIsSeen`), that only the last chain
has a total of its port (`TotalsTyping`), and that it is the port's where counts
are marked missing (`MissingIsMarked`).

**Staging** (`ChainStagingProofs`), for every configuration
(any number of chains and idle interfaces), any leftovers, hypervisors, retries
and failures: `TypesHold`, `NeverDeletesReused`, `OneHypervisorHolds`,
`DeletedOnce` and `LeavesAsFound`: type correctness and all invariants of the run.

The plan of a run is put together by concatenation, so everything about it needs
induction over sequences. The induction theorems of the library take an operator
and cannot be instantiated here; `IntervalInduction` is induction over `0..n`
with a *set* in place of the operator, from the pigeonhole theorem for finite
sets. With it `FlattenSeq`, whose value is a recursive function under `CHOOSE`,
gets its two equations (`ConcatStep`), and from these come the elements and the
order of a concatenation (`ConcatAll`, `ConcatOrdered`). `PlanIs` then says which
steps a plan has, and `PlanOrdered` that it is strictly ordered by a key of each
step (phase, chain, part, VNF, operation, index), whence `PlanProgress`: at any
position, what is done is what has an earlier key. `VnfDeletionIs`,
`ChainDeletionIs` and `ManagerDeletionIs` say the same of what the `delete()`
methods go through: which resources, and in an order in which no network comes
before what keeps it in use. One handler violates that, the one of
`_get_idle_networks_ports` (section 6); `DeletionPairs` allows for it.

The inductive invariant `Whole` has five parts, each inductive given the earlier:

* `Safe`: what was there before is not pending deletion. It needs to know that
  what a step finds was there before the run (`FoundBefore`: had the run created
  it, its own step would be done, and a plan has no step twice) and that a held
  resource that was there before is a port of a reused VM.
* `Placed`, by the names the code compares: reused VMs of checked chains are said to
  be on the hypervisor required; new ones are where the configuration allows and,
  once there is a requirement, on the hypervisor required, but for the first one
  without admin rights (`FirstVm`; that there is only one needs the order in which
  VMs are looked up and created, `VmsInOrder`); and once a VM's step of placing is
  done the requirement is one hypervisor, unless the stated name was not accepted.
  `OneHypervisor` says something only of the end; this says how far it has got at
  every position of the plan. With admin rights a name is a host, so the names say
  where all VMs are.
* `Tidy`: what is pending exists, all pending scopes together are in order and
  without repetition (`RaisedOrdered`, the heart of `DeletedOnce`), and after a
  failed attempt the target was excused or is a network in use.
* `Clean`: while staging, everything created is held, but for images and routers,
  so that the scopes of a failing step cover it (`Coverage`: they have no gap).
* `Left`: what the run created and is not pending may stay, where a network held
  by something *not pending* may stay too (`MayStay`). When nothing is pending
  that is `LeavesWhatItFound`.

Every step of `Stage` is one of nine shapes (`StageSteps`) and every attempt at
deletion one of three (`DeletionSteps`), so each part is proved for the shapes.
TLC has checked the five parts on the instance of the run `Staging` too.

**Generator configuration** (`FlowConfigProofs`), for every configuration that the
program accepts (any chains, flows, blocks, steps, UDP ranges, lists) and any
frame sizes: `ChainsStayApart`, `UntoldConfigsAreExact`, `TrafficIsAsAsked`, all
from `FlowsHangTogether`, and `ExactFramesStayExact`.

The code chooses greatest elements of lists of pairs by least common multiples.
What a `CHOOSE` of a greatest element returns needs that there is one
(`BoundedHasGreatest`, by `IntervalInduction`, see Staging); that the least
common multiple behaves as one is proved from division with remainder, without
prime factors (`RemainderTells`, `DividesAntisymmetric`). `FourDivisors` then
says when the multiple of four sizes that the limits found is the flow count.

The inductive invariant `FlowInv` has seven parts: the configuration is one that
the program accepts, raised to two flows per chain (`OptionsUpdated`); the devices
have ranges of the right type, one of their sizes positive, as a port number that
became a size may make the end of a range negative (`DevicesBuilt`); the configs
come chain by chain with their counts (`ConfigsInOrder`) and the reservations of
both blocks are behind all of them (`BlocksReserved`); TRex has the streams of the
configs (`StreamsHanded`); and `ChainsApart` and `UntoldIsExact` themselves, which
are not inductive without the others.

`ExactStaysExact` compares frame sizes, so `SteadyInv` follows the devices through
them: a range keeps its first port (`MinsKept`), a rate that was enough stays enough
(`RatesFit`), every device that has been configured exactly is `Steady`, that is,
the same choice from what it left is exact again (`ConfiguredSteady`,
`ExactSteady`), and the blocks are shared evenly (`ReservedEvenly`). The heart is
`AccurateStays`: the sizes a choice leaves are divisors of the flow count, and
choosing once more from them changes nothing that matters.

**Cleanup** (`CleanupProofs`), for any leftovers that carry the names runs give and
are on networks that are left too, any answers, failing calls, polls and orders of
discovery: `CleanupIsFollowed`, `ThreePassesLeaveNothing`, `NothingElseIsCleaned`.
`LeftAfterPasses` speaks only of the ends of passes; `CleanInv` says how far a
pass has got: the types; a kind is cleaned only if it was asked for; what a phase
has to delete was found before it (`FoundAhead`) and is gone after it
(`GoneBehind`), both only of cleanups of everything without a failed call so far;
where in the lists of routers and interfaces the router cleaner is
(`RoutersAhead`): while no router has been handled, the list begins with all
interfaces of its first router, so at least one router goes in each pass; and
what complete passes left (`GoneForGood`). That a network goes in a pass needs
that no router holds it any more, hence the number of passes in `GoneBehind`.

`FlowInv`, `SteadyInv` and `CleanInv` were checked by TLC before they were proved.

**Only model-checked**, and why: every invariant of the passing runs and every
action property is proved, and so is the refinement of `RunService`. What remains
is liveness (`EveryAcceptedRunFinishes`, `ServerBecomesFree`, `SearchEnds`,
`CheckEnds`, `EveryCleanupEnds`, both `RunEnds`): fairness and `ENABLED` are out of
the prover's reach. The property of `RunLockDoc` is false.

## 6. Findings

`PROJECT.json` quotes the documentation or comment for each.

* Run lock (run `RunLockDoc`): the lock file is unlinked after it is unlocked, so
  two runs may hold "the" lock.
* Server: two concurrent `start_run` may both be accepted. A run that was accepted
  is "not found" until the main thread has made it the current one. `sys.exit(0)`
  in a run ends the main thread of the server, which then answers "pending" for
  ever. A `start_run` with a JSON body that is no object, such as a list, sets the
  busy flag, fails with status 500 on the next line and leaves the server busy for
  ever with nothing queued.
* Measurements: the search does not stop when the generator cannot send the
  requested rate. A last interval shorter than the start of the ports took has no
  packets and ends the process. The loop of `run_traffic` tests a method instead
  of its result, so a fixed rate run that is polled late keeps the statistics of
  before its stop.
* TRex server: when it does not stop, new settings are saved, the old server
  answers, and every later run takes it for one with the new settings.
* Staging: the handler for idle networks deletes them before the ports on them. An
  exception in `ChainRunner.__init__` after the manager is complete leaves
  everything behind. Idle networks are also created with shared networks. PVVP
  with routers always fails. Without admin rights the check that reused VMs are on
  one hypervisor compares a configured name with itself, and the wait for the first
  VM requires that name of all others wherever the first one is. A floating IP whose deletion failed once is never
  tried again.
* Cleanup: networks are cleaned before the routers that use them, and each router
  stops at the first port of another, so up to three cleanups are needed.
* Connectivity: endpoints that share a MAC are one entry, so a chain that forwards
  nothing can pass behind another.
* Generator configuration: fixed steps are recommended "for
  deterministic flow count", but the sizes and ends that one chain leaves in its
  device are where the next chain and the next frame size begin. With 12 flows,
  16 addresses by steps of 3 and UDP ports 1 to 5, three frame sizes have 12, 12
  and 6 flows. With 200 flows over nine chains the first, with its smaller rest,
  changes the sizes the others then have to choose from.
* Generator configuration: with many chains and few flows the first chain may be
  given no flows, or a negative number, and fails. A UDP port number is used as the
  size of a range. The list of VTEP MACs is handed whole to each chain. Above 128
  chains packet group ids clash.
* Statistics: the total received by a port stays in its row when a later frame size
  has flow statistics again.

## 7. Not modelled

* Layout and parsing (summarizer, configuration files, command line, merging of
  the configuration of a run), credentials, the VM image, containers, CI and
  tests: no state that another part depends on.
* The contents of packets and streams (scapy headers, latency percentiles, unit
  conversion) and the dummy generator; collectors of intervals, which only store.
* Fluentd's counters of warnings and errors decide nothing in the program, and
  what they must count is documented nowhere. The HTTP client is a loop over one
  request; what it may be answered is in `Server`.
* In staging: multiqueue, the lists of VLANs, VNIs and remote MACs, the discovery
  of hosts of EXT chains. In the lifecycle: runs without traffic, the loop over
  several loads of a fixed rate run.
* Abstracted: a measurement is a drop rate to the search and a count of packets to
  `TrafficRun`; OpenStack answers at once or fails in staging, where Nova's
  asynchronous deletion is "gone, or given up on"; in `Cleanup` it is a step.

Known hazards without a property: `GET /status` reads and clears the last result
in two steps; a refused `RunLock` leaves its descriptor open; Fluentd's counters
are reset twice per run; a client that polls without an id may take away another's
result; `status_cleanup` releases the lock before it cleans. In each case no
document promises what a property could state.

## 8. Plan

What is left, by what it would add:

1. the composition of `Server` with `RunLock` and with clients that poll, to state
   what one of several clients is promised;
2. the several loads of a fixed rate run in `RunLifecycle`, and `NdrPdrSearch` as
   the driver of its measurements;
3. the lists handed from staging to the generator (VLANs, MACs, VNIs), which join
   `ChainStaging` with `FlowConfig!ProgramGenerator`.

## 9. Checking it

    tlc -workers 2 -config Staging.cfg MCChainStaging.tla
    tlapm RunLifecycleProofs.tla

`Staging`, `ServerLive` and `RunLifecycle` take one to three minutes, the others
less; `ServerProofs`, `RunLifecycleProofs` and `FlowConfigProofs` take a few minutes
each from nothing, `ChainStagingProofs` about ten.
