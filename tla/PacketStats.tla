---------------------------- MODULE PacketStats ----------------------------
(***************************************************************************)
(* The packet counters of fixed rate runs: StatsManager.run_fixed_rate,    *)
(* the per-stream counters of TRex transposed into interface counters      *)
(* (TRex.get_stream_stats, TrafficClient.update_interface_stats) and their *)
(* aggregation over chains (packet_stats.py).                              *)
(*                                                                         *)
(* The path of a chain has four interfaces: port 0, the two of the VNF     *)
(* that a worker puts between, and port 1.  The InterfaceStats objects     *)
(* live for all frame sizes of the run.                                    *)
(***************************************************************************)
EXTENDS PacketGroups, Sequences, FiniteSets

CONSTANTS
  Configs,   (* the configurations to check                                *)
  Bursts,    (* bounds: how many packets of each frame size                *)
  Others     (* bound: packets of others before each of them               *)

Ports == {0, 1}
Kinds == {"flow", "latency"}
Fates == {"arrives", "lostInVnf", "lostBefore", "comesBack"}

(* chains: their number; flows, latency: whose packets TRex counts by      *)
(* packet group (no_flow_stats, no_latency_stats); shared: the VNF         *)
(* interfaces are shared by all chains.                                    *)
ConfigSet == [chains : Nat \ {0}, flows : BOOLEAN, latency : BOOLEAN, shared : BOOLEAN]

ASSUME PacketStatsAssumption ==
  Configs \subseteq ConfigSet /\ Bursts \in Seq(Nat) /\ Others \in Nat

(* What a row shows instead of a count: '' and None. *)
Hidden == -1
Missing == -2

VARIABLES
  pc,
  cfg,
  frame,     (* frame sizes done                                           *)
  burst,     (* packets since the last phase change                        *)
  (* outside the program *)
  flowStats, (* TRex: flow_stats, by packet group and port                 *)
  portStats, (* TRex: packets received per port, of any kind               *)
  vnfStats,  (* the device under test: counters that are never cleared     *)
  (* InterfaceStats *)
  ifStats,   (* of the generator's ports: by chain and port                *)
  midStats,  (* of the VNF: by chain and side                              *)
  results,   (* get_results: the rows of the last frame size               *)
  (* history, never read by the program *)
  seen       (* what happened to the packets of this frame size            *)

vars == <<pc, cfg, frame, burst, flowStats, portStats, vnfStats, ifStats,
          midStats, results, seen>>

Chains == 0..(cfg.chains - 1)
LastChain == cfg.chains - 1

(* The packet groups TRex keeps counters for. *)
Counted == {PgId(p, c) : p \in {q \in Ports : cfg.flows}, c \in Chains}
     \cup {LatPgId(p, c) : p \in {q \in Ports : cfg.latency}, c \in Chains}

Group(p, c, kind) == IF kind = "flow" THEN PgId(p, c) ELSE LatPgId(p, c)

Zero == [p \in Ports |-> 0]
Cleared == [g \in Counted |-> [tx |-> Zero, rx |-> Zero]]

(* The sum of f over the chains. *)
Sum(f) ==
  LET upTo[n \in 0..cfg.chains] == IF n = 0 THEN 0 ELSE upTo[n - 1] + f[n - 1]
  IN upTo[cfg.chains]

-----------------------------------------------------------------------------
(* Seeded faults.  Each is one of the definitions below with a plausible   *)
(* slip; substituted for it, it must make a property fail.                 *)

(* The receive counters are not transposed: looked up under the own port. *)
ReceivedUntransposed(c, p) ==
  LET groups == {PgId(p, c), LatPgId(p, c)} \cap Counted
      both == PgId(p, c) \in groups /\ LatPgId(p, c) \in groups
  IN IF groups = {} THEN 0
     ELSE IF both THEN flowStats[PgId(p, c)].rx[p] + flowStats[LatPgId(p, c)].rx[p]
     ELSE flowStats[CHOOSE g \in groups : TRUE].rx[p]

(* `if not ifstats.shared` forgotten. *)
TotalOfShared(counts, totals, shared) ==
  LET plus(a, b) == IF b \in {0, Missing} THEN a ELSE IF a = Missing THEN b ELSE a + b
      upTo[n \in 0..LastChain] ==
        IF n = 0 THEN counts[0] ELSE plus(plus(upTo[n - 1], counts[n]), totals[n])
  IN upTo[LastChain]

-----------------------------------------------------------------------------
(* The counters of one interface *)

(* The packets of chain c that port p sent: get_stream_stats for           *)
(* if_stats[port].tx.  A group without counters is skipped.                *)
OfGroup(g, way, p) == IF g \in Counted THEN flowStats[g][way][p] ELSE 0

Sent(c, p) == OfGroup(PgId(p, c), "tx", p) + OfGroup(LatPgId(p, c), "tx", p)

(* Those of chain c that port p received: counted on this port for the     *)
(* streams of the other one.                                               *)
Received(c, p) ==
  OfGroup(PgId(1 - p, c), "rx", p) + OfGroup(LatPgId(1 - p, c), "rx", p)

(* The port received packets, but none that a group counted: the code      *)
(* takes that for missing flow statistics (VxLAN).                         *)
Unavailable(p) ==
  /\ Sum([c \in Chains |-> Received(c, p)]) = 0
  /\ portStats[p] > 0

(* added_counter *)
Added(old, new) ==
  IF new \in {0, Missing} THEN old ELSE IF old = Missing THEN new ELSE old + new

(* One interface of the aggregated path: a clone of the first chain's, to  *)
(* which the others are added with their rx_total unless it is shared.     *)
Total(counts, totals, shared) ==
  LET upTo[n \in 0..LastChain] ==
        IF n = 0 \/ shared THEN counts[0]
        ELSE Added(Added(upTo[n - 1], counts[n]), totals[n])
  IN upTo[LastChain]

(* The interfaces of a path, in the direction `from` which port it goes:   *)
(* TX of a port, RX and TX of the VNF, RX of the other port.               *)
PathCounts(c, from) ==
  <<ifStats[c][from].tx, midStats[c][from].rx, midStats[c][1 - from].tx,
    ifStats[c][1 - from].rx>>

NoTotals == [c \in Chains |-> 0]

TotalRow(from) ==
  LET column(i) == [c \in Chains |-> PathCounts(c, from)[i]]
      rxTotals == [c \in Chains |-> ifStats[c][1 - from].total]
  IN <<Total(column(1), NoTotals, FALSE), Total(column(2), NoTotals, cfg.shared),
       Total(column(3), NoTotals, cfg.shared), Total(column(4), rxTotals, FALSE)>>

(* Shared counters are shown in the total only. *)
ChainRow(c, from) ==
  [i \in 1..4 |-> IF i \in {2, 3} /\ cfg.shared THEN Hidden ELSE PathCounts(c, from)[i]]

-----------------------------------------------------------------------------
(* A run over all frame sizes *)

Unseen == [p \in Ports |-> [c \in Chains |->
             [sent |-> 0, in |-> 0, out |-> 0, arrived |-> 0]]]

Init ==
  /\ pc = "baseline"
  /\ cfg \in Configs
  /\ frame = 0 /\ burst = 0
  /\ flowStats = Cleared
  /\ portStats = Zero
  /\ vnfStats = [c \in Chains |-> [p \in Ports |-> [tx |-> 0, rx |-> 0]]]
  /\ ifStats = [c \in Chains |-> [p \in Ports |-> [tx |-> 0, rx |-> 0, total |-> 0]]]
  /\ midStats = [c \in Chains |-> [p \in Ports |-> [tx |-> 0, rx |-> 0]]]
  /\ results = <<>>
  /\ seen = Unseen

(* Packets of the connectivity checks, or of anybody, cross the VNFs while *)
(* nothing is measured.                                                    *)
OtherPackets(c, p) ==
  /\ pc = "baseline" /\ burst < Others
  /\ burst' = burst + 1
  /\ vnfStats' = [vnfStats EXCEPT ![c][p].rx = @ + 1, ![c][1 - p].tx = @ + 1]
  /\ UNCHANGED <<pc, cfg, frame, flowStats, portStats, ifStats, midStats, results, seen>>

(* What the VNF interface of a chain shows: with shared interfaces the     *)
(* packets of all chains.                                                  *)
VnfCount(c, p, way) ==
  IF cfg.shared THEN Sum([d \in Chains |-> vnfStats[d][p][way]]) ELSE vnfStats[c][p][way]

(* InterfaceStats.update_stats *)
Updated(ifs, tx, rx, diff) ==
  IF diff THEN [tx |-> tx - ifs.tx, rx |-> rx - ifs.rx] ELSE [tx |-> tx, rx |-> rx]

(* The worker updates the interfaces it inserted. *)
WorkerUpdate(diff) ==
  midStats' = [c \in Chains |-> [p \in Ports |->
    Updated(midStats[c][p], VnfCount(c, p, "tx"), VnfCount(c, p, "rx"), diff)]]

(* run_fixed_rate: the baseline, for which the client does nothing, and    *)
(* the start of traffic, which clears the counters of TRex.                *)
Baseline ==
  /\ pc = "baseline"
  /\ WorkerUpdate(FALSE)
  /\ flowStats' = Cleared /\ portStats' = Zero
  /\ pc' = "traffic" /\ burst' = 0
  /\ UNCHANGED <<cfg, frame, vnfStats, ifStats, results, seen>>

(* A packet of a stream of chain c leaves port p and meets its fate.       *)
Packet(p, c, kind, fate) ==
  /\ pc = "traffic" /\ burst < Bursts[frame + 1]
  /\ burst' = burst + 1
  /\ LET g == Group(p, c, kind)
         to == IF fate = "comesBack" THEN p ELSE 1 - p
         received == fate \in {"arrives", "comesBack"}
         entered == fate \in {"arrives", "lostInVnf"}
         sentStats == IF g \in Counted THEN [flowStats EXCEPT ![g].tx[p] = @ + 1] ELSE flowStats
     IN /\ flowStats' = IF g \in Counted /\ received
                        THEN [sentStats EXCEPT ![g].rx[to] = @ + 1] ELSE sentStats
        /\ portStats' = IF received THEN [portStats EXCEPT ![to] = @ + 1] ELSE portStats
        /\ vnfStats' = [vnfStats EXCEPT
             ![c][p].rx = @ + IF entered THEN 1 ELSE 0,
             ![c][1 - p].tx = @ + IF fate = "arrives" THEN 1 ELSE 0]
        /\ seen' = [seen EXCEPT
             ![p][c] = [sent |-> @.sent + 1,
                        in |-> @.in + IF entered THEN 1 ELSE 0,
                        out |-> @.out + IF fate = "arrives" THEN 1 ELSE 0,
                        arrived |-> @.arrived + IF fate = "arrives" THEN 1 ELSE 0]]
  /\ UNCHANGED <<pc, cfg, frame, ifStats, midStats, results>>

(* update_interface_stats(diff=True): by chain and port, and the special   *)
(* handling of a port without flow statistics.  rx_total is only ever set. *)
Collect ==
  /\ pc = "traffic"
  /\ ifStats' = [c \in Chains |-> [p \in Ports |->
       [tx |-> Sent(c, p),
        rx |-> IF ~Unavailable(p) THEN Received(c, p)
               ELSE IF cfg.chains = 1 THEN portStats[p] ELSE Missing,
        total |-> IF Unavailable(p) /\ cfg.chains > 1 /\ c = LastChain
                  THEN portStats[p] ELSE ifStats[c][p].total]]]
  /\ WorkerUpdate(TRUE)
  /\ pc' = "collected"
  /\ UNCHANGED <<cfg, frame, burst, flowStats, portStats, vnfStats, results, seen>>

(* PacketPathStatsManager.get_results: the rows of both directions. *)
GetResults ==
  /\ pc = "collected"
  /\ results' = [p \in Ports |->
       [chains |-> [c \in Chains |-> ChainRow(c, p)],
        total |-> IF cfg.chains > 1 THEN TotalRow(p) ELSE <<>>]]
  /\ pc' = "reported"
  /\ UNCHANGED <<cfg, frame, burst, flowStats, portStats, vnfStats, ifStats, midStats, seen>>

(* The next frame size, or the end. *)
NextFrame ==
  /\ pc = "reported"
  /\ frame' = frame + 1
  /\ pc' = IF frame + 1 = Len(Bursts) THEN "done" ELSE "baseline"
  /\ burst' = 0
  /\ results' = <<>> /\ seen' = Unseen
  /\ UNCHANGED <<cfg, flowStats, portStats, vnfStats, ifStats, midStats>>

Next ==
  \/ \E c \in Chains, p \in Ports : OtherPackets(c, p)
  \/ Baseline
  \/ \E p \in Ports, c \in Chains, kind \in Kinds, fate \in Fates : Packet(p, c, kind, fate)
  \/ Collect \/ GetResults \/ NextFrame

Spec == Init /\ [][Next]_vars

-----------------------------------------------------------------------------
(* Properties *)

(* With counters for every packet, the row of a chain shows what its own   *)
(* packets of this frame size did, at each of the four interfaces: no      *)
(* packet of another chain, of the other direction, or from before the     *)
(* measurement.  Not for a port that received only packets no group counts *)
(* there: the code takes its counters for missing.  The transposition of   *)
(* counters (trex_gen.py:262-280, "tricky/critical") and the differences   *)
(* in place (packet_stats.py:98-111).                                      *)
RowsAreTheChains ==
  pc = "reported" /\ cfg.flows /\ cfg.latency /\ cfg.chains <= PortMask =>
    \A p \in Ports, c \in Chains :
      LET row == results[p].chains[c]
          mine == seen[p][c]
      IN /\ row[1] = mine.sent
         /\ ~cfg.shared => row[2] = mine.in /\ row[3] = mine.out
         /\ ~Unavailable(1 - p) => row[4] = mine.arrived

(* The total row counts every packet once: the sum over the chains, also   *)
(* where they share an interface, and where the chains' counts are missing *)
(* what the port received.  Unless an earlier frame size left its total    *)
(* for a port that has counts again (packet_stats.py:77-95,160-191,        *)
(* traffic_client.py:1436-1460).                                           *)
LeftOver(p) == ifStats[LastChain][p].total > 0 /\ ~Unavailable(p)

TotalsCountOnce ==
  pc = "reported" /\ cfg.chains > 1 /\ cfg.chains <= PortMask =>
    \A p \in Ports :
      LET total == results[p].total
          all(what) == Sum([c \in Chains |-> seen[p][c][what]])
      IN /\ total[2] = all("in") /\ total[3] = all("out")
         /\ cfg.flows /\ cfg.latency => total[1] = all("sent")
         /\ cfg.flows /\ cfg.latency /\ ~Unavailable(1 - p) /\ ~LeftOver(1 - p)
              => total[4] = all("arrived")
         /\ Unavailable(1 - p) => total[4] = portStats[1 - p]
=============================================================================
