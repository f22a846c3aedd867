----------------------------- MODULE FlowConfig -----------------------------
(***************************************************************************)
(* From the configuration of a run to the streams in the traffic           *)
(* generator: NFVBench._update_config, GeneratorConfig and Device, the     *)
(* programming of MACs, VLANs and labels by ChainRunner, and               *)
(* TrafficClient.set_traffic with TRex.create_traffic, once per frame size.*)
(*                                                                         *)
(* The devices live as long as the run: what limit_ip_udp_ranges leaves in *)
(* udp_ports and ip_addrs_step for one chain is there for the next chain,  *)
(* and for the next frame size.                                            *)
(*                                                                         *)
(* An address is its offset in the block it comes from.                    *)
(***************************************************************************)
EXTENDS FlowRanges, PacketGroups, Sequences

CONSTANTS
  Options,      (* the configurations to check                             *)
  Frames,       (* the frame sizes of the run, a sequence                  *)
  Imix,         (* the frame size that stands for three                    *)
  Random,       (* the step 'random'                                       *)
  LatencyRate   (* LATENCY_PPS                                             *)

Ports == {0, 1}
Peer(p) == 1 - p
Steps == (Nat \ {0}) \cup {Random}
StepOf(step) == IF step = Random THEN 1 ELSE step

(* addrs: addresses of the two networks; lists: entries in each list of    *)
(* VLANs or destination MACs; stats, latency: flow statistics, latency     *)
(* streams; garp: gratuitous ARPs per second, 0 for none; rate: packets    *)
(* per second of each direction; reverse: of the other direction when      *)
(* bidir does not hold; sane: the other checks of the configuration pass.  *)
OptionSet ==
  [chains : Nat \ {0}, flows : Nat \ {0}, bidir : BOOLEAN, static : BOOLEAN,
   addrs : [Ports -> Nat \ {0}], ipStep : Steps,
   udpSrc : (Nat \ {0}) \X Nat, udpDst : (Nat \ {0}) \X Nat, udpStep : Steps,
   l2loop : BOOLEAN, tagged : BOOLEAN, lists : Nat,
   encap : {"none", "vxlan", "mpls"}, service : BOOLEAN,
   latency : BOOLEAN, stats : BOOLEAN, garp : Nat,
   rate : Nat, reverse : Nat, sane : BOOLEAN]

ASSUME FlowConfigAssumption ==
  /\ Options \subseteq OptionSet
  /\ \A o \in Options : o.udpSrc[1] <= o.udpSrc[2] /\ o.udpDst[1] <= o.udpDst[2]
  /\ Frames \in Seq(Nat) /\ Frames # <<>>
  /\ Random \notin Nat
  /\ LatencyRate \in Nat

VARIABLES
  pc,
  opt,        (* the options, then the configuration of the run            *)
  dev,        (* the two devices: udp_ports, the steps, the encapsulation  *)
  nextFree,   (* next_free of the two address blocks                       *)
  frame,      (* the index of the frame size in Frames                     *)
  port,       (* the device whose streams are configured                   *)
  configs,    (* the stream configs so far, per device                     *)
  streams,    (* the streams TRex has, per port                            *)
  rates,      (* TRex.rates                                                *)
  running,    (* the ports that transmit                                   *)
  (* history, never read by the program *)
  told,       (* a chain's flow count could not be met, and was logged     *)
  exact       (* the streams of some frame size had the flow counts asked  *)

vars == <<pc, opt, dev, nextFree, frame, port, configs, streams, rates,
          running, told, exact>>
devVars == <<opt, dev>>
rangeVars == <<nextFree, port, configs, told>>
tgVars == <<streams, rates, running>>

-----------------------------------------------------------------------------
(* Seeded faults.  Each is one of the definitions below with a plausible   *)
(* slip; substituted for it, it must make a property fail.                 *)

(* The remainder of a division instead of what the others leave. *)
ChainFlowsModulo(chain) ==
  IF chain = 0 THEN (IF opt.bidir THEN opt.flows \div 2 ELSE opt.flows) % opt.chains
  ELSE ((IF opt.bidir THEN opt.flows \div 2 ELSE opt.flows) + opt.chains - 1) \div opt.chains

(* The end of a reservation taken for its last address. *)
ReservedToTheEnd(p, count) ==
  [first |-> nextFree[p] * StepOf(opt.ipStep),
   last |-> (nextFree[p] + count) * StepOf(opt.ipStep),
   count |-> count]

(* The index of the last port off by one. *)
PortMaxOffByOne(udp, step) ==
  IF step = Random THEN udp.max ELSE udp.min + udp.size * step

(* The port ranges keep the address sizes. *)
AdjustedByAddresses(d) ==
  LET ips == IF opt.static THEN 1 ELSE RangeSize(opt.addrs[port], StepOf(opt.ipStep))
      peers == RangeSize(opt.addrs[1 - port], StepOf(opt.ipStep)) \div opt.chains
      n == Len(configs[port])
      all == IF opt.bidir THEN opt.flows \div 2 ELSE opt.flows
      each == (all + opt.chains - 1) \div opt.chains
      flow == IF n = 0 THEN all - each * (opt.chains - 1) ELSE each
      sizes == LimitedSizes(ips, peers, dev[port].src, dev[port].dst, flow)
  IN IF MaxPossibleFlows(sizes) = flow
     THEN [d EXCEPT !.src.size = sizes.ip, !.dst.size = sizes.peer]
     ELSE d

-----------------------------------------------------------------------------
(* Helpers *)

(* Flows of one direction: Device.flow_count. *)
DirectionFlows == IF opt.bidir THEN opt.flows \div 2 ELSE opt.flows

(* flows_per_chain: rounded up; the first chain has the rest. *)
FlowsPerChain == (DirectionFlows + opt.chains - 1) \div opt.chains

ChainFlows(chain) ==
  IF chain = 0 THEN DirectionFlows - FlowsPerChain * (opt.chains - 1)
  ELSE FlowsPerChain

(* ip_size *)
IpSize(p) == RangeSize(opt.addrs[p], StepOf(opt.ipStep))

UdpRange(range, step) ==
  [min |-> range[1], max |-> range[2],
   size |-> RangeSize(range[2] - range[1] + 1, StepOf(step))]

(* flow_max *)
FlowMax(src, dst) ==
  LET left == IpSize(0)
      right == IpSize(1)
      ips == IF opt.static THEN (IF left < right THEN left ELSE right)
             ELSE Lcm(left, right)
  IN Lcm(Lcm(src.size, dst.size), ips)

(* IpBlock.reserve_ip_range raises: the count goes beyond the block, or    *)
(* get_ip refuses the first or the last index.                             *)
ReserveRaises(p, count) ==
  \/ nextFree[p] + count > IpSize(p)
  \/ nextFree[p] \notin 0..(IpSize(p) - 1)
  \/ nextFree[p] + count - 1 \notin 0..(IpSize(p) - 1)

(* The addresses of the reservation: the block's own step spaces them. *)
Reserved(p, count) ==
  [first |-> nextFree[p] * StepOf(opt.ipStep),
   last |-> (nextFree[p] + count - 1) * StepOf(opt.ipStep),
   count |-> count]

(* The last UDP port of a range (get_src_max, get_dst_max). *)
PortMax(udp, step) ==
  IF step = Random THEN udp.max ELSE udp.min + (udp.size - 1) * step

(* How many values TRex walks through between first and last. *)
Walked(range, step) ==
  IF step = Random THEN range.count
  ELSE (range.last - range.first) \div step + 1

-----------------------------------------------------------------------------
(* The run is configured *)

Init ==
  /\ pc = "update"
  /\ opt \in Options
  /\ dev = <<>>
  /\ nextFree = [p \in Ports |-> 0]
  /\ frame = 1 /\ port = 0
  /\ configs = [p \in Ports |-> <<>>]
  /\ streams = [p \in Ports |-> {}]
  /\ rates = <<>> /\ running = {}
  /\ told = FALSE /\ exact = FALSE

Fail(step) ==
  /\ pc = step
  /\ pc' = "raised"
  /\ UNCHANGED <<devVars, rangeVars, frame, tgVars, exact>>

AtLeast(flows, chains) == IF flows < 2 * chains THEN 2 * chains ELSE flows

(* NFVBench._update_config *)
UpdateConfig ==
  /\ pc = "update"
  /\ opt.sane
  /\ LET chains == IF opt.l2loop /\ ~opt.tagged THEN 1 ELSE opt.chains
         flows == AtLeast(opt.flows, chains)
         untag == opt.encap # "none" /\ opt.tagged
     IN opt' = [opt EXCEPT !.chains = chains,
                           !.flows = flows + (flows % 2),
                           !.tagged = @ /\ ~untag,
                           !.latency = @ /\ ~untag,
                           !.stats = @ /\ ~untag]
  /\ pc' = "devices"
  /\ UNCHANGED <<dev, rangeVars, frame, tgVars, exact>>

(* GeneratorConfig and its two devices *)
BuildDevices ==
  /\ pc = "devices"
  /\ LET src == UdpRange(opt.udpSrc, opt.udpStep)
         dst == UdpRange(opt.udpDst, opt.udpStep)
     IN /\ DirectionFlows <= FlowMax(src, dst)
        /\ dev' = [p \in Ports |->
             [src |-> src, dst |-> dst, ipStep |-> opt.ipStep,
              udpStep |-> opt.udpStep, encap |-> "none"]]
  /\ pc' = "program"
  /\ UNCHANGED <<opt, rangeVars, frame, tgVars, exact>>

(* "Trying to set unachievable traffic" *)
Unachievable ==
  /\ Fail("devices")
  /\ DirectionFlows > FlowMax(UdpRange(opt.udpSrc, opt.udpStep),
                              UdpRange(opt.udpDst, opt.udpStep))

(* Lists longer than the chain count are clipped, shorter ones refused. *)
ListsFit == opt.tagged \/ ~opt.l2loop => opt.lists >= opt.chains

(* ChainRunner.__init__ programs the devices with what the chain manager   *)
(* found: VLANs or VNIs or labels, and destination MACs (without them the  *)
(* MAC of the peer port is used).                                          *)
ProgramGenerator ==
  /\ pc = "program"
  /\ ListsFit
  /\ dev' = [p \in Ports |-> [dev[p] EXCEPT !.encap = opt.encap]]
  /\ pc' = "ready"
  /\ UNCHANGED <<opt, rangeVars, frame, tgVars, exact>>

ListsRefused == Fail("program") /\ ~ListsFit

-----------------------------------------------------------------------------
(* One frame size: TrafficClient.set_traffic, TRex.create_traffic *)

RunRates ==
  IF opt.bidir THEN <<opt.rate, opt.rate>>
  ELSE IF opt.reverse > 0 THEN <<opt.rate, opt.reverse>>
  ELSE <<opt.rate>>

(* TRex.__is_rate_enough: room for the latency streams, one packet of each *)
(* chain, and its gratuitous ARPs.                                         *)
RateEnough ==
  LET directions == IF opt.bidir THEN 2 ELSE 1
  IN opt.latency => directions * opt.rate >=
       (LatencyRate + 1 + opt.garp) * opt.chains * directions

(* set_traffic, up to the first stream config.  Clearing the streams       *)
(* resets the ports: nothing transmits any more.                           *)
SetTraffic ==
  /\ pc = "ready"
  /\ streams' = [p \in Ports |-> {}] /\ rates' = <<>> /\ running' = {}
  /\ configs' = [p \in Ports |-> <<>>]
  /\ port' = 0
  /\ nextFree' = [p \in Ports |-> 0]
  /\ pc' = IF RateEnough THEN "ranges" ELSE "raised"
  /\ UNCHANGED <<devVars, frame, told, exact>>

(* The source addresses a chain may use, and the destination addresses of  *)
(* its share of the peer's block.                                          *)
SrcIps == IF opt.static THEN 1 ELSE IpSize(port)
PeerIps == IpSize(Peer(port)) \div opt.chains

Chain == Len(configs[port])
Flows == ChainFlows(Chain)
Limited == LimitedSizes(SrcIps, PeerIps, dev[port].src, dev[port].dst, Flows)

(* limit_ip_udp_ranges succeeds: the sizes have the flow count asked for.  *)
Accurate == MaxPossibleFlows(Limited) = Flows

(* It does not: the steps of the device fall back to 1, unless both are    *)
(* random.                                                                 *)
Overridden(d) ==
  IF d.ipStep = Random /\ d.udpStep = Random THEN d
  ELSE [d EXCEPT !.ipStep = 1, !.udpStep = 1]

(* The device after limit_ip_udp_ranges. *)
Adjusted(d) ==
  IF Accurate THEN [d EXCEPT !.src.size = Limited.src, !.dst.size = Limited.dst]
  ELSE Overridden(d)

(* The device after the port ranges are set from their sizes. *)
Ranged(d) == [d EXCEPT !.src.max = PortMax(d.src, d.udpStep),
                       !.dst.max = PortMax(d.dst, d.udpStep)]

SrcCount == IF Accurate THEN Limited.ip ELSE SrcIps
DstCount == IF Accurate THEN Limited.peer ELSE PeerIps

SizeRaises == LcmRaises(SrcIps, PeerIps, dev[port].src, dev[port].dst, Flows)
RangeRaises == ReserveRaises(port, SrcCount) \/ ReserveRaises(Peer(port), DstCount)

Ports16(udp) == [first |-> udp.min, last |-> udp.max, count |-> udp.size]

(* The stream config of the next chain of this device: one turn of the     *)
(* loop of get_stream_configs.                                             *)
ConfigureChain ==
  /\ pc = "ranges"
  /\ ~SizeRaises /\ ~RangeRaises
  /\ LET d == Ranged(Adjusted(dev[port]))
         src == Reserved(port, SrcCount)
         config == [count |-> Flows,
                    src |-> IF opt.static THEN [src EXCEPT !.last = src.first] ELSE src,
                    dst |-> Reserved(Peer(port), DstCount),
                    udpSrc |-> Ports16(d.src), udpDst |-> Ports16(d.dst),
                    ipStep |-> d.ipStep, udpStep |-> d.udpStep]
         last == Chain + 1 = opt.chains
     IN /\ dev' = [dev EXCEPT ![port] = d]
        /\ configs' = [configs EXCEPT ![port] = Append(@, config)]
        /\ nextFree' = IF last THEN [p \in Ports |-> 0]
                       ELSE [nextFree EXCEPT ![port] = @ + SrcCount,
                                             ![Peer(port)] = @ + DstCount]
        /\ port' = IF last THEN Peer(port) ELSE port
        /\ pc' = IF last /\ port = 1 THEN "create" ELSE "ranges"
  /\ told' = (told \/ ~Accurate)
  /\ UNCHANGED <<opt, frame, tgVars, exact>>

(* A size of 0 reaches lcm, or the block has no such range. *)
ChainRaises ==
  /\ Fail("ranges")
  /\ SizeRaises \/ RangeRaises

(* TRex.generate_streams: the streams of one chain on one port.  Random    *)
(* steps leave the latency stream one address and one port.                *)
StreamsOf(p, chain, size, latency) ==
  LET random == Random \in {configs[p][chain + 1].ipStep, configs[p][chain + 1].udpStep}
      parts == IF size = Imix THEN 1..3 ELSE {1}
      flowStats == opt.stats /\ ~opt.service /\ dev[p].encap # "mpls"
  IN {[chain |-> chain, frame |-> frame, kind |-> "flow", part |-> i,
       stats |-> IF flowStats THEN {PgId(p, chain)} ELSE {}, fixed |-> FALSE]
        : i \in parts}
     \cup {[chain |-> chain, frame |-> frame, kind |-> "latency", part |-> 1,
            stats |-> IF opt.stats THEN {LatPgId(p, chain)} ELSE {},
            fixed |-> random] : i \in {n \in {1} : latency}}
     \cup {[chain |-> chain, frame |-> frame, kind |-> "garp", part |-> 1,
            stats |-> {}, fixed |-> TRUE] : i \in {n \in {1} : opt.garp > 0}}

(* The end of create_traffic: the streams are generated and added. *)
CreateTraffic ==
  /\ pc = "create"
  /\ rates' = RunRates
  /\ streams' = [p \in Ports |->
       IF p < Len(RunRates)
       THEN streams[p] \cup UNION {StreamsOf(p, c, Frames[frame],
                                  opt.latency /\ (p = 0 \/ opt.bidir))
                                  : c \in 0..(opt.chains - 1)}
       ELSE streams[p]]
  /\ exact' = (exact \/ ~told)
  /\ pc' = "programmed"
  /\ UNCHANGED <<devVars, rangeVars, frame, running>>

(* TRex.start_traffic: the ports that have a rate. *)
StartTraffic ==
  /\ pc = "programmed"
  /\ running' = {p \in Ports : p < Len(rates)}
  /\ pc' = "traffic"
  /\ UNCHANGED <<devVars, rangeVars, frame, streams, rates, exact>>

(* The measurement of a frame size is over. *)
NextFrame ==
  /\ pc = "traffic"
  /\ running' = {}
  /\ frame' = frame + 1
  /\ pc' = IF frame = Len(Frames) THEN "done" ELSE "ready"
  /\ UNCHANGED <<devVars, rangeVars, streams, rates, exact>>

Next ==
  \/ UpdateConfig \/ (~opt.sane /\ Fail("update"))
  \/ BuildDevices \/ Unachievable
  \/ ProgramGenerator \/ ListsRefused
  \/ SetTraffic \/ ConfigureChain \/ ChainRaises
  \/ CreateTraffic \/ StartTraffic \/ NextFrame

Spec == Init /\ [][Next]_vars
-----------------------------------------------------------------------------
(* Properties *)

ConfigSet == [count : Int, src : [first : Int, last : Int, count : Int],
              dst : [first : Int, last : Int, count : Int],
              udpSrc : [first : Int, last : Int, count : Int],
              udpDst : [first : Int, last : Int, count : Int],
              ipStep : Steps, udpStep : Steps]

(* The chains of one direction use disjoint ranges of source addresses and *)
(* of destination addresses, inside the block of the port they belong to:  *)
(* the receiver tells chains apart by their addresses.  The two devices    *)
(* reserve in each other's block, reset both, and take sizes that change   *)
(* from chain to chain (traffic_client.py:142-152,500-525).                *)
InBlock(range, p) ==
  /\ 0 <= range.first /\ range.first <= range.last
  /\ range.last <= (IpSize(p) - 1) * StepOf(opt.ipStep)

ChainsApart ==
  \A p \in Ports : \A i \in DOMAIN configs[p] :
    /\ InBlock(configs[p][i].src, p)
    /\ InBlock(configs[p][i].dst, Peer(p))
    /\ \A j \in DOMAIN configs[p] : i < j =>
         /\ configs[p][i].src.last < configs[p][j].src.first
         /\ configs[p][i].dst.last < configs[p][j].dst.first

(* As long as nothing was logged to the contrary, every chain sends as     *)
(* many flows as it was given: each address and each port walks through    *)
(* exactly its count of values between first and last, and these counts    *)
(* have the flow count as their least common multiple.  Ranges, counts and *)
(* steps are adjusted at three places, for one chain after another         *)
(* (traffic_client.py:333-365,517-528).                                    *)
UntoldIsExact ==
  ~told => \A p \in Ports : \A i \in DOMAIN configs[p] :
    LET c == configs[p][i]
    IN /\ Lcm(Lcm(c.src.count, c.dst.count), Lcm(c.udpSrc.count, c.udpDst.count)) = c.count
       /\ Walked(c.src, c.ipStep) = c.src.count
       /\ Walked(c.dst, c.ipStep) = c.dst.count
       /\ Walked(c.udpSrc, c.udpStep) = c.udpSrc.count
       /\ Walked(c.udpDst, c.udpStep) = c.udpDst.count

(* What worked for one frame size works for the next: a configuration that *)
(* was exact once is exact again and is not refused, although the sizes    *)
(* and the ends of the UDP ranges are what the last chain left             *)
(* (traffic_client.py:361-364,504-518).  It holds only where each chain of *)
(* each frame size makes the same choice: the flows divide evenly, no      *)
(* chain takes source addresses from another one, and the port numbers     *)
(* that serve as sizes stay below the new end of their range.              *)
Repeatable ==
  /\ opt.chains = 1 \/ opt.static
  /\ ChainFlows(0) = FlowsPerChain
  /\ opt.udpSrc[1] > 1 /\ opt.udpDst[1] > 1

ExactStaysExact == exact /\ Repeatable => ~told /\ pc # "raised"

(* While ports transmit, each sends the streams of this frame size, some   *)
(* for each chain, whose flows add up to those of the direction; a port    *)
(* without streams is not started; and the counters of two streams can be  *)
(* told apart unless they are parts of the same one.  Only as many chains  *)
(* as the chain bits of a packet group id hold (trex_gen.py:113-127,       *)
(* 1082-1110,1143-1146).                                                   *)
SumOfCounts(p) ==
  LET sum[i \in 0..Len(configs[p])] ==
        IF i = 0 THEN 0 ELSE sum[i - 1] + configs[p][i].count
  IN sum[Len(configs[p])]

Counted == {a \in Ports \X UNION {streams[p] : p \in Ports} :
              a[2] \in streams[a[1]] /\ a[2].stats # {}}

TrafficAsAsked ==
  pc = "traffic" =>
    /\ 0 \in running /\ (opt.bidir => running = Ports)
    /\ \A p \in running :
         /\ \A s \in streams[p] : s.frame = frame
         /\ {s.chain : s \in {t \in streams[p] : t.kind = "flow"}} = 0..(opt.chains - 1)
         /\ SumOfCounts(p) = DirectionFlows
    /\ opt.chains <= PortMask => \A a, b \in Counted :
         a[2].stats = b[2].stats =>
           a[1] = b[1] /\ a[2].chain = b[2].chain /\ a[2].kind = b[2].kind
=============================================================================
