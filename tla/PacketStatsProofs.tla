-------------------------- MODULE PacketStatsProofs --------------------------
(***************************************************************************)
(* Up to how many chains the packet group ids of TRex stay apart, for any  *)
(* size of the port and latency bits, and the rows and totals of the       *)
(* packet path, for any number of chains up to PORT_PG_ID_MASK, any number *)
(* of frame sizes and any packets.                                         *)
(***************************************************************************)
EXTENDS PacketStats, FiniteSetTheorems, TLAPS

(* The chains whose ids fit below the port bit. *)
FittingChains == 0..(PortMask - 1)

(* A bit that is not set in a number below it is added. *)
LEMMA WithBitBelow ==
  ASSUME NEW m \in Nat \ {0}, NEW n \in 0..(m - 1)
  PROVE  WithBit(n, m) = n + m
<1>1. n \div m = 0
  BY Z3
<1>2. (n \div m) % 2 = 0
  BY <1>1
<1> QED
  BY <1>2 DEF WithBit

(* The packet group ids, as numbers. *)
LEMMA PgIdOfFitting ==
  ASSUME NEW port \in {0, 1}, NEW chain \in FittingChains
  PROVE  PgId(port, chain) = chain + port * PortMask
<1>1. WithBit(chain, PortMask) = chain + PortMask
  BY MaskAssumption, WithBitBelow DEF FittingChains
<1>2. CASE port = 1
  BY <1>1, <1>2, MaskAssumption DEF PgId, FittingChains
<1>3. CASE port = 0
  BY <1>3, MaskAssumption DEF PgId, FittingChains
<1> QED
  BY <1>2, <1>3

(* The latency bit is above those. *)
LEMMA LatPgIdOfFitting ==
  ASSUME NEW port \in {0, 1}, NEW chain \in FittingChains
  PROVE  LatPgId(port, chain) = PgId(port, chain) + LatencyMask
<1> DEFINE id == PgId(port, chain)
<1>1. id \in 0..(LatencyMask - 1) /\ LatencyMask \in Nat \ {0}
  BY PgIdOfFitting, MaskAssumption DEF FittingChains
<1> HIDE DEF id
<1>2. WithBit(id, LatencyMask) = id + LatencyMask
  BY <1>1, WithBitBelow
<1> QED
  BY <1>2 DEF LatPgId, id

(* Up to PORT_PG_ID_MASK chains, the two ids of a chain at a port belong   *)
(* to no other stream: the counters TRex keeps per packet group can be     *)
(* told apart by chain, port and latency (trex_gen.py:112-125).            *)
THEOREM FittingIdsAreApart ==
  ASSUME NEW p \in {0, 1}, NEW q \in {0, 1},
         NEW c \in FittingChains, NEW d \in FittingChains
  PROVE  /\ PgId(p, c) = PgId(q, d) => p = q /\ c = d
         /\ LatPgId(p, c) = LatPgId(q, d) => p = q /\ c = d
         /\ PgId(p, c) # LatPgId(q, d)
<1>1. /\ c \in Nat /\ d \in Nat /\ c < PortMask /\ d < PortMask
      /\ PortMask \in Nat /\ LatencyMask = 2 * PortMask
  BY MaskAssumption DEF FittingChains
<1>2. /\ PgId(p, c) = c + p * PortMask
      /\ PgId(q, d) = d + q * PortMask
  BY PgIdOfFitting
<1>3. /\ LatPgId(p, c) = PgId(p, c) + LatencyMask
      /\ LatPgId(q, d) = PgId(q, d) + LatencyMask
  BY LatPgIdOfFitting
<1> QED
  BY <1>1, <1>2, <1>3

(* The bound is exact: one chain more, and its id at the first port is     *)
(* that of the first chain at the second (trex_gen.py:112-125, which       *)
(* announces chain ids up to 255).                                        *)
THEOREM NextChainClashes == PgId(0, PortMask) = PgId(1, 0)
<1>1. WithBit(0, PortMask) = 0 + PortMask
  BY MaskAssumption, WithBitBelow
<1> QED
  BY <1>1, MaskAssumption DEF PgId

-----------------------------------------------------------------------------
(* The counters of a packet group, and of a VNF interface; the history. *)
Counters == [tx : [Ports -> Int], rx : [Ports -> Int]]
OfVnf == [tx : Int, rx : Int]
History == [sent : Nat, in : Nat, out : Nat, arrived : Nat]

(* The counters are numbers.  Those of shared VNF interfaces are sums over *)
(* the chains, of which nothing is needed.                                 *)
StatsTyping ==
  /\ cfg \in ConfigSet
  /\ flowStats \in [Counted -> Counters]
  /\ vnfStats \in [Chains -> [Ports -> OfVnf]]
  /\ ~cfg.shared => midStats \in [Chains -> [Ports -> OfVnf]]
  /\ seen \in [Ports -> [Chains -> History]]

(* TRex counts every packet in a group of its own chain. *)
AllCounted == cfg.flows /\ cfg.latency /\ cfg.chains <= PortMask

(* While traffic runs, TRex has counted what happened to the packets of    *)
(* each chain, and the VNF's counters are ahead of the baseline by it.     *)
FlowsAreSeen ==
  /\ pc = "baseline" => seen = Unseen
  /\ pc \in {"traffic", "collected", "reported"} /\ AllCounted =>
       \A p \in Ports, c \in Chains :
         /\ Sent(c, p) = seen[p][c].sent
         /\ Received(c, 1 - p) = seen[p][c].arrived
  /\ pc = "traffic" /\ ~cfg.shared =>
       \A p \in Ports, c \in Chains :
         /\ vnfStats[c][p].rx - midStats[c][p].rx = seen[p][c].in
         /\ vnfStats[c][1 - p].tx - midStats[c][1 - p].tx = seen[p][c].out

(* What Collect stores is what was seen. *)
CollectedIsSeen ==
  pc = "collected" =>
    /\ AllCounted =>
         \A p \in Ports, c \in Chains :
           /\ ifStats[c][p].tx = seen[p][c].sent
           /\ ~Unavailable(1 - p) => ifStats[c][1 - p].rx = seen[p][c].arrived
    /\ ~cfg.shared =>
         \A p \in Ports, c \in Chains :
           /\ midStats[c][p].rx = seen[p][c].in
           /\ midStats[c][1 - p].tx = seen[p][c].out

(* The inductive invariant of the rows. *)
RowsInv == StatsTyping /\ FlowsAreSeen /\ CollectedIsSeen /\ RowsAreTheChains

(* Each of the two ports is the other one's other. *)
LEMMA OtherPort == \A p \in Ports : 1 - p \in Ports /\ 1 - (1 - p) = p /\ 1 - p # p
BY DEF Ports

(* The chains and the groups are those of the configuration. *)
LEMMA SameConfig ==
  ASSUME cfg' = cfg
  PROVE  Chains' = Chains /\ Counted' = Counted /\ Unseen' = Unseen
         /\ AllCounted' = AllCounted
<1>1. Chains' = Chains
  BY DEF Chains
<1>2. Counted' = Counted
  BY <1>1 DEF Counted
<1>3. Unseen' = Unseen
  BY <1>1 DEF Unseen
<1>4. AllCounted' = AllCounted
  BY DEF AllCounted
<1> QED
  BY <1>1, <1>2, <1>3, <1>4

(* With all packets counted, the groups of the chains are apart. *)
LEMMA GroupsApart ==
  ASSUME cfg \in ConfigSet, AllCounted,
         NEW p \in Ports, NEW c \in Chains
  PROVE  /\ PgId(p, c) \in Counted /\ LatPgId(p, c) \in Counted
         /\ \A q \in Ports, d \in Chains :
              /\ PgId(p, c) = PgId(q, d) => p = q /\ c = d
              /\ LatPgId(p, c) = LatPgId(q, d) => p = q /\ c = d
              /\ PgId(p, c) # LatPgId(q, d)
<1>1. Chains \subseteq FittingChains
  BY MaskAssumption DEF Chains, FittingChains, AllCounted, ConfigSet
<1>2. Ports = {0, 1}
  BY DEF Ports
<1>3. PgId(p, c) \in Counted /\ LatPgId(p, c) \in Counted
  BY DEF Counted, AllCounted
<1> QED
  BY <1>1, <1>2, <1>3, FittingIdsAreApart

(* The counters of a chain, when all packets are counted. *)
LEMMA SentReceived ==
  ASSUME cfg \in ConfigSet, AllCounted,
         NEW p \in Ports, NEW c \in Chains
  PROVE  /\ Sent(c, p) = flowStats[PgId(p, c)].tx[p] + flowStats[LatPgId(p, c)].tx[p]
         /\ Received(c, 1 - p)
              = flowStats[PgId(p, c)].rx[1 - p] + flowStats[LatPgId(p, c)].rx[1 - p]
<1>1. PgId(p, c) \in Counted /\ LatPgId(p, c) \in Counted
  BY GroupsApart
<1>2. 1 - (1 - p) = p
  BY OtherPort
<1> QED
  BY <1>1, <1>2 DEF Sent, Received, OfGroup

(* The counters start as numbers. *)
LEMMA UnseenTyping == cfg \in ConfigSet => Unseen \in [Ports -> [Chains -> History]]
BY DEF Unseen, History

(* And TRex clears them to numbers. *)
LEMMA ClearedTyping == Cleared \in [Counted -> Counters]
BY DEF Cleared, Zero, Counters

(* One more packet sent or received, or passing a VNF interface. *)
LEMMA CountOne ==
  ASSUME NEW S, NEW f \in [S -> Counters], NEW g \in S, NEW p \in Ports
  PROVE  /\ [f EXCEPT ![g].tx[p] = @ + 1] \in [S -> Counters]
         /\ [f EXCEPT ![g].rx[p] = @ + 1] \in [S -> Counters]
<1>1. /\ f[g].tx \in [Ports -> Int] /\ f[g].rx \in [Ports -> Int]
      /\ f[g] \in Counters
  BY DEF Counters
<1>2. /\ [f[g].tx EXCEPT ![p] = @ + 1] \in [Ports -> Int]
      /\ [f[g].rx EXCEPT ![p] = @ + 1] \in [Ports -> Int]
  BY <1>1
<1>3. /\ [f[g] EXCEPT !.tx = [f[g].tx EXCEPT ![p] = @ + 1]] \in Counters
      /\ [f[g] EXCEPT !.rx = [f[g].rx EXCEPT ![p] = @ + 1]] \in Counters
  BY <1>1, <1>2 DEF Counters
<1> QED
  BY <1>3

(* They stay numbers when a packet passes a VNF. *)
LEMMA CountVnf ==
  ASSUME NEW S, NEW f \in [S -> [Ports -> OfVnf]], NEW c \in S, NEW p \in Ports, NEW n \in Int
  PROVE  /\ [f EXCEPT ![c][p].tx = @ + n] \in [S -> [Ports -> OfVnf]]
         /\ [f EXCEPT ![c][p].rx = @ + n] \in [S -> [Ports -> OfVnf]]
<1>1. f[c][p].tx \in Int /\ f[c][p].rx \in Int /\ f[c][p] \in OfVnf /\ f[c] \in [Ports -> OfVnf]
  BY DEF OfVnf
<1>2. /\ [f[c][p] EXCEPT !.tx = @ + n] \in OfVnf
      /\ [f[c][p] EXCEPT !.rx = @ + n] \in OfVnf
  BY <1>1 DEF OfVnf
<1>3. /\ [f[c] EXCEPT ![p] = [f[c][p] EXCEPT !.tx = @ + n]] \in [Ports -> OfVnf]
      /\ [f[c] EXCEPT ![p] = [f[c][p] EXCEPT !.rx = @ + n]] \in [Ports -> OfVnf]
  BY <1>1, <1>2
<1> QED
  BY <1>3

(* What a packet does to the counters of its own group, and to no other. *)
LEMMA PacketCounts ==
  ASSUME StatsTyping, AllCounted, NEW p \in Ports, NEW c \in Chains,
         NEW kind \in Kinds, NEW fate \in Fates, Packet(p, c, kind, fate)
  PROVE  LET g == Group(p, c, kind) IN
         /\ g \in Counted
         /\ \A h \in Counted : h # g => flowStats'[h] = flowStats[h]
         /\ flowStats'[g].tx[p] = flowStats[g].tx[p] + 1
         /\ flowStats'[g].rx[1 - p]
              = flowStats[g].rx[1 - p] + IF fate = "arrives" THEN 1 ELSE 0
<1> DEFINE g == Group(p, c, kind)
           to == IF fate = "comesBack" THEN p ELSE 1 - p
           received == fate \in {"arrives", "comesBack"}
           sentStats == [flowStats EXCEPT ![g].tx[p] = @ + 1]
<1>1. g \in Counted
  BY GroupsApart DEF Group, StatsTyping
<1>2. flowStats' = IF received THEN [sentStats EXCEPT ![g].rx[to] = @ + 1] ELSE sentStats
  BY <1>1, Zenon DEF Packet
<1>3. flowStats[g] \in Counters /\ flowStats \in [Counted -> Counters]
  BY <1>1 DEF StatsTyping
<1>4. 1 - p \in Ports /\ 1 - p # p /\ to \in Ports
  BY OtherPort
<1> HIDE DEF g
<1>5. /\ sentStats \in [Counted -> Counters]
      /\ \A h \in Counted : h # g => sentStats[h] = flowStats[h]
      /\ sentStats[g].tx[p] = flowStats[g].tx[p] + 1
      /\ sentStats[g].rx = flowStats[g].rx
  BY <1>1, <1>3 DEF Counters
<1> HIDE DEF sentStats
<1>6. CASE received
  <2>1. flowStats' = [sentStats EXCEPT ![g].rx[to] = @ + 1]
    BY <1>2, <1>6
  <2>2. /\ \A h \in Counted : h # g => flowStats'[h] = sentStats[h]
        /\ flowStats'[g].tx = sentStats[g].tx
        /\ flowStats'[g].rx = [sentStats[g].rx EXCEPT ![to] = @ + 1]
    BY <1>1, <1>5, <2>1 DEF Counters
  <2>3. sentStats[g].rx \in [Ports -> Int]
    BY <1>1, <1>5 DEF Counters
  <2>4. CASE fate = "arrives"
    BY <1>1, <1>4, <1>5, <2>2, <2>3, <2>4 DEF g
  <2>5. CASE fate = "comesBack"
    <3>1. flowStats'[g].rx[1 - p] = flowStats[g].rx[1 - p]
      BY <1>4, <1>5, <2>2, <2>3, <2>5
    <3>2. flowStats[g].rx[1 - p] \in Int
      BY <1>3, <1>4 DEF Counters
    <3> QED
      BY <1>1, <1>5, <2>2, <2>5, <3>1, <3>2 DEF g
  <2> QED
    BY <1>6, <2>4, <2>5
<1>7. CASE ~received
  <2>1. flowStats' = sentStats /\ fate # "arrives"
    BY <1>2, <1>7
  <2>2. flowStats[g].rx[1 - p] \in Int
    BY <1>3, <1>4 DEF Counters
  <2> QED
    BY <1>1, <1>5, <2>1, <2>2 DEF g
<1> QED
  BY <1>6, <1>7

(* A run keeps its configuration. *)
LEMMA SameCfg == [Next]_vars => cfg' = cfg
<1>1. ASSUME NEW c \in Chains, NEW p \in Ports, OtherPackets(c, p) PROVE cfg' = cfg
  BY <1>1 DEF OtherPackets
<1>2. ASSUME NEW p \in Ports, NEW c \in Chains, NEW kind \in Kinds, NEW fate \in Fates,
             Packet(p, c, kind, fate)
      PROVE  cfg' = cfg
  BY <1>2, Zenon DEF Packet
<1>3. Baseline \/ Collect \/ GetResults \/ NextFrame => cfg' = cfg
  BY Zenon DEF Baseline, Collect, GetResults, NextFrame
<1>4. UNCHANGED vars => cfg' = cfg
  BY DEF vars
<1> QED
  BY <1>1, <1>2, <1>3, <1>4 DEF Next

(* No step leaves the types. *)
LEMMA TypingStep == StatsTyping /\ [Next]_vars => StatsTyping'
<1> SUFFICES ASSUME StatsTyping, [Next]_vars PROVE StatsTyping'
  OBVIOUS
<1> USE DEF StatsTyping
<1>1. cfg' = cfg
  BY SameCfg
<1>2. Chains' = Chains /\ Counted' = Counted /\ Unseen' = Unseen
  BY <1>1, SameConfig
<1>3. ASSUME NEW c \in Chains, NEW p \in Ports, OtherPackets(c, p) PROVE StatsTyping'
  <2>1. vnfStats' \in [Chains -> [Ports -> OfVnf]]
    BY <1>3, OtherPort DEF OtherPackets, OfVnf
  <2> QED
    BY <1>1, <1>2, <1>3, <2>1 DEF OtherPackets
<1>4. CASE Baseline
  <2>1. flowStats' \in [Counted -> Counters] /\ vnfStats' = vnfStats /\ seen' = seen
    BY <1>4, ClearedTyping DEF Baseline
  <2>2. ~cfg.shared => midStats' \in [Chains -> [Ports -> OfVnf]]
    BY <1>4 DEF Baseline, WorkerUpdate, Updated, VnfCount, OfVnf
  <2> QED
    BY <1>1, <1>2, <2>1, <2>2
<1>5. ASSUME NEW p \in Ports, NEW c \in Chains, NEW kind \in Kinds, NEW fate \in Fates,
             Packet(p, c, kind, fate)
      PROVE  StatsTyping'
  <2>1. vnfStats' \in [Chains -> [Ports -> OfVnf]]
    <3> DEFINE in == IF fate \in {"arrives", "lostInVnf"} THEN 1 ELSE 0
               out == IF fate = "arrives" THEN 1 ELSE 0
    <3>1. vnfStats' = [vnfStats EXCEPT ![c][p].rx = @ + in, ![c][1 - p].tx = @ + out]
      BY <1>5 DEF Packet
    <3>2. in \in Int /\ out \in Int
      OBVIOUS
    <3> HIDE DEF in, out
    <3> DEFINE mid == [vnfStats EXCEPT ![c][p].rx = @ + in]
    <3>3. mid \in [Chains -> [Ports -> OfVnf]]
      BY <3>2, CountVnf
    <3>4. 1 - p \in Ports /\ 1 - p # p
      BY OtherPort
    <3>5. mid[c][1 - p].tx = vnfStats[c][1 - p].tx
      BY <3>4
    <3>6. vnfStats' = [mid EXCEPT ![c][1 - p].tx = @ + out]
      BY <3>1, <3>5
    <3> HIDE DEF mid
    <3> DEFINE q == 1 - p
    <3>7. q \in Ports
      BY <3>4
    <3> HIDE DEF q
    <3>8. [mid EXCEPT ![c][q].tx = @ + out] \in [Chains -> [Ports -> OfVnf]]
      BY <3>2, <3>3, <3>7, CountVnf
    <3> QED
      BY <3>6, <3>8 DEF q
  <2>2. seen' \in [Ports -> [Chains -> History]]
    <3> DEFINE in == IF fate \in {"arrives", "lostInVnf"} THEN 1 ELSE 0
               out == IF fate = "arrives" THEN 1 ELSE 0
    <3>1. seen' = [seen EXCEPT ![p][c] = [sent |-> @.sent + 1, in |-> @.in + in,
                              out |-> @.out + out, arrived |-> @.arrived + out]]
      BY <1>5 DEF Packet
    <3>2. in \in Nat /\ out \in Nat
      OBVIOUS
    <3> HIDE DEF in, out
    <3> QED
      BY <3>1, <3>2 DEF History
  <2>3. flowStats' \in [Counted -> Counters]
    <3> DEFINE g == Group(p, c, kind)
               to == IF fate = "comesBack" THEN p ELSE 1 - p
               received == fate \in {"arrives", "comesBack"}
               sentStats == IF g \in Counted
                            THEN [flowStats EXCEPT ![g].tx[p] = @ + 1] ELSE flowStats
    <3>1. flowStats' = IF g \in Counted /\ received
                       THEN [sentStats EXCEPT ![g].rx[to] = @ + 1] ELSE sentStats
      BY <1>5, Zenon DEF Packet
    <3>2. to \in Ports
      BY OtherPort
    <3> HIDE DEF g, to, received
    <3>3. sentStats \in [Counted -> Counters]
      BY CountOne
    <3> HIDE DEF sentStats
    <3>4. CASE g \in Counted /\ received
      BY <3>1, <3>2, <3>3, <3>4, CountOne
    <3>5. CASE ~(g \in Counted /\ received)
      BY <3>1, <3>3, <3>5
    <3> QED
      BY <3>4, <3>5
  <2> QED
    BY <1>1, <1>2, <1>5, <2>1, <2>2, <2>3 DEF Packet
<1>6. CASE Collect
  <2>1. UNCHANGED <<flowStats, vnfStats, seen>>
    BY <1>6 DEF Collect
  <2>2. ~cfg.shared => midStats' \in [Chains -> [Ports -> OfVnf]]
    BY <1>6 DEF Collect, WorkerUpdate, Updated, VnfCount, OfVnf
  <2> QED
    BY <1>1, <1>2, <2>1, <2>2
<1>7. CASE GetResults
  BY <1>1, <1>2, <1>7 DEF GetResults
<1>8. CASE NextFrame
  BY <1>1, <1>2, <1>8, UnseenTyping DEF NextFrame
<1>9. CASE UNCHANGED vars
  BY <1>1, <1>2, <1>9 DEF vars
<1> QED
  BY <1>3, <1>4, <1>5, <1>6, <1>7, <1>8, <1>9 DEF Next

(* The same, of the counters after a step. *)
LEMMA SentReceivedNext ==
  ASSUME cfg \in ConfigSet, cfg' = cfg, AllCounted,
         NEW p \in Ports, NEW c \in Chains
  PROVE  /\ Sent(c, p)' = flowStats'[PgId(p, c)].tx[p] + flowStats'[LatPgId(p, c)].tx[p]
         /\ Received(c, 1 - p)'
              = flowStats'[PgId(p, c)].rx[1 - p] + flowStats'[LatPgId(p, c)].rx[1 - p]
<1>1. PgId(p, c) \in Counted' /\ LatPgId(p, c) \in Counted'
  BY GroupsApart, SameConfig
<1>2. 1 - (1 - p) = p
  BY OtherPort
<1> QED
  BY <1>1, <1>2 DEF Sent, Received, OfGroup

(* A packet moves the counters of its chain at its port as it moves what   *)
(* was seen of them, and those of no other.                                *)
LEMMA PacketIsCounted ==
  ASSUME StatsTyping, AllCounted, NEW p \in Ports, NEW c \in Chains,
         NEW kind \in Kinds, NEW fate \in Fates, Packet(p, c, kind, fate),
         NEW q \in Ports, NEW d \in Chains
  PROVE  LET mine == p = q /\ c = d IN
         /\ Sent(d, q)' = Sent(d, q) + IF mine THEN 1 ELSE 0
         /\ Received(d, 1 - q)' = Received(d, 1 - q)
              + IF mine /\ fate = "arrives" THEN 1 ELSE 0
<1> DEFINE g == Group(p, c, kind)
           a == PgId(q, d)
           b == LatPgId(q, d)
           sa == flowStats[a].tx[q]
           sb == flowStats[b].tx[q]
           ra == flowStats[a].rx[1 - q]
           rb == flowStats[b].rx[1 - q]
<1>1. /\ g \in Counted
      /\ \A h \in Counted : h # g => flowStats'[h] = flowStats[h]
      /\ flowStats'[g].tx[p] = flowStats[g].tx[p] + 1
      /\ flowStats'[g].rx[1 - p]
           = flowStats[g].rx[1 - p] + IF fate = "arrives" THEN 1 ELSE 0
  BY PacketCounts
<1>2. /\ a \in Counted /\ b \in Counted /\ a # b
      /\ ~(p = q /\ c = d) => g # a /\ g # b
      /\ p = q /\ c = d => g = IF kind = "flow" THEN a ELSE b
  BY GroupsApart DEF Group, StatsTyping
<1>3. cfg' = cfg /\ cfg \in ConfigSet
  BY Zenon DEF Packet, StatsTyping
<1>4. /\ Sent(d, q) = sa + sb /\ Received(d, 1 - q) = ra + rb
      /\ Sent(d, q)' = flowStats'[a].tx[q] + flowStats'[b].tx[q]
      /\ Received(d, 1 - q)' = flowStats'[a].rx[1 - q] + flowStats'[b].rx[1 - q]
  BY <1>3, SentReceived, SentReceivedNext
<1>5. sa \in Int /\ sb \in Int /\ ra \in Int /\ rb \in Int
  BY <1>2, OtherPort DEF StatsTyping, Counters
<1> HIDE DEF g, a, b
<1>6. CASE ~(p = q /\ c = d)
  <2>1. flowStats'[a] = flowStats[a] /\ flowStats'[b] = flowStats[b]
    BY <1>1, <1>2, <1>6
  <2> QED
    BY <1>4, <1>5, <1>6, <2>1
<1>7. CASE p = q /\ c = d /\ kind = "flow"
  <2>1. g = a /\ flowStats'[b] = flowStats[b]
    BY <1>1, <1>2, <1>7
  <2> QED
    BY <1>1, <1>4, <1>5, <1>7, <2>1
<1>8. CASE p = q /\ c = d /\ kind # "flow"
  <2>1. g = b /\ flowStats'[a] = flowStats[a]
    BY <1>1, <1>2, <1>8
  <2> QED
    BY <1>1, <1>4, <1>5, <1>8, <2>1
<1> QED
  BY <1>6, <1>7, <1>8

(* So do the counters of the VNF interfaces. *)
LEMMA PacketPasses ==
  ASSUME StatsTyping, NEW p \in Ports, NEW c \in Chains,
         NEW kind \in Kinds, NEW fate \in Fates, Packet(p, c, kind, fate),
         NEW q \in Ports, NEW d \in Chains
  PROVE  LET mine == p = q /\ c = d
             in == IF mine /\ fate \in {"arrives", "lostInVnf"} THEN 1 ELSE 0
             out == IF mine /\ fate = "arrives" THEN 1 ELSE 0
         IN /\ vnfStats'[d][q].rx = vnfStats[d][q].rx + in
            /\ vnfStats'[d][1 - q].tx = vnfStats[d][1 - q].tx + out
            /\ seen'[q][d].sent = seen[q][d].sent + IF mine THEN 1 ELSE 0
            /\ seen'[q][d].in = seen[q][d].in + in
            /\ seen'[q][d].out = seen[q][d].out + out
            /\ seen'[q][d].arrived = seen[q][d].arrived + out
<1> DEFINE i == IF fate \in {"arrives", "lostInVnf"} THEN 1 ELSE 0
           o == IF fate = "arrives" THEN 1 ELSE 0
<1>1. /\ vnfStats' = [vnfStats EXCEPT ![c][p].rx = @ + i, ![c][1 - p].tx = @ + o]
      /\ seen' = [seen EXCEPT ![p][c] = [sent |-> @.sent + 1, in |-> @.in + i,
                          out |-> @.out + o, arrived |-> @.arrived + o]]
  BY DEF Packet
<1>2. /\ vnfStats \in [Chains -> [Ports -> OfVnf]]
      /\ seen \in [Ports -> [Chains -> History]]
  BY DEF StatsTyping
<1>3. /\ vnfStats[d][q] \in OfVnf /\ vnfStats[d][1 - q] \in OfVnf
      /\ seen[q][d] \in History
  BY <1>2, OtherPort
<1>4. /\ 1 - p \in Ports /\ 1 - q \in Ports /\ 1 - p # p /\ 1 - q # q
      /\ (1 - p = 1 - q) <=> p = q
  BY DEF Ports
<1>5. CASE p = q /\ c = d
  <2>1. /\ vnfStats'[d][q].rx = vnfStats[d][q].rx + i
        /\ vnfStats'[d][1 - q].tx = vnfStats[d][1 - q].tx + o
    BY <1>1, <1>2, <1>4, <1>5 DEF OfVnf
  <2>2. seen'[q][d] = [sent |-> seen[q][d].sent + 1, in |-> seen[q][d].in + i,
                       out |-> seen[q][d].out + o, arrived |-> seen[q][d].arrived + o]
    BY <1>1, <1>2, <1>5
  <2> QED
    BY <1>5, <2>1, <2>2
<1>6. CASE ~(p = q /\ c = d)
  <2>1. /\ vnfStats'[d][q].rx = vnfStats[d][q].rx
        /\ vnfStats'[d][1 - q].tx = vnfStats[d][1 - q].tx
    <3>1. CASE c = d
      <4>1. q = 1 - p /\ 1 - q = p
        BY <1>6, <3>1 DEF Ports
      <4> HIDE DEF i, o
      <4>2. /\ vnfStats'[c][1 - p]
                 = [vnfStats[c][1 - p] EXCEPT !.tx = vnfStats[c][1 - p].tx + o]
            /\ vnfStats'[c][p] = [vnfStats[c][p] EXCEPT !.rx = vnfStats[c][p].rx + i]
        BY <1>1, <1>2, <1>4
      <4>3. vnfStats[c][1 - p] \in OfVnf /\ vnfStats[c][p] \in OfVnf
        BY <1>2, <1>4
      <4>4. vnfStats'[c][1 - p].rx = vnfStats[c][1 - p].rx
        BY <4>2, <4>3 DEF OfVnf
      <4>5. vnfStats'[c][p].tx = vnfStats[c][p].tx
        BY <4>2, <4>3 DEF OfVnf
      <4> QED
        BY <3>1, <4>1, <4>4, <4>5
    <3>2. CASE c # d
      BY <1>1, <1>2, <3>2
    <3> QED
      BY <3>1, <3>2
  <2>2. seen'[q][d] = seen[q][d]
    BY <1>1, <1>2, <1>6
  <2>3. /\ vnfStats[d][q].rx \in Int /\ vnfStats[d][1 - q].tx \in Int
        /\ seen[q][d].sent \in Int /\ seen[q][d].in \in Int
        /\ seen[q][d].out \in Int /\ seen[q][d].arrived \in Int
    BY <1>3 DEF OfVnf, History
  <2> QED
    BY <1>6, <2>1, <2>2, <2>3
<1> QED
  BY <1>5, <1>6

(* Each packet is counted by its own group, its own VNF and the history. *)
LEMMA FlowsStep == StatsTyping /\ FlowsAreSeen /\ [Next]_vars => FlowsAreSeen'
<1> SUFFICES ASSUME StatsTyping, FlowsAreSeen, [Next]_vars PROVE FlowsAreSeen'
  OBVIOUS
<1>1. cfg' = cfg /\ cfg \in ConfigSet
  BY SameCfg DEF StatsTyping
<1>2. /\ Chains' = Chains /\ Counted' = Counted /\ Unseen' = Unseen
      /\ AllCounted' = AllCounted
  BY <1>1, SameConfig
<1>3. ASSUME NEW c \in Chains, NEW p \in Ports, OtherPackets(c, p) PROVE FlowsAreSeen'
  BY <1>2, <1>3 DEF OtherPackets, FlowsAreSeen
<1>4. CASE Baseline
  <2>1. pc' = "traffic" /\ seen' = Unseen /\ flowStats' = Cleared /\ vnfStats' = vnfStats
    BY <1>4 DEF Baseline, FlowsAreSeen
  <2>2. \A p \in Ports, c \in Chains :
          /\ seen'[p][c].sent = 0 /\ seen'[p][c].arrived = 0
          /\ seen'[p][c].in = 0 /\ seen'[p][c].out = 0
    BY <2>1 DEF Unseen
  <2>3. ASSUME AllCounted, NEW p \in Ports, NEW c \in Chains
        PROVE  Sent(c, p)' = 0 /\ Received(c, 1 - p)' = 0
    <3>1. PgId(p, c) \in Counted /\ LatPgId(p, c) \in Counted /\ 1 - p \in Ports
      BY <1>1, <2>3, GroupsApart, OtherPort
    <3> DEFINE a == PgId(p, c)
               b == LatPgId(p, c)
    <3>2. /\ Sent(c, p)' = flowStats'[a].tx[p] + flowStats'[b].tx[p]
          /\ Received(c, 1 - p)' = flowStats'[a].rx[1 - p] + flowStats'[b].rx[1 - p]
      BY <1>1, <2>3, SentReceivedNext
    <3> HIDE DEF a, b
    <3>3. /\ flowStats'[a].tx[p] = 0 /\ flowStats'[b].tx[p] = 0
          /\ flowStats'[a].rx[1 - p] = 0 /\ flowStats'[b].rx[1 - p] = 0
      BY <2>1, <3>1 DEF Cleared, Zero, a, b
    <3> QED
      BY <3>2, <3>3
  <2>4. ASSUME ~cfg.shared, NEW p \in Ports, NEW c \in Chains
        PROVE  /\ vnfStats'[c][p].rx - midStats'[c][p].rx = 0
               /\ vnfStats'[c][1 - p].tx - midStats'[c][1 - p].tx = 0
    <3>1. 1 - p \in Ports /\ vnfStats[c][p] \in OfVnf /\ vnfStats[c][1 - p] \in OfVnf
      BY OtherPort DEF StatsTyping
    <3>2. midStats'[c][p].rx = vnfStats[c][p].rx /\ midStats'[c][1 - p].tx = vnfStats[c][1 - p].tx
      BY <1>4, <2>4, <3>1 DEF Baseline, WorkerUpdate, Updated, VnfCount
    <3> QED
      BY <2>1, <3>1, <3>2 DEF OfVnf
  <2> QED
    BY <1>1, <1>2, <2>1, <2>2, <2>3, <2>4 DEF FlowsAreSeen
<1>5. ASSUME NEW p \in Ports, NEW c \in Chains, NEW kind \in Kinds, NEW fate \in Fates,
             Packet(p, c, kind, fate)
      PROVE  FlowsAreSeen'
  <2>1. pc = "traffic" /\ pc' = "traffic" /\ midStats' = midStats
    BY <1>5, Zenon DEF Packet
  <2>2. ASSUME AllCounted, NEW q \in Ports, NEW d \in Chains
        PROVE  /\ Sent(d, q)' = seen'[q][d].sent
               /\ Received(d, 1 - q)' = seen'[q][d].arrived
    <3> DEFINE mine == p = q /\ c = d
    <3>1. /\ Sent(d, q) = seen[q][d].sent
          /\ Received(d, 1 - q) = seen[q][d].arrived
      BY <2>1, <2>2 DEF FlowsAreSeen
    <3>2. /\ Sent(d, q)' = Sent(d, q) + IF mine THEN 1 ELSE 0
          /\ Received(d, 1 - q)' = Received(d, 1 - q)
               + IF mine /\ fate = "arrives" THEN 1 ELSE 0
      BY <1>5, <2>2, PacketIsCounted
    <3>3. /\ seen'[q][d].sent = seen[q][d].sent + IF mine THEN 1 ELSE 0
          /\ seen'[q][d].arrived
               = seen[q][d].arrived + IF mine /\ fate = "arrives" THEN 1 ELSE 0
      BY <1>5, PacketPasses
    <3> QED
      BY <3>1, <3>2, <3>3
  <2>3. ASSUME ~cfg.shared, NEW q \in Ports, NEW d \in Chains
        PROVE  /\ vnfStats'[d][q].rx - midStats'[d][q].rx = seen'[q][d].in
               /\ vnfStats'[d][1 - q].tx - midStats'[d][1 - q].tx = seen'[q][d].out
    <3> DEFINE mine == p = q /\ c = d
               in == IF mine /\ fate \in {"arrives", "lostInVnf"} THEN 1 ELSE 0
               out == IF mine /\ fate = "arrives" THEN 1 ELSE 0
    <3>1. /\ vnfStats[d][q].rx - midStats[d][q].rx = seen[q][d].in
          /\ vnfStats[d][1 - q].tx - midStats[d][1 - q].tx = seen[q][d].out
      BY <2>1, <2>3 DEF FlowsAreSeen
    <3>2. /\ vnfStats'[d][q].rx = vnfStats[d][q].rx + in
          /\ vnfStats'[d][1 - q].tx = vnfStats[d][1 - q].tx + out
          /\ seen'[q][d].in = seen[q][d].in + in
          /\ seen'[q][d].out = seen[q][d].out + out
      BY <1>5, PacketPasses
    <3>3. 1 - q \in Ports
      BY OtherPort
    <3>4. /\ vnfStats[d][q].rx \in Int /\ vnfStats[d][1 - q].tx \in Int
          /\ midStats[d][q].rx \in Int /\ midStats[d][1 - q].tx \in Int
          /\ in \in Int /\ out \in Int
      BY <2>3, <3>3 DEF StatsTyping, OfVnf
    <3> HIDE DEF in, out
    <3> QED
      BY <2>1, <3>1, <3>2, <3>4
  <2> QED
    BY <1>1, <1>2, <2>1, <2>2, <2>3 DEF FlowsAreSeen
<1>6. CASE Collect \/ GetResults
  <2>1. /\ UNCHANGED <<flowStats, seen>> /\ pc' \in {"collected", "reported"}
        /\ pc \in {"traffic", "collected"}
    BY <1>6 DEF Collect, GetResults
  <2>2. ASSUME AllCounted, NEW p \in Ports, NEW c \in Chains
        PROVE  Sent(c, p)' = Sent(c, p) /\ Received(c, 1 - p)' = Received(c, 1 - p)
    BY <1>1, <2>1, <2>2, SentReceived, SentReceivedNext
  <2> QED
    BY <1>2, <2>1, <2>2 DEF FlowsAreSeen
<1>7. CASE NextFrame
  <2>1. seen' = Unseen /\ pc' \in {"done", "baseline"}
    BY <1>7 DEF NextFrame
  <2> QED
    BY <1>2, <2>1 DEF FlowsAreSeen
<1>8. CASE UNCHANGED vars
  <2>1. UNCHANGED <<pc, flowStats, vnfStats, midStats, seen, cfg>>
    BY <1>8 DEF vars
  <2>2. ASSUME AllCounted, NEW p \in Ports, NEW c \in Chains
        PROVE  Sent(c, p)' = Sent(c, p) /\ Received(c, 1 - p)' = Received(c, 1 - p)
    BY <1>1, <2>1, <2>2, SentReceived, SentReceivedNext
  <2> QED
    BY <1>2, <2>1, <2>2 DEF FlowsAreSeen
<1> QED
  BY <1>3, <1>4, <1>5, <1>6, <1>7, <1>8 DEF Next

(* Whether a port misses its counters depends on TRex's counters alone. *)
LEMMA SameAvailability ==
  ASSUME UNCHANGED <<cfg, flowStats, portStats>>, NEW p \in Ports
  PROVE  Unavailable(p)' <=> Unavailable(p)
BY DEF Unavailable, Sum, Received, OfGroup, Counted, Chains

(* What is collected is the difference to the baseline. *)
LEMMA CollectedStep ==
  StatsTyping /\ FlowsAreSeen /\ CollectedIsSeen /\ [Next]_vars => CollectedIsSeen'
<1> SUFFICES ASSUME StatsTyping, FlowsAreSeen, CollectedIsSeen, [Next]_vars,
                    pc' = "collected"
             PROVE  CollectedIsSeen'
  BY DEF CollectedIsSeen
<1>1. cfg' = cfg
  BY SameCfg
<1>2. Chains' = Chains /\ AllCounted' = AllCounted
  BY <1>1, SameConfig
<1>3. CASE Collect
  <2>1. pc = "traffic" /\ UNCHANGED <<flowStats, portStats, vnfStats, seen>>
    BY <1>3 DEF Collect
  <2>2. ASSUME AllCounted, NEW p \in Ports, NEW c \in Chains
        PROVE  /\ ifStats'[c][p].tx = seen[p][c].sent
               /\ ~Unavailable(1 - p) => ifStats'[c][1 - p].rx = seen[p][c].arrived
    <3>1. 1 - p \in Ports
      BY OtherPort
    <3>2. /\ ifStats'[c][p].tx = Sent(c, p)
          /\ ~Unavailable(1 - p) => ifStats'[c][1 - p].rx = Received(c, 1 - p)
      BY <1>3, <3>1 DEF Collect
    <3> QED
      BY <2>1, <2>2, <3>2 DEF FlowsAreSeen
  <2>3. ASSUME ~cfg.shared, NEW p \in Ports, NEW c \in Chains
        PROVE  midStats'[c][p].rx = seen[p][c].in /\ midStats'[c][1 - p].tx = seen[p][c].out
    <3>1. 1 - p \in Ports
      BY OtherPort
    <3>2. /\ midStats'[c][p].rx = vnfStats[c][p].rx - midStats[c][p].rx
          /\ midStats'[c][1 - p].tx = vnfStats[c][1 - p].tx - midStats[c][1 - p].tx
      BY <1>3, <2>3, <3>1 DEF Collect, WorkerUpdate, Updated, VnfCount
    <3> QED
      BY <2>1, <2>3, <3>2 DEF FlowsAreSeen
  <2>4. \A p \in Ports : Unavailable(1 - p)' <=> Unavailable(1 - p)
    BY <1>1, <2>1, OtherPort, SameAvailability
  <2> QED
    BY <1>1, <1>2, <2>1, <2>2, <2>3, <2>4 DEF CollectedIsSeen
<1>4. CASE UNCHANGED vars
  <2>1. UNCHANGED <<pc, cfg, flowStats, portStats, ifStats, midStats, seen>>
    BY <1>4 DEF vars
  <2>2. \A p \in Ports : Unavailable(1 - p)' <=> Unavailable(1 - p)
    BY <2>1, OtherPort, SameAvailability
  <2> QED
    BY <1>2, <2>1, <2>2 DEF CollectedIsSeen
<1>5. CASE Baseline \/ GetResults \/ NextFrame
  BY <1>5 DEF Baseline, GetResults, NextFrame
<1>6. ASSUME NEW c \in Chains, NEW p \in Ports, OtherPackets(c, p) PROVE FALSE
  BY <1>6 DEF OtherPackets
<1>7. ASSUME NEW p \in Ports, NEW c \in Chains, NEW kind \in Kinds, NEW fate \in Fates,
             Packet(p, c, kind, fate)
      PROVE  FALSE
  <2>1. pc = "traffic" /\ pc' = pc
    BY <1>7, Zenon DEF Packet
  <2> QED
    BY <2>1
<1> QED
  BY <1>3, <1>4, <1>5, <1>6, <1>7 DEF Next

(* The rows are taken from the counts collected. *)
LEMMA RowsStep ==
  StatsTyping /\ CollectedIsSeen /\ RowsAreTheChains /\ [Next]_vars => RowsAreTheChains'
<1> SUFFICES ASSUME StatsTyping, CollectedIsSeen, RowsAreTheChains, [Next]_vars,
                    pc' = "reported", AllCounted'
             PROVE  \A p \in Ports, c \in Chains' :
                      /\ results'[p].chains[c][1] = seen'[p][c].sent
                      /\ ~cfg'.shared => /\ results'[p].chains[c][2] = seen'[p][c].in
                                         /\ results'[p].chains[c][3] = seen'[p][c].out
                      /\ ~Unavailable(1 - p)'
                           => results'[p].chains[c][4] = seen'[p][c].arrived
  BY DEF RowsAreTheChains, AllCounted
<1>1. cfg' = cfg
  BY SameCfg
<1>2. Chains' = Chains /\ AllCounted
  BY <1>1, SameConfig
<1>3. CASE GetResults
  <2>1. pc = "collected" /\ UNCHANGED <<cfg, flowStats, portStats, ifStats, midStats, seen>>
    BY <1>3 DEF GetResults
  <2>2. \A p \in Ports : Unavailable(1 - p)' <=> Unavailable(1 - p)
    BY <2>1, OtherPort, SameAvailability
  <2>3. ASSUME NEW p \in Ports, NEW c \in Chains
        PROVE  /\ results'[p].chains[c][1] = ifStats[c][p].tx
               /\ ~cfg.shared => /\ results'[p].chains[c][2] = midStats[c][p].rx
                                 /\ results'[p].chains[c][3] = midStats[c][1 - p].tx
               /\ results'[p].chains[c][4] = ifStats[c][1 - p].rx
    <3>1. results'[p].chains[c] = ChainRow(c, p)
      BY <1>3 DEF GetResults
    <3> QED
      BY <3>1 DEF ChainRow, PathCounts
  <2>4. ASSUME NEW p \in Ports, NEW c \in Chains
        PROVE  /\ ifStats[c][p].tx = seen[p][c].sent
               /\ ~Unavailable(1 - p) => ifStats[c][1 - p].rx = seen[p][c].arrived
               /\ ~cfg.shared => /\ midStats[c][p].rx = seen[p][c].in
                                 /\ midStats[c][1 - p].tx = seen[p][c].out
    BY <1>2, <2>1 DEF CollectedIsSeen
  <2> QED
    BY <1>1, <1>2, <2>1, <2>2, <2>3, <2>4
<1>4. CASE UNCHANGED vars
  <2>1. UNCHANGED <<pc, cfg, flowStats, portStats, results, seen>>
    BY <1>4 DEF vars
  <2>2. \A p \in Ports : Unavailable(1 - p)' <=> Unavailable(1 - p)
    BY <2>1, OtherPort, SameAvailability
  <2> QED
    BY <1>2, <2>1, <2>2 DEF RowsAreTheChains, AllCounted
<1>5. CASE Baseline \/ Collect \/ NextFrame
  BY <1>5 DEF Baseline, Collect, NextFrame
<1>6. ASSUME NEW c \in Chains, NEW p \in Ports, OtherPackets(c, p) PROVE FALSE
  BY <1>6 DEF OtherPackets
<1>7. ASSUME NEW p \in Ports, NEW c \in Chains, NEW kind \in Kinds, NEW fate \in Fates,
             Packet(p, c, kind, fate)
      PROVE  FALSE
  <2>1. pc = "traffic" /\ pc' = pc
    BY <1>7, Zenon DEF Packet
  <2> QED
    BY <2>1
<1> QED
  BY <1>3, <1>4, <1>5, <1>6, <1>7 DEF Next

(* The inductive invariant holds from the start of a run to its end. *)
LEMMA InitialRows == Init => RowsInv
<1> SUFFICES ASSUME Init PROVE RowsInv
  OBVIOUS
<1>1. cfg \in ConfigSet /\ pc = "baseline" /\ seen = Unseen
  BY PacketStatsAssumption DEF Init
<1>2. StatsTyping
  <2>1. flowStats \in [Counted -> Counters]
    BY ClearedTyping DEF Init
  <2>2. /\ vnfStats \in [Chains -> [Ports -> OfVnf]]
        /\ midStats \in [Chains -> [Ports -> OfVnf]]
    BY DEF Init, OfVnf
  <2> QED
    BY <1>1, <2>1, <2>2, UnseenTyping DEF StatsTyping
<1> QED
  BY <1>1, <1>2 DEF RowsInv, FlowsAreSeen, CollectedIsSeen, RowsAreTheChains

(* No step breaks the inductive invariant. *)
LEMMA RowsKept == RowsInv /\ [Next]_vars => RowsInv'
BY TypingStep, FlowsStep, CollectedStep, RowsStep DEF RowsInv

(* For any number of chains up to PORT_PG_ID_MASK, any frame sizes and     *)
(* anything that happens to their packets, the row of a chain shows what   *)
(* its own packets did, where every packet is counted                      *)
(* (trex_gen.py:112-125, 262-280; packet_stats.py:98-111).                 *)
THEOREM RowsOfChains == Spec => []RowsAreTheChains
<1>1. RowsInv => RowsAreTheChains
  BY DEF RowsInv
<1> QED
  BY <1>1, InitialRows, RowsKept, PTL DEF Spec

-----------------------------------------------------------------------------
(* Recursive functions: a sum, and a total, by induction over an interval *)

(* Induction over an interval, with a set of numbers.                      *)
LEMMA IntervalInduction ==
  ASSUME NEW n \in Nat, NEW S, 0 \in S, \A i \in 0..(n - 1) : i \in S => i + 1 \in S
  PROVE  \A i \in 0..n : i \in S
<1> SUFFICES ASSUME NEW m \in 0..n, m \notin S
             PROVE FALSE
  OBVIOUS
<1> DEFINE T == {i \in 0..(m - 1) : i \in S}
           f == [i \in T |-> i + 1]
<1>1. m # 0 /\ m - 1 \in Nat
  OBVIOUS
<1>2. IsFiniteSet(T)
  <2>1. IsFiniteSet(0..(m - 1))
    BY FS_Interval, <1>1
  <2> QED
    BY <2>1, FS_Subset
<1>3. 0 \in T
  BY <1>1
<1>4. f \in [T -> T \ {0}]
  <2> SUFFICES ASSUME NEW i \in T PROVE i + 1 \in T /\ i + 1 # 0
    OBVIOUS
  <2>1. i \in 0..(n - 1) /\ i \in S /\ i \in 0..(m - 1)
    OBVIOUS
  <2>2. i + 1 \in S
    BY <2>1
  <2>3. i + 1 # m
    BY <2>2
  <2> QED
    BY <2>1, <2>2, <2>3
<1>5. IsFiniteSet(T \ {0}) /\ Cardinality(T \ {0}) = Cardinality(T) - 1
  BY <1>2, <1>3, FS_RemoveElement
<1>6. Cardinality(T) \in Nat
  BY <1>2, FS_CardinalityType
<1>7. Cardinality(T \ {0}) < Cardinality(T)
  BY <1>5, <1>6
<1>8. PICK x, y \in T : x # y /\ f[x] = f[y]
  <2> HIDE DEF T, f
  <2> QED
    BY <1>2, <1>4, <1>5, <1>7, FS_PigeonHole
<1> QED
  BY <1>8

(* F is what a is turned into by the first steps of h. *)
Iterates(F, n, a, h) ==
  /\ F \in [0..n -> Int]
  /\ F[0] = a
  /\ \A k \in 1..n : F[k] = h[k][F[k - 1]]

(* Such an iteration exists, whatever the steps are. *)
LEMMA IterationExists ==
  ASSUME NEW n \in Nat, NEW a \in Int, NEW h \in [1..n -> [Int -> Int]]
  PROVE  \E F : Iterates(F, n, a, h)
<1> DEFINE Good == {m \in Nat : \E F : Iterates(F, m, a, h)}
<1>1. 0 \in Good
  <2> DEFINE F == [i \in 0..0 |-> a]
  <2>1. F \in [0..0 -> Int] /\ F[0] = a /\ \A k \in 1..0 : F[k] = h[k][F[k - 1]]
    OBVIOUS
  <2> QED
    BY <2>1 DEF Iterates
<1>2. ASSUME NEW m \in 0..(n - 1), m \in Good PROVE m + 1 \in Good
  <2>1. PICK F : Iterates(F, m, a, h)
    BY <1>2
  <2> DEFINE last == h[m + 1][F[m]]
             G == [i \in 0..(m + 1) |-> IF i = m + 1 THEN last ELSE F[i]]
  <2>2. F \in [0..m -> Int] /\ F[0] = a /\ \A k \in 1..m : F[k] = h[k][F[k - 1]]
    BY <2>1 DEF Iterates
  <2>3. last \in Int
    <3>1. m \in 0..m /\ m + 1 \in 1..n
      OBVIOUS
    <3>2. F[m] \in Int /\ h[m + 1] \in [Int -> Int]
      BY <2>2, <3>1
    <3> QED
      BY <3>2
  <2> HIDE DEF last
  <2>4. G \in [0..(m + 1) -> Int]
    <3>1. \A i \in 0..(m + 1) : i # m + 1 => i \in 0..m
      OBVIOUS
    <3> QED
      BY <2>2, <2>3, <3>1
  <2>5. G[0] = a
    BY <2>2
  <2>6. ASSUME NEW k \in 1..(m + 1) PROVE G[k] = h[k][G[k - 1]]
    <3>1. k - 1 \in 0..(m + 1) /\ k - 1 # m + 1 /\ k \in 0..(m + 1)
      OBVIOUS
    <3>2. G[k - 1] = F[k - 1]
      BY <3>1
    <3>3. CASE k = m + 1
      <4>1. G[k] = last /\ k - 1 = m
        BY <3>1, <3>3
      <4> QED
        BY <3>2, <3>3, <4>1 DEF last
    <3>4. CASE k # m + 1
      <4>1. k \in 1..m /\ G[k] = F[k]
        BY <3>1, <3>4
      <4> QED
        BY <2>2, <3>2, <4>1
    <3> QED
      BY <3>3, <3>4
  <2> HIDE DEF G
  <2>7. Iterates(G, m + 1, a, h)
    BY <2>4, <2>5, <2>6 DEF Iterates
  <2>8. m + 1 \in Nat
    OBVIOUS
  <2> QED
    BY <2>7, <2>8
<1> HIDE DEF Good
<1>3. \A i \in 0..n : i \in Good
  BY <1>1, <1>2, IntervalInduction
<1> QED
  BY <1>3 DEF Good

(* The sum of f over 0..(n - 1), of which Sum is an instance. *)
IsSum(F, n, f) == F = [k \in 0..n |-> IF k = 0 THEN 0 ELSE F[k - 1] + f[k - 1]]

(* Sum adds the chains up from left to right. *)
LEMMA SumIs ==
  ASSUME cfg \in ConfigSet, NEW f \in [Chains -> Int]
  PROVE  \E F : /\ Sum(f) = F[cfg.chains] /\ F \in [0..cfg.chains -> Int]
                /\ F[0] = 0 /\ \A k \in 1..cfg.chains : F[k] = F[k - 1] + f[k - 1]
<1> DEFINE n == cfg.chains
           h == [k \in 1..n |-> [x \in Int |-> x + f[k - 1]]]
           C == CHOOSE F : F = [k \in 0..n |-> IF k = 0 THEN 0 ELSE F[k - 1] + f[k - 1]]
<1>1. n \in Nat \ {0} /\ Chains = 0..(n - 1)
  BY DEF ConfigSet, Chains
<1>2. Sum(f) = C[n]
  BY DEF Sum
<1> HIDE DEF n
<1>3. \A k \in 1..n : k - 1 \in Chains /\ f[k - 1] \in Int
  BY <1>1
<1>4. h \in [1..n -> [Int -> Int]] /\ \A k \in 1..n : \A x \in Int : h[k][x] = x + f[k - 1]
  BY <1>3
<1> HIDE DEF h
<1>5. PICK F : Iterates(F, n, 0, h)
  <2>1. n \in Nat /\ 0 \in Int
    BY <1>1
  <2>2. h \in [1..n -> [Int -> Int]]
    BY <1>4, Zenon
  <2> HIDE DEF C
  <2> QED
    BY <2>1, <2>2, IterationExists
<1>6. F \in [0..n -> Int] /\ F[0] = 0 /\ \A k \in 1..n : F[k] = F[k - 1] + f[k - 1]
  <2>1. F \in [0..n -> Int] /\ F[0] = 0 /\ \A k \in 1..n : F[k] = h[k][F[k - 1]]
    BY <1>5 DEF Iterates
  <2>2. \A k \in 1..n : k - 1 \in 0..n
    BY <1>1
  <2> QED
    BY <1>4, <2>1, <2>2
<1>7. IsSum(F, n, f)
  <2>1. \A k \in 0..n : F[k] = IF k = 0 THEN 0 ELSE F[k - 1] + f[k - 1]
    BY <1>1, <1>6
  <2> QED
    BY <1>6, <2>1 DEF IsSum
<1>8. IsSum(C, n, f)
  <2>1. \E G : G = [k \in 0..n |-> IF k = 0 THEN 0 ELSE G[k - 1] + f[k - 1]]
    BY <1>7, Zenon DEF IsSum
  <2>2. C = [k \in 0..n |-> IF k = 0 THEN 0 ELSE C[k - 1] + f[k - 1]]
    BY <2>1, Zenon
  <2> HIDE DEF C
  <2> QED
    BY <2>2, Zenon DEF IsSum
<1> HIDE DEF C
<1>9. \A k \in 0..n : C[k] = IF k = 0 THEN 0 ELSE C[k - 1] + f[k - 1]
  BY <1>8 DEF IsSum
<1>10. \A k \in 0..n : C[k] = F[k]
  <2> DEFINE Good == {k \in 0..n : C[k] = F[k]}
  <2>1. 0 \in Good
    BY <1>1, <1>6, <1>9
  <2>2. ASSUME NEW k \in 0..(n - 1), k \in Good PROVE k + 1 \in Good
    <3>1. k + 1 \in 0..n /\ k + 1 \in 1..n /\ (k + 1) - 1 = k /\ k + 1 # 0
      BY <1>1
    <3>2. C[k + 1] = C[k] + f[k] /\ F[k + 1] = F[k] + f[k]
      BY <1>6, <1>9, <3>1
    <3> QED
      BY <2>2, <3>1, <3>2
  <2> HIDE DEF Good
  <2>3. \A k \in 0..n : k \in Good
    BY <1>1, <2>1, <2>2, IntervalInduction
  <2> QED
    BY <2>3 DEF Good
<1> QED
  BY <1>1, <1>2, <1>6, <1>10, SMTT(30) DEF n

(* Sums are taken term by term. *)
LEMMA SumMinus ==
  ASSUME cfg \in ConfigSet, NEW f \in [Chains -> Int], NEW g \in [Chains -> Int],
         NEW h \in [Chains -> Int], \A c \in Chains : h[c] = f[c] - g[c]
  PROVE  Sum(h) = Sum(f) - Sum(g)
<1> DEFINE n == cfg.chains
<1>1. n \in Nat /\ Chains = 0..(n - 1)
  BY DEF ConfigSet, Chains
<1>2. PICK F : /\ Sum(f) = F[n] /\ F \in [0..n -> Int]
               /\ F[0] = 0 /\ \A k \in 1..n : F[k] = F[k - 1] + f[k - 1]
  BY SumIs
<1>3. PICK G : /\ Sum(g) = G[n] /\ G \in [0..n -> Int]
               /\ G[0] = 0 /\ \A k \in 1..n : G[k] = G[k - 1] + g[k - 1]
  BY SumIs
<1>4. PICK H : /\ Sum(h) = H[n] /\ H \in [0..n -> Int]
               /\ H[0] = 0 /\ \A k \in 1..n : H[k] = H[k - 1] + h[k - 1]
  BY SumIs
<1> HIDE DEF n
<1> DEFINE Good == {k \in 0..n : H[k] = F[k] - G[k]}
<1>5. 0 \in Good
  BY <1>1, <1>2, <1>3, <1>4
<1>6. ASSUME NEW k \in 0..(n - 1), k \in Good PROVE k + 1 \in Good
  <2>1. k + 1 \in 0..n /\ k + 1 \in 1..n /\ (k + 1) - 1 = k /\ k \in 0..n /\ k \in Chains
    BY <1>1
  <2>2. /\ F[k + 1] = F[k] + f[k] /\ G[k + 1] = G[k] + g[k] /\ H[k + 1] = H[k] + h[k]
        /\ F[k] \in Int /\ G[k] \in Int /\ H[k] \in Int
    BY <1>2, <1>3, <1>4, <2>1
  <2>3. f[k] \in Int /\ g[k] \in Int /\ h[k] = f[k] - g[k] /\ H[k] = F[k] - G[k]
    BY <1>6, <2>1
  <2>4. H[k + 1] = F[k + 1] - G[k + 1]
    BY <2>2, <2>3
  <2> QED
    BY <2>1, <2>4
<1> HIDE DEF Good
<1>7. \A k \in 0..n : k \in Good
  BY <1>1, <1>5, <1>6, IntervalInduction
<1>8. n \in 0..n
  BY <1>1
<1> QED
  BY <1>2, <1>3, <1>4, <1>7, <1>8 DEF Good

(* The total of the counts up to the n-th, of which Total is an instance.  *)
IsTotal(F, n, counts, totals, shared) ==
  F = [k \in 0..n |-> IF k = 0 \/ shared THEN counts[0]
                      ELSE Added(Added(F[k - 1], counts[k]), totals[k])]

(* An added counter is a number. *)
LEMMA AddedType == \A a, b \in Int : Added(a, b) \in Int
BY DEF Added

(* Total adds the chains up from left to right, with what they are told.   *)
LEMMA TotalIs ==
  ASSUME cfg \in ConfigSet, NEW counts \in [Chains -> Int], NEW totals \in [Chains -> Int],
         NEW shared \in BOOLEAN
  PROVE  \E F : /\ Total(counts, totals, shared) = F[LastChain] /\ F \in [0..LastChain -> Int]
                /\ F[0] = counts[0]
                /\ \A k \in 1..LastChain :
                     F[k] = IF shared THEN counts[0]
                            ELSE Added(Added(F[k - 1], counts[k]), totals[k])
<1> DEFINE n == LastChain
           h == [k \in 1..n |-> [x \in Int |->
                   IF shared THEN counts[0] ELSE Added(Added(x, counts[k]), totals[k])]]
           C == CHOOSE F : F = [k \in 0..n |-> IF k = 0 \/ shared THEN counts[0]
                                   ELSE Added(Added(F[k - 1], counts[k]), totals[k])]
<1>1. n \in Nat /\ Chains = 0..n /\ counts[0] \in Int
  BY DEF ConfigSet, Chains, LastChain
<1>2. Total(counts, totals, shared) = C[n]
  BY DEF Total
<1> HIDE DEF n
<1>3. \A k \in 1..n : counts[k] \in Int /\ totals[k] \in Int
  BY <1>1
<1>4. h \in [1..n -> [Int -> Int]]
  <2>1. ASSUME NEW k \in 1..n, NEW x \in Int
        PROVE  (IF shared THEN counts[0] ELSE Added(Added(x, counts[k]), totals[k])) \in Int
    BY <1>1, <1>3, AddedType
  <2> QED
    BY <2>1
<1>5. \A k \in 1..n : \A x \in Int :
        h[k][x] = IF shared THEN counts[0] ELSE Added(Added(x, counts[k]), totals[k])
  OBVIOUS
<1> HIDE DEF h, C
<1>6. PICK F : Iterates(F, n, counts[0], h)
  BY <1>1, <1>4, IterationExists
<1>7. /\ F \in [0..n -> Int] /\ F[0] = counts[0]
      /\ \A k \in 1..n : F[k] = IF shared THEN counts[0]
                                ELSE Added(Added(F[k - 1], counts[k]), totals[k])
  <2>1. F \in [0..n -> Int] /\ F[0] = counts[0] /\ \A k \in 1..n : F[k] = h[k][F[k - 1]]
    BY <1>6 DEF Iterates
  <2>2. \A k \in 1..n : k - 1 \in 0..n
    BY <1>1
  <2>3. \A k \in 1..n : F[k - 1] \in Int
    BY <2>1, <2>2
  <2> QED
    BY <1>5, <2>1, <2>3
<1>8. IsTotal(F, n, counts, totals, shared)
  <2>1. \A k \in 0..n : F[k] = IF k = 0 \/ shared THEN counts[0]
                               ELSE Added(Added(F[k - 1], counts[k]), totals[k])
    BY <1>1, <1>7
  <2> QED
    BY <1>7, <2>1 DEF IsTotal
<1>9. IsTotal(C, n, counts, totals, shared)
  <2>1. \E G : G = [k \in 0..n |-> IF k = 0 \/ shared THEN counts[0]
                       ELSE Added(Added(G[k - 1], counts[k]), totals[k])]
    BY <1>8, Zenon DEF IsTotal
  <2>2. C = [k \in 0..n |-> IF k = 0 \/ shared THEN counts[0]
                 ELSE Added(Added(C[k - 1], counts[k]), totals[k])]
    BY <2>1, Zenon DEF C
  <2> QED
    BY <2>2, Zenon DEF IsTotal
<1>10. \A k \in 0..n : C[k] = IF k = 0 \/ shared THEN counts[0]
                              ELSE Added(Added(C[k - 1], counts[k]), totals[k])
  BY <1>9 DEF IsTotal
<1>11. \A k \in 0..n : C[k] = F[k]
  <2> DEFINE Good == {k \in 0..n : C[k] = F[k]}
  <2>1. 0 \in Good
    BY <1>1, <1>7, <1>10
  <2>2. ASSUME NEW k \in 0..(n - 1), k \in Good PROVE k + 1 \in Good
    <3>1. k + 1 \in 0..n /\ k + 1 \in 1..n /\ (k + 1) - 1 = k /\ k + 1 # 0
      BY <1>1
    <3>2. /\ C[k + 1] = IF shared THEN counts[0]
                        ELSE Added(Added(C[k], counts[k + 1]), totals[k + 1])
          /\ F[k + 1] = IF shared THEN counts[0]
                        ELSE Added(Added(F[k], counts[k + 1]), totals[k + 1])
      BY <1>7, <1>10, <3>1
    <3> QED
      BY <2>2, <3>1, <3>2
  <2> HIDE DEF Good
  <2>3. \A k \in 0..n : k \in Good
    BY <1>1, <2>1, <2>2, IntervalInduction
  <2> QED
    BY <2>3 DEF Good
<1>12. n \in 0..n
  BY <1>1
<1>13. Total(counts, totals, shared) = F[n]
  BY <1>2, <1>11, <1>12
<1> QED
  BY <1>7, <1>13, Zenon DEF n

(* A total of known counts, where nothing is left over, is their sum. *)
LEMMA TotalIsSum ==
  ASSUME cfg \in ConfigSet, NEW counts \in [Chains -> Nat], NEW totals \in [Chains -> Int],
         \A c \in Chains : totals[c] = 0
  PROVE  Total(counts, totals, FALSE) = Sum(counts)
<1> DEFINE n == LastChain
<1>1. n \in Nat /\ Chains = 0..n /\ n + 1 = cfg.chains
  BY DEF ConfigSet, Chains, LastChain
<1>2. PICK F : /\ Total(counts, totals, FALSE) = F[n] /\ F \in [0..n -> Int]
               /\ F[0] = counts[0]
               /\ \A k \in 1..n : F[k] = Added(Added(F[k - 1], counts[k]), totals[k])
  <2>1. counts \in [Chains -> Int]
    OBVIOUS
  <2>2. \E F : /\ Total(counts, totals, FALSE) = F[n] /\ F \in [0..n -> Int]
               /\ F[0] = counts[0]
               /\ \A k \in 1..n : F[k] = IF FALSE THEN counts[0]
                                         ELSE Added(Added(F[k - 1], counts[k]), totals[k])
    BY <2>1, TotalIs, Zenon
  <2> QED
    BY <2>2, Zenon
<1>3. PICK G : /\ Sum(counts) = G[n + 1] /\ G \in [0..(n + 1) -> Int]
               /\ G[0] = 0 /\ \A k \in 1..(n + 1) : G[k] = G[k - 1] + counts[k - 1]
  <2>1. counts \in [Chains -> Int]
    OBVIOUS
  <2>2. \E G : /\ Sum(counts) = G[cfg.chains] /\ G \in [0..cfg.chains -> Int]
               /\ G[0] = 0 /\ \A k \in 1..cfg.chains : G[k] = G[k - 1] + counts[k - 1]
    BY <2>1, SumIs, Zenon
  <2> QED
    BY <1>1, <2>2, Zenon
<1> HIDE DEF n
<1> DEFINE Good == {k \in 0..n : F[k] = G[k + 1] /\ F[k] >= 0}
<1>4. 0 \in Good
  <2>1. 0 \in Chains /\ 1 \in 1..(n + 1) /\ 0 \in 0..n /\ 1 - 1 = 0
    BY <1>1
  <2>2. G[1] = G[0] + counts[0] /\ counts[0] \in Nat
    BY <1>3, <2>1
  <2> QED
    BY <1>2, <1>3, <2>1, <2>2
<1>5. ASSUME NEW k \in 0..(n - 1), k \in Good PROVE k + 1 \in Good
  <2>1. /\ k + 1 \in 0..n /\ k + 1 \in 1..n /\ k + 2 \in 1..(n + 1)
        /\ (k + 1) - 1 = k /\ (k + 2) - 1 = k + 1 /\ k + 1 \in Chains
        /\ k \in 0..n /\ k + 1 \in 0..(n + 1)
    BY <1>1
  <2>2. /\ F[k + 1] = Added(Added(F[k], counts[k + 1]), totals[k + 1])
        /\ G[k + 2] = G[k + 1] + counts[k + 1] /\ G[k + 1] \in Int
    BY <1>2, <1>3, <2>1
  <2>3. counts[k + 1] \in Nat /\ totals[k + 1] = 0 /\ F[k] = G[k + 1] /\ F[k] >= 0
    BY <1>5, <2>1
  <2>4. Added(F[k], counts[k + 1]) = F[k] + counts[k + 1]
    BY <2>2, <2>3 DEF Added, Missing
  <2>5. F[k + 1] = F[k] + counts[k + 1]
    BY <2>2, <2>3, <2>4 DEF Added, Missing
  <2>6. (k + 1) + 1 = k + 2
    OBVIOUS
  <2> QED
    BY <2>1, <2>2, <2>3, <2>5, <2>6
<1> HIDE DEF Good
<1>6. \A k \in 0..n : k \in Good
  BY <1>1, <1>4, <1>5, IntervalInduction
<1>7. n \in 0..n
  BY <1>1
<1> QED
  BY <1>2, <1>3, <1>6, <1>7 DEF Good

(* A total of a shared interface is what every chain shows. *)
LEMMA TotalOfOne ==
  ASSUME cfg \in ConfigSet, NEW counts \in [Chains -> Int], NEW totals \in [Chains -> Int]
  PROVE  Total(counts, totals, TRUE) = counts[0]
<1>1. PICK F : /\ Total(counts, totals, TRUE) = F[LastChain]
               /\ F[0] = counts[0] /\ \A k \in 1..LastChain : F[k] = counts[0]
  <2>1. \E F : /\ Total(counts, totals, TRUE) = F[LastChain] /\ F \in [0..LastChain -> Int]
               /\ F[0] = counts[0]
               /\ \A k \in 1..LastChain :
                    F[k] = IF TRUE THEN counts[0]
                           ELSE Added(Added(F[k - 1], counts[k]), totals[k])
    BY TotalIs, Zenon
  <2> QED
    BY <2>1, Zenon
<1>2. LastChain = 0 \/ LastChain \in 1..LastChain
  BY DEF LastChain, ConfigSet
<1> QED
  BY <1>1, <1>2

(* A total of missing counts is what the last chain is told. *)
LEMMA TotalOfMissing ==
  ASSUME cfg \in ConfigSet, cfg.chains > 1,
         NEW counts \in [Chains -> Int], NEW totals \in [Chains -> Int],
         \A c \in Chains : counts[c] = Missing,
         \A c \in Chains : c # LastChain => totals[c] = 0, totals[LastChain] > 0
  PROVE  Total(counts, totals, FALSE) = totals[LastChain]
<1> DEFINE n == LastChain
<1>1. n \in Nat \ {0} /\ Chains = 0..n
  BY DEF ConfigSet, Chains, LastChain
<1>2. PICK F : /\ Total(counts, totals, FALSE) = F[n] /\ F \in [0..n -> Int]
               /\ F[0] = counts[0]
               /\ \A k \in 1..n : F[k] = Added(Added(F[k - 1], counts[k]), totals[k])
  <2>1. \E F : /\ Total(counts, totals, FALSE) = F[n] /\ F \in [0..n -> Int]
               /\ F[0] = counts[0]
               /\ \A k \in 1..n : F[k] = IF FALSE THEN counts[0]
                                         ELSE Added(Added(F[k - 1], counts[k]), totals[k])
    BY TotalIs, Zenon
  <2> QED
    BY <2>1, Zenon
<1> HIDE DEF n
<1> DEFINE Good == {k \in 0..n : k < n => F[k] = Missing}
<1>3. 0 \in Good
  BY <1>1, <1>2
<1>4. ASSUME NEW k \in 0..(n - 1), k \in Good PROVE k + 1 \in Good
  <2>1. /\ k + 1 \in 0..n /\ k + 1 \in 1..n /\ (k + 1) - 1 = k /\ k + 1 \in Chains /\ k < n
    BY <1>1
  <2>2. F[k + 1] = Added(Added(F[k], counts[k + 1]), totals[k + 1])
    BY <1>2, <2>1
  <2>3. counts[k + 1] = Missing /\ F[k] = Missing
    BY <1>4, <2>1
  <2>4. k + 1 < n => totals[k + 1] = 0
    BY <2>1 DEF n
  <2> QED
    BY <2>1, <2>2, <2>3, <2>4 DEF Added
<1> HIDE DEF Good
<1>5. \A k \in 0..n : k \in Good
  <2>1. n \in Nat
    BY <1>1
  <2> QED
    BY <1>3, <1>4, <2>1, IntervalInduction
<1>6. n - 1 \in 0..n /\ n - 1 < n /\ n \in 1..n /\ n \in Chains
  BY <1>1
<1>7. F[n - 1] = Missing /\ F[n] = Added(Added(F[n - 1], counts[n]), totals[n])
  BY <1>2, <1>5, <1>6 DEF Good
<1>8. counts[n] = Missing /\ totals[n] > 0 /\ totals[n] \in Int
  BY <1>6 DEF n
<1>9. Added(Missing, Missing) = Missing
  BY DEF Added
<1>10. F[n] = Added(Missing, totals[n])
  BY <1>7, <1>8, <1>9
<1>11. Added(Missing, totals[n]) = totals[n]
  BY <1>8 DEF Added, Missing
<1> QED
  BY <1>2, <1>10, <1>11 DEF n

-----------------------------------------------------------------------------
(* The total rows *)

(* Of each chain: what the VNF's counters show of other packets, and what  *)
(* was seen of its own.                                                    *)
AheadIn(p) == [c \in Chains |-> vnfStats[c][p].rx - seen[p][c].in]
AheadOut(p) == [c \in Chains |-> vnfStats[c][1 - p].tx - seen[p][c].out]
SeenSent(p) == [c \in Chains |-> seen[p][c].sent]
SeenIn(p) == [c \in Chains |-> seen[p][c].in]
SeenOut(p) == [c \in Chains |-> seen[p][c].out]
SeenArrived(p) == [c \in Chains |-> seen[p][c].arrived]

(* Only the last chain has a total of its port. *)
TotalsTyping ==
  /\ portStats \in [Ports -> Nat]
  /\ \A c \in Chains, p \in Ports :
       /\ ifStats[c][p].total \in Nat
       /\ c # LastChain => ifStats[c][p].total = 0

(* Shared interfaces show the packets of all chains. *)
SharedIsSeen ==
  cfg.shared =>
    /\ pc = "traffic" =>
         \A p \in Ports, c \in Chains :
           /\ midStats[c][p].rx = Sum(AheadIn(p))
           /\ midStats[c][1 - p].tx = Sum(AheadOut(p))
    /\ pc = "collected" =>
         \A p \in Ports, c \in Chains :
           /\ midStats[c][p].rx = Sum(SeenIn(p))
           /\ midStats[c][1 - p].tx = Sum(SeenOut(p))

(* Where flow statistics are missing, the last chain has the port's total. *)
MissingIsMarked ==
  pc = "collected" /\ cfg.chains > 1 =>
    \A p \in Ports : Unavailable(p) =>
      /\ \A c \in Chains : ifStats[c][p].rx = Missing
      /\ ifStats[LastChain][p].total = portStats[p]

(* Sum, without the state. *)
SumOf(n, f) ==
  LET upTo[k \in 0..n] == IF k = 0 THEN 0 ELSE upTo[k - 1] + f[k - 1]
  IN upTo[n]

(* They are the same, so that sums of two states can be compared. *)
LEMMA SumIsSumOf == \A f : Sum(f) = SumOf(cfg.chains, f)
BY DEF Sum, SumOf

(* The sums depend on the configuration and on what is summed alone. *)
LEMMA SameSums ==
  ASSUME cfg' = cfg, NEW p \in Ports
  PROVE  /\ AheadIn(p)' = AheadIn(p) => Sum(AheadIn(p))' = Sum(AheadIn(p))
         /\ AheadOut(p)' = AheadOut(p) => Sum(AheadOut(p))' = Sum(AheadOut(p))
         /\ SeenSent(p)' = SeenSent(p) => Sum(SeenSent(p))' = Sum(SeenSent(p))
         /\ SeenIn(p)' = SeenIn(p) => Sum(SeenIn(p))' = Sum(SeenIn(p))
         /\ SeenOut(p)' = SeenOut(p) => Sum(SeenOut(p))' = Sum(SeenOut(p))
         /\ SeenArrived(p)' = SeenArrived(p) => Sum(SeenArrived(p))' = Sum(SeenArrived(p))
<1>1. /\ Sum(AheadIn(p))' = SumOf(cfg.chains, AheadIn(p)')
      /\ Sum(AheadOut(p))' = SumOf(cfg.chains, AheadOut(p)')
      /\ Sum(SeenSent(p))' = SumOf(cfg.chains, SeenSent(p)')
      /\ Sum(SeenIn(p))' = SumOf(cfg.chains, SeenIn(p)')
      /\ Sum(SeenOut(p))' = SumOf(cfg.chains, SeenOut(p)')
      /\ Sum(SeenArrived(p))' = SumOf(cfg.chains, SeenArrived(p)')
  BY Zenon DEF Sum, SumOf
<1> QED
  BY <1>1, SumIsSumOf, Zenon

(* What was seen is counted in numbers. *)
LEMMA SeenTypes ==
  ASSUME StatsTyping, NEW p \in Ports
  PROVE  /\ SeenSent(p) \in [Chains -> Nat] /\ SeenIn(p) \in [Chains -> Nat]
         /\ SeenOut(p) \in [Chains -> Nat] /\ SeenArrived(p) \in [Chains -> Nat]
         /\ AheadIn(p) \in [Chains -> Int] /\ AheadOut(p) \in [Chains -> Int]
<1>1. 1 - p \in Ports
  BY OtherPort
<1>2. \A c \in Chains : /\ seen[p][c] \in History
                        /\ vnfStats[c][p] \in OfVnf /\ vnfStats[c][1 - p] \in OfVnf
  BY <1>1 DEF StatsTyping
<1>3. \A c \in Chains :
        /\ seen[p][c].sent \in Nat /\ seen[p][c].in \in Nat
        /\ seen[p][c].out \in Nat /\ seen[p][c].arrived \in Nat
        /\ vnfStats[c][p].rx \in Int /\ vnfStats[c][1 - p].tx \in Int
  BY <1>2 DEF History, OfVnf
<1> QED
  BY <1>3 DEF SeenSent, SeenIn, SeenOut, SeenArrived, AheadIn, AheadOut

(* rx_total is set for the last chain only. *)
LEMMA TotalsTypingStep == StatsTyping /\ TotalsTyping /\ [Next]_vars => TotalsTyping'
<1> SUFFICES ASSUME StatsTyping, TotalsTyping, [Next]_vars PROVE TotalsTyping'
  OBVIOUS
<1>1. cfg' = cfg
  BY SameCfg
<1>2. Chains' = Chains /\ LastChain' = LastChain
  BY <1>1 DEF Chains, LastChain
<1>3. ASSUME ifStats' = ifStats, portStats' \in [Ports -> Nat] PROVE TotalsTyping'
  BY <1>2, <1>3 DEF TotalsTyping
<1>4. ASSUME NEW c \in Chains, NEW p \in Ports, OtherPackets(c, p) PROVE TotalsTyping'
  BY <1>3, <1>4 DEF OtherPackets, TotalsTyping
<1>5. CASE Baseline
  BY <1>3, <1>5 DEF Baseline, Zero
<1>6. ASSUME NEW p \in Ports, NEW c \in Chains, NEW kind \in Kinds, NEW fate \in Fates,
             Packet(p, c, kind, fate)
      PROVE  TotalsTyping'
  <2> DEFINE to == IF fate = "comesBack" THEN p ELSE 1 - p
  <2>1. ifStats' = ifStats /\ (portStats' = portStats \/ portStats' = [portStats EXCEPT ![to] = @ + 1])
    BY <1>6, Zenon DEF Packet
  <2>2. portStats \in [Ports -> Nat]
    BY DEF TotalsTyping
  <2> HIDE DEF to
  <2>3. portStats' \in [Ports -> Nat]
    BY <2>1, <2>2
  <2> QED
    BY <1>3, <2>1, <2>3
<1>7. CASE Collect
  <2>1. portStats' = portStats /\ portStats \in [Ports -> Nat]
    BY <1>7 DEF Collect, TotalsTyping
  <2>2. ASSUME NEW c \in Chains, NEW p \in Ports
        PROVE  ifStats'[c][p].total
                 = IF Unavailable(p) /\ cfg.chains > 1 /\ c = LastChain
                   THEN portStats[p] ELSE ifStats[c][p].total
    BY <1>7 DEF Collect
  <2>3. ASSUME NEW c \in Chains, NEW p \in Ports
        PROVE  /\ ifStats'[c][p].total \in Nat
               /\ c # LastChain => ifStats'[c][p].total = 0
    <3>1. portStats[p] \in Nat
      BY <2>1
    <3>2. ifStats[c][p].total \in Nat /\ (c # LastChain => ifStats[c][p].total = 0)
      BY DEF TotalsTyping
    <3> QED
      BY <2>2, <3>1, <3>2
  <2> QED
    BY <1>2, <2>1, <2>3 DEF TotalsTyping
<1>8. CASE GetResults \/ NextFrame
  BY <1>3, <1>8 DEF GetResults, NextFrame, TotalsTyping
<1>9. CASE UNCHANGED vars
  BY <1>3, <1>9 DEF vars, TotalsTyping
<1> QED
  BY <1>4, <1>5, <1>6, <1>7, <1>8, <1>9 DEF Next

(* Missing flow statistics are marked when they are collected. *)
LEMMA MissingStep == StatsTyping /\ MissingIsMarked /\ [Next]_vars => MissingIsMarked'
<1> SUFFICES ASSUME StatsTyping, MissingIsMarked, [Next]_vars PROVE MissingIsMarked'
  OBVIOUS
<1>a. cfg' = cfg
  BY SameCfg
<1>b. Chains' = Chains /\ LastChain' = LastChain
  BY <1>a DEF Chains, LastChain
<1> SUFFICES ASSUME pc' = "collected", cfg.chains > 1
             PROVE  \A p \in Ports : Unavailable(p)' =>
                      /\ \A c \in Chains : ifStats'[c][p].rx = Missing
                      /\ ifStats'[LastChain][p].total = portStats'[p]
  BY <1>a, <1>b DEF MissingIsMarked
<1>1. CASE Collect
  <2>1. UNCHANGED <<cfg, flowStats, portStats>>
    BY <1>1 DEF Collect
  <2>2. ASSUME NEW p \in Ports, Unavailable(p)'
        PROVE  /\ \A c \in Chains : ifStats'[c][p].rx = Missing
               /\ ifStats'[LastChain][p].total = portStats'[p]
    <3>1. Unavailable(p)
      BY <2>1, <2>2, SameAvailability
    <3>2. LastChain \in Chains
      BY DEF LastChain, Chains, StatsTyping, ConfigSet
    <3>3. \A c \in Chains : ifStats'[c][p].rx = Missing
      BY <1>1, <3>1, <2>1 DEF Collect
    <3>4. ifStats'[LastChain][p].total = portStats[p]
      BY <1>1, <3>1, <3>2 DEF Collect
    <3> QED
      BY <2>1, <3>3, <3>4
  <2> QED
    BY <2>2
<1>2. CASE UNCHANGED vars
  <2>1. UNCHANGED <<pc, cfg, flowStats, portStats, ifStats>>
    BY <1>2 DEF vars
  <2>2. \A p \in Ports : Unavailable(p)' <=> Unavailable(p)
    BY <2>1, SameAvailability
  <2> QED
    BY <2>1, <2>2 DEF MissingIsMarked
<1>3. CASE Baseline \/ GetResults \/ NextFrame
  BY <1>3 DEF Baseline, GetResults, NextFrame
<1>4. ASSUME NEW c \in Chains, NEW p \in Ports, OtherPackets(c, p) PROVE FALSE
  BY <1>4 DEF OtherPackets
<1>5. ASSUME NEW p \in Ports, NEW c \in Chains, NEW kind \in Kinds, NEW fate \in Fates,
             Packet(p, c, kind, fate)
      PROVE  FALSE
  <2>1. pc = "traffic" /\ pc' = pc
    BY <1>5, Zenon DEF Packet
  <2> QED
    BY <2>1
<1> QED
  BY <1>1, <1>2, <1>3, <1>4, <1>5 DEF Next

(* A sum is a number. *)
LEMMA SumType == ASSUME cfg \in ConfigSet, NEW f \in [Chains -> Int] PROVE Sum(f) \in Int
<1>1. PICK F : Sum(f) = F[cfg.chains] /\ F \in [0..cfg.chains -> Int]
  BY SumIs
<1>2. cfg.chains \in 0..cfg.chains
  BY DEF ConfigSet
<1> QED
  BY <1>1, <1>2

(* What the VNFs' counters show at the two sides, of each chain. *)
VnfIn(p) == [c \in Chains |-> vnfStats[c][p].rx]
VnfOut(p) == [c \in Chains |-> vnfStats[c][1 - p].tx]

(* A worker that updates shared interfaces takes their sums. *)
LEMMA SharedUpdate ==
  ASSUME StatsTyping, cfg.shared, NEW diff \in BOOLEAN, WorkerUpdate(diff),
         NEW p \in Ports, NEW c \in Chains
  PROVE  /\ midStats'[c][p].rx
              = IF diff THEN Sum(VnfIn(p)) - midStats[c][p].rx ELSE Sum(VnfIn(p))
         /\ midStats'[c][1 - p].tx
              = IF diff THEN Sum(VnfOut(p)) - midStats[c][1 - p].tx ELSE Sum(VnfOut(p))
<1>1. 1 - p \in Ports
  BY OtherPort
<1>2. VnfCount(c, p, "rx") = Sum(VnfIn(p)) /\ VnfCount(c, 1 - p, "tx") = Sum(VnfOut(p))
  BY DEF VnfCount, VnfIn, VnfOut
<1>3. /\ midStats'[c][p] = Updated(midStats[c][p], VnfCount(c, p, "tx"),
                                   VnfCount(c, p, "rx"), diff)
      /\ midStats'[c][1 - p] = Updated(midStats[c][1 - p], VnfCount(c, 1 - p, "tx"),
                                   VnfCount(c, 1 - p, "rx"), diff)
  BY <1>1 DEF WorkerUpdate
<1> QED
  BY <1>2, <1>3 DEF Updated

(* Shared interfaces are ahead by what all chains have sent through them. *)
LEMMA SharedStep == StatsTyping /\ FlowsAreSeen /\ SharedIsSeen /\ [Next]_vars => SharedIsSeen'
<1> SUFFICES ASSUME StatsTyping, FlowsAreSeen, SharedIsSeen, [Next]_vars PROVE SharedIsSeen'
  OBVIOUS
<1>a. cfg' = cfg /\ cfg \in ConfigSet
  BY SameCfg DEF StatsTyping
<1>b. Chains' = Chains /\ Unseen' = Unseen
  BY <1>a, SameConfig
<1> SUFFICES ASSUME cfg.shared PROVE SharedIsSeen'
  BY <1>a DEF SharedIsSeen
<1>1. CASE Baseline
  <2>1. pc' = "traffic" /\ seen' = Unseen /\ vnfStats' = vnfStats /\ WorkerUpdate(FALSE)
    BY <1>1 DEF Baseline, FlowsAreSeen
  <2>2. ASSUME NEW p \in Ports, NEW c \in Chains
        PROVE  /\ midStats'[c][p].rx = Sum(AheadIn(p))'
               /\ midStats'[c][1 - p].tx = Sum(AheadOut(p))'
    <3>1. midStats'[c][p].rx = Sum(VnfIn(p)) /\ midStats'[c][1 - p].tx = Sum(VnfOut(p))
      BY <2>1, SharedUpdate
    <3>2. ASSUME NEW d \in Chains
          PROVE  /\ vnfStats'[d][p].rx - seen'[p][d].in = vnfStats[d][p].rx
                 /\ vnfStats'[d][1 - p].tx - seen'[p][d].out = vnfStats[d][1 - p].tx
      <4>1. seen'[p][d].in = 0 /\ seen'[p][d].out = 0
        BY <2>1 DEF Unseen
      <4>2. vnfStats[d][p] \in OfVnf /\ vnfStats[d][1 - p] \in OfVnf
        BY OtherPort DEF StatsTyping
      <4> QED
        BY <2>1, <4>1, <4>2 DEF OfVnf
    <3>3. AheadIn(p)' = VnfIn(p) /\ AheadOut(p)' = VnfOut(p)
      BY <1>b, <3>2 DEF AheadIn, AheadOut, VnfIn, VnfOut
    <3>4. /\ Sum(AheadIn(p))' = SumOf(cfg'.chains, AheadIn(p)')
          /\ Sum(AheadOut(p))' = SumOf(cfg'.chains, AheadOut(p)')
      BY Zenon DEF Sum, SumOf
    <3> QED
      BY <1>a, <3>1, <3>3, <3>4, SumIsSumOf, Zenon
  <2> QED
    BY <1>b, <2>1, <2>2 DEF SharedIsSeen
<1>2. ASSUME NEW p \in Ports, NEW c \in Chains, NEW kind \in Kinds, NEW fate \in Fates,
             Packet(p, c, kind, fate)
      PROVE  SharedIsSeen'
  <2>1. pc = "traffic" /\ pc' = "traffic" /\ midStats' = midStats
    BY <1>2, Zenon DEF Packet
  <2>2. ASSUME NEW q \in Ports
        PROVE  Sum(AheadIn(q))' = Sum(AheadIn(q)) /\ Sum(AheadOut(q))' = Sum(AheadOut(q))
    <3>1. ASSUME NEW d \in Chains
          PROVE  /\ vnfStats'[d][q].rx - seen'[q][d].in = vnfStats[d][q].rx - seen[q][d].in
                 /\ vnfStats'[d][1 - q].tx - seen'[q][d].out
                      = vnfStats[d][1 - q].tx - seen[q][d].out
      <4> DEFINE mine == p = q /\ c = d
                 in == IF mine /\ fate \in {"arrives", "lostInVnf"} THEN 1 ELSE 0
                 out == IF mine /\ fate = "arrives" THEN 1 ELSE 0
      <4>1. /\ vnfStats'[d][q].rx = vnfStats[d][q].rx + in
            /\ vnfStats'[d][1 - q].tx = vnfStats[d][1 - q].tx + out
            /\ seen'[q][d].in = seen[q][d].in + in
            /\ seen'[q][d].out = seen[q][d].out + out
        BY <1>2, PacketPasses
      <4>2. vnfStats[d][q] \in OfVnf /\ vnfStats[d][1 - q] \in OfVnf /\ seen[q][d] \in History
        BY OtherPort DEF StatsTyping
      <4>3. in \in Int /\ out \in Int
        OBVIOUS
      <4> HIDE DEF in, out
      <4> QED
        BY <4>1, <4>2, <4>3 DEF OfVnf, History
    <3>2. AheadIn(q)' = AheadIn(q) /\ AheadOut(q)' = AheadOut(q)
      BY <1>b, <3>1 DEF AheadIn, AheadOut
    <3> QED
      BY <1>a, <3>2, SameSums
  <2> QED
    BY <1>b, <2>1, <2>2 DEF SharedIsSeen
<1>3. CASE Collect
  <2>1. /\ pc = "traffic" /\ pc' = "collected" /\ UNCHANGED <<vnfStats, seen>>
        /\ WorkerUpdate(TRUE)
    BY <1>3 DEF Collect
  <2>2. ASSUME NEW p \in Ports, NEW c \in Chains
        PROVE  /\ midStats'[c][p].rx = Sum(SeenIn(p))'
               /\ midStats'[c][1 - p].tx = Sum(SeenOut(p))'
    <3>1. /\ midStats'[c][p].rx = Sum(VnfIn(p)) - Sum(AheadIn(p))
          /\ midStats'[c][1 - p].tx = Sum(VnfOut(p)) - Sum(AheadOut(p))
      <4>1. midStats[c][p].rx = Sum(AheadIn(p)) /\ midStats[c][1 - p].tx = Sum(AheadOut(p))
        BY <2>1 DEF SharedIsSeen
      <4>2. /\ midStats'[c][p].rx
                 = IF TRUE THEN Sum(VnfIn(p)) - midStats[c][p].rx ELSE Sum(VnfIn(p))
            /\ midStats'[c][1 - p].tx
                 = IF TRUE THEN Sum(VnfOut(p)) - midStats[c][1 - p].tx ELSE Sum(VnfOut(p))
        <5>1. TRUE \in BOOLEAN
          OBVIOUS
        <5> QED
          BY <2>1, <5>1, SharedUpdate, Zenon
      <4> QED
        BY <4>1, <4>2, Zenon
    <3>2. ASSUME NEW d \in Chains
          PROVE  /\ vnfStats[d][p].rx \in Int /\ vnfStats[d][1 - p].tx \in Int
                 /\ seen[p][d].in \in Int /\ seen[p][d].out \in Int
      <4>1. vnfStats[d][p] \in OfVnf /\ vnfStats[d][1 - p] \in OfVnf /\ seen[p][d] \in History
        BY OtherPort DEF StatsTyping
      <4> QED
        BY <4>1 DEF OfVnf, History
    <3>3. VnfIn(p) \in [Chains -> Int] /\ VnfOut(p) \in [Chains -> Int]
      BY <3>2 DEF VnfIn, VnfOut
    <3>4. /\ AheadIn(p) \in [Chains -> Int] /\ AheadOut(p) \in [Chains -> Int]
          /\ SeenIn(p) \in [Chains -> Int] /\ SeenOut(p) \in [Chains -> Int]
      BY <3>2 DEF AheadIn, AheadOut, SeenIn, SeenOut
    <3>5. /\ \A d \in Chains : SeenIn(p)[d] = VnfIn(p)[d] - AheadIn(p)[d]
          /\ \A d \in Chains : SeenOut(p)[d] = VnfOut(p)[d] - AheadOut(p)[d]
      BY <3>2 DEF AheadIn, AheadOut, SeenIn, SeenOut, VnfIn, VnfOut
    <3>6. /\ Sum(SeenIn(p)) = Sum(VnfIn(p)) - Sum(AheadIn(p))
          /\ Sum(SeenOut(p)) = Sum(VnfOut(p)) - Sum(AheadOut(p))
      BY <1>a, <3>3, <3>4, <3>5, SumMinus
    <3>7. SeenIn(p)' = SeenIn(p) /\ SeenOut(p)' = SeenOut(p)
      BY <1>b, <2>1 DEF SeenIn, SeenOut
    <3> QED
      BY <1>a, <3>1, <3>6, <3>7, SameSums
  <2> QED
    BY <1>b, <2>1, <2>2 DEF SharedIsSeen
<1>4. CASE GetResults \/ NextFrame
  BY <1>4 DEF GetResults, NextFrame, SharedIsSeen
<1>5. ASSUME NEW c \in Chains, NEW p \in Ports, OtherPackets(c, p) PROVE SharedIsSeen'
  BY <1>5 DEF OtherPackets, SharedIsSeen
<1>6. CASE UNCHANGED vars
  <2>1. UNCHANGED <<pc, vnfStats, midStats, seen>>
    BY <1>6 DEF vars
  <2>2. ASSUME NEW p \in Ports
        PROVE  /\ Sum(AheadIn(p))' = Sum(AheadIn(p)) /\ Sum(AheadOut(p))' = Sum(AheadOut(p))
               /\ Sum(SeenIn(p))' = Sum(SeenIn(p)) /\ Sum(SeenOut(p))' = Sum(SeenOut(p))
    <3>1. /\ AheadIn(p)' = AheadIn(p) /\ AheadOut(p)' = AheadOut(p)
          /\ SeenIn(p)' = SeenIn(p) /\ SeenOut(p)' = SeenOut(p)
      BY <1>b, <2>1 DEF AheadIn, AheadOut, SeenIn, SeenOut
    <3> QED
      BY <1>a, <3>1, SameSums
  <2> QED
    BY <1>b, <2>1, <2>2 DEF SharedIsSeen
<1> QED
  BY <1>1, <1>2, <1>3, <1>4, <1>5, <1>6 DEF Next

(* What a total row is made of. *)
Column(p, i) == [c \in Chains |-> PathCounts(c, p)[i]]
RxTotals(p) == [c \in Chains |-> ifStats[c][1 - p].total]

(* The columns a total row adds up. *)
LEMMA TotalRowIs ==
  ASSUME NEW p \in Ports
  PROVE  /\ TotalRow(p)[1] = Total(Column(p, 1), NoTotals, FALSE)
         /\ TotalRow(p)[2] = Total(Column(p, 2), NoTotals, cfg.shared)
         /\ TotalRow(p)[3] = Total(Column(p, 3), NoTotals, cfg.shared)
         /\ TotalRow(p)[4] = Total(Column(p, 4), RxTotals(p), FALSE)
BY DEF TotalRow, Column, RxTotals

(* The counters in a column. *)
LEMMA ColumnIs ==
  ASSUME NEW p \in Ports, NEW c \in Chains
  PROVE  /\ Column(p, 1)[c] = ifStats[c][p].tx
         /\ Column(p, 2)[c] = midStats[c][p].rx
         /\ Column(p, 3)[c] = midStats[c][1 - p].tx
         /\ Column(p, 4)[c] = ifStats[c][1 - p].rx
BY DEF Column, PathCounts

(* A column that shows what was seen. *)
LEMMA ColumnTotals ==
  ASSUME cfg \in ConfigSet, NEW p \in Ports, NEW i \in 1..4, NEW f \in [Chains -> Nat],
         \A c \in Chains : Column(p, i)[c] = f[c],
         NEW totals \in [Chains -> Int], \A c \in Chains : totals[c] = 0
  PROVE  Total(Column(p, i), totals, FALSE) = Sum(f)
<1>1. Column(p, i) = f
  BY DEF Column
<1>2. Total(f, totals, FALSE) = Sum(f)
  BY TotalIsSum
<1> QED
  BY <1>1, <1>2, Zenon

(* A column of shared interfaces, where every chain shows the same. *)
LEMMA SharedTotals ==
  ASSUME cfg \in ConfigSet, NEW f \in [Chains -> Int], NEW n, \A c \in Chains : f[c] = n
  PROVE  Total(f, NoTotals, TRUE) = n
<1>1. NoTotals \in [Chains -> Int]
  BY DEF NoTotals
<1>2. Total(f, NoTotals, TRUE) = f[0]
  BY <1>1, TotalOfOne
<1>3. 0 \in Chains
  BY DEF Chains, ConfigSet
<1> QED
  BY <1>2, <1>3

(* The totals of a path whose counts have been collected. *)
LEMMA CollectedTotals ==
  ASSUME StatsTyping, CollectedIsSeen, SharedIsSeen, MissingIsMarked, TotalsTyping,
         pc = "collected", cfg.chains > 1, NEW p \in Ports
  PROVE  /\ TotalRow(p)[2] = Sum(SeenIn(p)) /\ TotalRow(p)[3] = Sum(SeenOut(p))
         /\ AllCounted => TotalRow(p)[1] = Sum(SeenSent(p))
         /\ AllCounted /\ ~Unavailable(1 - p) /\ ~LeftOver(1 - p)
              => TotalRow(p)[4] = Sum(SeenArrived(p))
         /\ Unavailable(1 - p) => TotalRow(p)[4] = portStats[1 - p]
<1>1. cfg \in ConfigSet /\ 1 - p \in Ports
  BY OtherPort DEF StatsTyping
<1>2. /\ SeenSent(p) \in [Chains -> Nat] /\ SeenIn(p) \in [Chains -> Nat]
      /\ SeenOut(p) \in [Chains -> Nat] /\ SeenArrived(p) \in [Chains -> Nat]
  BY SeenTypes
<1>3. NoTotals \in [Chains -> Int] /\ \A c \in Chains : NoTotals[c] = 0
  BY DEF NoTotals
<1>4. TotalRow(p)[2] = Sum(SeenIn(p)) /\ TotalRow(p)[3] = Sum(SeenOut(p))
  <2>1. CASE cfg.shared
    <3>1. \A c \in Chains : Column(p, 2)[c] = Sum(SeenIn(p)) /\ Column(p, 3)[c] = Sum(SeenOut(p))
      BY <2>1, ColumnIs DEF SharedIsSeen
    <3>2. Sum(SeenIn(p)) \in Int /\ Sum(SeenOut(p)) \in Int
      <4>1. SeenIn(p) \in [Chains -> Int] /\ SeenOut(p) \in [Chains -> Int]
        BY <1>2
      <4> QED
        BY <1>1, <4>1, SumType
    <3>3. Column(p, 2) \in [Chains -> Int] /\ Column(p, 3) \in [Chains -> Int]
      BY <3>1, <3>2 DEF Column
    <3>4. Total(Column(p, 2), NoTotals, TRUE) = Sum(SeenIn(p))
      BY <1>1, <3>1, <3>3, SharedTotals, Zenon
    <3>5. Total(Column(p, 3), NoTotals, TRUE) = Sum(SeenOut(p))
      BY <1>1, <3>1, <3>3, SharedTotals, Zenon
    <3>6. cfg.shared = TRUE
      BY <1>1, <2>1 DEF ConfigSet
    <3> QED
      BY <3>4, <3>5, <3>6, TotalRowIs
  <2>2. CASE ~cfg.shared
    <3>1. \A c \in Chains : /\ Column(p, 2)[c] = SeenIn(p)[c]
                            /\ Column(p, 3)[c] = SeenOut(p)[c]
      BY <2>2, ColumnIs DEF CollectedIsSeen, SeenIn, SeenOut
    <3>2. /\ Total(Column(p, 2), NoTotals, FALSE) = Sum(SeenIn(p))
          /\ Total(Column(p, 3), NoTotals, FALSE) = Sum(SeenOut(p))
      <4>1. 2 \in 1..4 /\ 3 \in 1..4
        OBVIOUS
      <4> QED
        BY <1>1, <1>2, <1>3, <3>1, <4>1, ColumnTotals, ZenonT(30)
    <3>3. cfg.shared = FALSE
      BY <1>1, <2>2 DEF ConfigSet
    <3> QED
      BY <3>2, <3>3, TotalRowIs
  <2> QED
    BY <2>1, <2>2
<1>5. ASSUME AllCounted PROVE TotalRow(p)[1] = Sum(SeenSent(p))
  <2>1. \A c \in Chains : Column(p, 1)[c] = SeenSent(p)[c]
    BY <1>5, ColumnIs DEF CollectedIsSeen, SeenSent
  <2>2. 1 \in 1..4
    OBVIOUS
  <2> QED
    BY <1>1, <1>2, <1>3, <2>1, <2>2, ColumnTotals, TotalRowIs
<1>6. RxTotals(p) \in [Chains -> Int]
  BY <1>1 DEF RxTotals, TotalsTyping
<1>7. LastChain \in Chains
  BY <1>1 DEF LastChain, Chains, ConfigSet
<1>8. ASSUME AllCounted, ~Unavailable(1 - p), ~LeftOver(1 - p)
      PROVE  TotalRow(p)[4] = Sum(SeenArrived(p))
  <2>1. \A c \in Chains : Column(p, 4)[c] = SeenArrived(p)[c]
    BY <1>8, ColumnIs DEF CollectedIsSeen, SeenArrived
  <2>2. ASSUME NEW c \in Chains PROVE RxTotals(p)[c] = 0
    <3>1. ifStats[c][1 - p].total \in Nat
      BY <1>1 DEF TotalsTyping
    <3>2. ~(ifStats[LastChain][1 - p].total > 0)
      BY <1>8 DEF LeftOver
    <3>3. c # LastChain => ifStats[c][1 - p].total = 0
      BY <1>1 DEF TotalsTyping
    <3> QED
      BY <3>1, <3>2, <3>3 DEF RxTotals
  <2>3. 4 \in 1..4
    OBVIOUS
  <2> QED
    BY <1>1, <1>2, <1>6, <2>1, <2>2, <2>3, ColumnTotals, TotalRowIs
<1>9. ASSUME Unavailable(1 - p) PROVE TotalRow(p)[4] = portStats[1 - p]
  <2> DEFINE f == Column(p, 4)
             g == RxTotals(p)
  <2>1. \A c \in Chains : f[c] = Missing
    BY <1>1, <1>9, ColumnIs DEF MissingIsMarked
  <2>2. f \in [Chains -> Int]
    BY <2>1 DEF Column, Missing
  <2>3. /\ \A c \in Chains : c # LastChain => g[c] = 0
        /\ g[LastChain] = portStats[1 - p]
    BY <1>1, <1>7, <1>9 DEF RxTotals, TotalsTyping, MissingIsMarked
  <2>4. portStats[1 - p] > 0
    BY <1>9 DEF Unavailable
  <2>5. TotalRow(p)[4] = Total(f, g, FALSE)
    BY TotalRowIs
  <2>6. g \in [Chains -> Int]
    BY <1>6
  <2> HIDE DEF f, g
  <2>7. Total(f, g, FALSE) = g[LastChain]
    BY <1>1, <2>1, <2>2, <2>3, <2>4, <2>6, TotalOfMissing
  <2> QED
    BY <2>3, <2>5, <2>7
<1> QED
  BY <1>4, <1>5, <1>8, <1>9

(* What the property sums, of the packets seen. *)
LEMMA SumsOfSeen ==
  ASSUME NEW p \in Ports
  PROVE  /\ Sum([c \in Chains |-> seen[p][c]["sent"]]) = Sum(SeenSent(p))
         /\ Sum([c \in Chains |-> seen[p][c]["in"]]) = Sum(SeenIn(p))
         /\ Sum([c \in Chains |-> seen[p][c]["out"]]) = Sum(SeenOut(p))
         /\ Sum([c \in Chains |-> seen[p][c]["arrived"]]) = Sum(SeenArrived(p))
BY DEF SeenSent, SeenIn, SeenOut, SeenArrived

(* The totals of one direction. *)
TotalsAre(p) ==
  LET total == results[p].total
  IN /\ total[2] = Sum(SeenIn(p)) /\ total[3] = Sum(SeenOut(p))
     /\ cfg.flows /\ cfg.latency => total[1] = Sum(SeenSent(p))
     /\ cfg.flows /\ cfg.latency /\ ~Unavailable(1 - p) /\ ~LeftOver(1 - p)
          => total[4] = Sum(SeenArrived(p))
     /\ Unavailable(1 - p) => total[4] = portStats[1 - p]

(* The property, by direction. *)
LEMMA TotalsAreCounted ==
  TotalsCountOnce <=>
    (pc = "reported" /\ cfg.chains > 1 /\ cfg.chains <= PortMask
       => \A p \in Ports : TotalsAre(p))
BY SumsOfSeen, Zenon DEF TotalsCountOnce, TotalsAre

(* The totals are taken from the counts collected. *)
LEMMA TotalsStep ==
  StatsTyping /\ CollectedIsSeen /\ SharedIsSeen /\ MissingIsMarked /\ TotalsTyping
    /\ TotalsCountOnce /\ [Next]_vars => TotalsCountOnce'
<1> SUFFICES ASSUME StatsTyping, CollectedIsSeen, SharedIsSeen, MissingIsMarked, TotalsTyping,
                    TotalsCountOnce, [Next]_vars
             PROVE  TotalsCountOnce'
  OBVIOUS
<1>a. cfg' = cfg
  BY SameCfg
<1>b. Chains' = Chains /\ LastChain' = LastChain
  BY <1>a DEF Chains, LastChain
<1>c. TotalsCountOnce' <=>
        (pc = "reported" /\ cfg.chains > 1 /\ cfg.chains <= PortMask
           => \A p \in Ports : TotalsAre(p))'
  BY TotalsAreCounted, PTL
<1> SUFFICES ASSUME pc' = "reported", cfg.chains > 1, cfg.chains <= PortMask, NEW p \in Ports
             PROVE  TotalsAre(p)'
  BY <1>a, <1>c
<1>1. 1 - p \in Ports
  BY OtherPort
<1>2. ASSUME UNCHANGED <<flowStats, portStats, ifStats, seen>>
      PROVE  /\ Sum(SeenSent(p))' = Sum(SeenSent(p)) /\ Sum(SeenIn(p))' = Sum(SeenIn(p))
             /\ Sum(SeenOut(p))' = Sum(SeenOut(p)) /\ Sum(SeenArrived(p))' = Sum(SeenArrived(p))
             /\ Unavailable(1 - p)' <=> Unavailable(1 - p)
             /\ LeftOver(1 - p)' <=> LeftOver(1 - p)
  <2>1. /\ SeenSent(p)' = SeenSent(p) /\ SeenIn(p)' = SeenIn(p)
        /\ SeenOut(p)' = SeenOut(p) /\ SeenArrived(p)' = SeenArrived(p)
    BY <1>b, <1>2 DEF SeenSent, SeenIn, SeenOut, SeenArrived
  <2>2. /\ Sum(SeenSent(p))' = Sum(SeenSent(p)) /\ Sum(SeenIn(p))' = Sum(SeenIn(p))
        /\ Sum(SeenOut(p))' = Sum(SeenOut(p)) /\ Sum(SeenArrived(p))' = Sum(SeenArrived(p))
    BY <1>a, <2>1, SameSums
  <2>3. Unavailable(1 - p)' <=> Unavailable(1 - p)
    BY <1>a, <1>1, <1>2, SameAvailability
  <2>4. LeftOver(1 - p)' <=> LeftOver(1 - p)
    BY <1>b, <1>2, <2>3 DEF LeftOver
  <2> QED
    BY <2>2, <2>3, <2>4
<1>3. CASE GetResults
  <2>1. pc = "collected" /\ UNCHANGED <<flowStats, portStats, ifStats, seen>>
    BY <1>3 DEF GetResults
  <2>2. results'[p].total = TotalRow(p)
    BY <1>3 DEF GetResults
  <2>3. AllCounted <=> cfg.flows /\ cfg.latency
    BY DEF AllCounted
  <2>4. /\ TotalRow(p)[2] = Sum(SeenIn(p)) /\ TotalRow(p)[3] = Sum(SeenOut(p))
        /\ AllCounted => TotalRow(p)[1] = Sum(SeenSent(p))
        /\ AllCounted /\ ~Unavailable(1 - p) /\ ~LeftOver(1 - p)
             => TotalRow(p)[4] = Sum(SeenArrived(p))
        /\ Unavailable(1 - p) => TotalRow(p)[4] = portStats[1 - p]
    BY <2>1, CollectedTotals, Zenon
  <2>5. portStats' = portStats
    BY <2>1
  <2> QED
    BY <1>a, <1>2, <2>1, <2>2, <2>3, <2>4, <2>5 DEF TotalsAre
<1>4. CASE UNCHANGED vars
  <2>1. UNCHANGED <<pc, flowStats, portStats, ifStats, results, seen>>
    BY <1>4 DEF vars
  <2>2. TotalsAre(p)
    BY <2>1, TotalsAreCounted
  <2>3. results' = results /\ portStats' = portStats
    BY <2>1
  <2> QED
    BY <1>a, <1>2, <2>1, <2>2, <2>3 DEF TotalsAre
<1>5. CASE Baseline \/ Collect \/ NextFrame
  BY <1>5 DEF Baseline, Collect, NextFrame
<1>6. ASSUME NEW c \in Chains, NEW q \in Ports, OtherPackets(c, q) PROVE FALSE
  BY <1>6 DEF OtherPackets
<1>7. ASSUME NEW q \in Ports, NEW c \in Chains, NEW kind \in Kinds, NEW fate \in Fates,
             Packet(q, c, kind, fate)
      PROVE  FALSE
  <2>1. pc = "traffic" /\ pc' = pc
    BY <1>7, Zenon DEF Packet
  <2> QED
    BY <2>1
<1> QED
  BY <1>3, <1>4, <1>5, <1>6, <1>7 DEF Next

(* For any number of chains up to PORT_PG_ID_MASK, shared interfaces or    *)
(* not, any frame sizes and any packets, a total row counts every packet   *)
(* once; and where the counters of the chains are missing, it shows what   *)
(* the port received (packet_stats.py:77-95,160-191;                       *)
(* traffic_client.py:1436-1460).                                           *)
THEOREM TotalsOfChains == Spec => []TotalsCountOnce
<1> DEFINE TotalsInv == /\ RowsInv /\ TotalsTyping /\ SharedIsSeen /\ MissingIsMarked
                        /\ TotalsCountOnce
<1>1. Init => TotalsInv
  <2> SUFFICES ASSUME Init PROVE TotalsInv
    OBVIOUS
  <2>1. pc = "baseline"
    BY DEF Init
  <2>2. TotalsTyping
    BY DEF Init, Zero, TotalsTyping
  <2> QED
    BY <2>1, <2>2, InitialRows DEF SharedIsSeen, MissingIsMarked, TotalsCountOnce
<1>2. TotalsInv /\ [Next]_vars => TotalsInv'
  <2> SUFFICES ASSUME TotalsInv, [Next]_vars PROVE TotalsInv'
    OBVIOUS
  <2>1. RowsInv'
    BY RowsKept
  <2>2. TotalsTyping'
    BY TotalsTypingStep DEF RowsInv
  <2>3. SharedIsSeen'
    BY SharedStep DEF RowsInv
  <2>4. MissingIsMarked'
    BY MissingStep DEF RowsInv
  <2>5. TotalsCountOnce'
    BY TotalsStep DEF RowsInv
  <2> QED
    BY <2>1, <2>2, <2>3, <2>4, <2>5
<1>3. TotalsInv => TotalsCountOnce
  OBVIOUS
<1> QED
  BY <1>1, <1>2, <1>3, PTL DEF Spec
=============================================================================
