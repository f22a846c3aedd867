---------------------------- MODULE MCFlowConfig ----------------------------
EXTENDS FlowConfig

(* One option record with everything ordinary. *)
Plain == [chains |-> 1, flows |-> 2, bidir |-> TRUE, static |-> TRUE,
          addrs |-> [p \in Ports |-> 8], ipStep |-> 1,
          udpSrc |-> <<3, 3>>, udpDst |-> <<3, 3>>, udpStep |-> 1,
          l2loop |-> FALSE, tagged |-> TRUE, lists |-> 4, encap |-> "none",
          service |-> FALSE, latency |-> TRUE, stats |-> TRUE, garp |-> 0,
          rate |-> 20, reverse |-> 0, sane |-> TRUE]

(* The arithmetic: flow counts, chains, block sizes, steps and UDP ranges  *)
(* that make every branch of limit_ip_udp_ranges happen, and remainders.   *)
Arithmetic ==
  {[Plain EXCEPT !.chains = c, !.flows = f, !.bidir = b, !.static = s,
                 !.addrs = [p \in Ports |-> IF p = 0 THEN a ELSE 8],
                 !.ipStep = i, !.udpSrc = u, !.udpDst = v, !.udpStep = w] :
     c \in 1..3, f \in {4, 6, 7, 10}, b \in BOOLEAN, s \in BOOLEAN,
     a \in {4, 8}, i \in {1, 3, Random}, u \in {<<3, 3>>, <<2, 5>>},
     v \in {<<3, 3>>, <<4, 9>>}, w \in {1, 2, Random}}

(* The rest: encapsulation, tagging, lists, rates, streams. *)
Other ==
  {[Plain EXCEPT !.chains = c, !.flows = 6, !.bidir = b, !.tagged = t,
                 !.l2loop = l, !.lists = n, !.encap = e, !.latency = y] :
     c \in 1..2, b \in BOOLEAN, t \in BOOLEAN, l \in BOOLEAN, n \in 1..2,
     e \in {"none", "vxlan", "mpls"}, y \in BOOLEAN}
  \cup {[Plain EXCEPT !.chains = c, !.flows = 6, !.bidir = b, !.stats = t,
                     !.garp = g, !.rate = r, !.reverse = v, !.service = m] :
     c \in 1..2, b \in BOOLEAN, t \in BOOLEAN, g \in 0..1, r \in {5, 20},
     v \in {0, 5}, m \in BOOLEAN}
  \cup {[Plain EXCEPT !.sane = FALSE]}

(* Remainders of 0, 4 and -1 flows for the first chain; the sizes left by  *)
(* one frame size do not serve the next; ports that begin at 1.            *)
Corners ==
  {[Plain EXCEPT !.chains = 4, !.flows = 10, !.static = s, !.udpSrc = <<2, 6>>,
                 !.addrs = [p \in Ports |-> 4], !.lists = 4, !.rate = 40] : s \in BOOLEAN}
  \cup {[Plain EXCEPT !.chains = 9, !.flows = 200, !.lists = 9, !.rate = 40,
                     !.addrs = [p \in Ports |-> 40],
                     !.udpSrc = <<3, 5>>, !.udpDst = <<2, 6>>]}
  \cup {[Plain EXCEPT !.flows = 12, !.bidir = FALSE, !.static = FALSE, !.ipStep = 3,
                     !.addrs = [p \in Ports |-> IF p = 0 THEN 16 ELSE 1],
                     !.udpSrc = <<u, 5>>, !.udpDst = <<u, u>>] : u \in 1..2}

MCOptions == Arithmetic \cup Other \cup Corners
MCFrames == <<64, 0, 64>>
MCRandom == -1

=============================================================================
