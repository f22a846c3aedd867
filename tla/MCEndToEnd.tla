----------------------------- MODULE MCEndToEnd -----------------------------
(* EndToEnd for two chains: of their own MACs, behind one router per port  *)
(* with ARP between the captures, or looped back to the other port.        *)
EXTENDS EndToEnd, TLC

CONSTANTS a, b, c, d

MCChains == {1, 2}

OwnMacs == (<<0, 1>> :> a) @@ (<<0, 2>> :> b) @@ (<<1, 1>> :> c) @@ (<<1, 2>> :> d)
OneMacPerPort == [e \in Endpoints |-> IF e[1] = 0 THEN a ELSE b]

Cfg(mac, arp, l3, debug) ==
  [mac |-> mac, check |-> TRUE, arp |-> arp, l3 |-> l3, service |-> debug]

MCConfigs ==
  {Cfg(OwnMacs, FALSE, FALSE, FALSE), Cfg(OwnMacs, TRUE, FALSE, TRUE),
   Cfg(OneMacPerPort, TRUE, TRUE, FALSE), Cfg(OneMacPerPort, FALSE, FALSE, TRUE),
   [Cfg(OwnMacs, TRUE, TRUE, TRUE) EXCEPT !.check = FALSE]}
=============================================================================
