---------------------------- MODULE MCPacketStats ----------------------------
EXTENDS PacketStats

(* Two chains with all counters, with the flows' only and with none, of    *)
(* their own VNFs and of a shared one; and one chain.                      *)
MCConfigs ==
  [chains : {2}, flows : {TRUE}, latency : {TRUE}, shared : BOOLEAN]
    \cup [chains : {2}, flows : BOOLEAN, latency : {FALSE}, shared : {FALSE}]
    \cup [chains : {1}, flows : {TRUE}, latency : BOOLEAN, shared : {FALSE}]

MCBursts == <<2, 1>>
=============================================================================
