------------------------------ MODULE EndToEnd ------------------------------
(***************************************************************************)
(* The checks before any measurement: ARP resolution of both ports and the *)
(* end-to-end connectivity check (ChainRunner.__setup_traffic, TrafficClient*)
(* .ensure_arp_successful and .ensure_end_to_end, TRex.resolve_arp and the *)
(* capture of packets).                                                    *)
(*                                                                         *)
(* Everything the outside does is a choice: which chains answer a round of *)
(* ARP requests, which packets are in a capture, which call of the TRex    *)
(* client raises.  An endpoint is a chain seen from a port; it is known by *)
(* the MAC its packets carry, and several endpoints may share one (all     *)
(* chains behind a router or a loopback do).                               *)
(***************************************************************************)
EXTENDS Naturals, FiniteSets

CONSTANTS
  Chains,      (* the chain ids                                            *)
  Macs,        (* MAC addresses                                            *)
  Configs,     (* the configurations to check                              *)
  RetryCount,  (* captures: check_traffic_time_sec over generic_poll_sec   *)
  ArpRetries   (* generic_retry_count                                      *)

Ports == {0, 1}
Endpoints == Ports \X Chains

(* mac: the MAC the packets of each endpoint carry; check: no_e2e_check is *)
(* not set; arp: an ARP round comes first; l3: l3_router without no_arp;   *)
(* service: service_mode, the debug option that keeps service mode on.     *)
ConfigSet == [mac : [Endpoints -> Macs], check : BOOLEAN, arp : BOOLEAN,
              l3 : BOOLEAN, service : BOOLEAN]

ASSUME EndToEndAssumption ==
  /\ IsFiniteSet(Chains) /\ Chains # {}
  /\ Configs \subseteq ConfigSet
  /\ RetryCount \in Nat
  /\ ArpRetries \in Nat \ {0}

VARIABLES
  cfg,       (* the configuration *)
  pc,        (* where the check stands *)
  (* the generator, as seen through the client *)
  traffic,   (* some port transmits *)
  capture,   (* a capture is open (capture_id) *)
  service,   (* the ports are in service mode *)
  packets,   (* packet_list *)
  (* the locals of resolve_arp *)
  port,      (* the port of the outer loop *)
  attempt,   (* the attempt of the inner loop *)
  found,     (* the chains whose entry of dst_macs is set, on this port *)
  count,     (* dst_macs_count *)
  resolved,  (* the keys of arp_dest_macs *)
  (* the locals of ensure_end_to_end *)
  macMap,    (* the keys of mac_map: the MACs still expected *)
  it,        (* the captures done *)
  again,     (* ensure_arp_successful was called between two captures *)
  (* history, never read by the program *)
  answered,  (* the endpoints that answered ARP in the last resolve_arp *)
  forwarded  (* the endpoints with an expected packet in some capture *)

arpVars == <<port, attempt, found, count, resolved, again, answered>>
checkVars == <<macMap, it, forwarded>>
tgVars == <<traffic, capture, service, packets>>
vars == <<cfg, pc, tgVars, arpVars, checkVars>>

Over == {"skipped", "established", "unreachable", "unresolved", "error"}
Calls == {"arpBegin", "program", "clear", "start", "enable", "open", "stop",
          "fetch", "close", "disable"}
Packets == [mac : Macs, expected : BOOLEAN]
DestMacs == {cfg.mac[e] : e \in Endpoints}

-----------------------------------------------------------------------------
(* Seeded faults.  Each is one of the definitions below with a plausible   *)
(* slip; substituted for it, it must make a property fail.                 *)

(* `if not mac` forgotten: a chain that answers twice counts twice. *)
ArpAnswersCountsAll(replies) ==
  LET enough == count + Cardinality(replies) >= Cardinality(Chains)
  IN /\ pc = "arpRun"
     /\ answered' = answered \cup {<<port, c>> : c \in replies}
     /\ IF enough
        THEN /\ resolved' = resolved \cup {port}
             /\ port' = port + 1 /\ attempt' = 0 /\ found' = {} /\ count' = 0
             /\ pc' = IF port = 1 THEN "arpEnd" ELSE "arpRun"
        ELSE /\ attempt' = attempt + 1
             /\ found' = found \cup replies
             /\ count' = count + Cardinality(replies)
             /\ pc' = IF attempt + 1 = ArpRetries THEN "arpEnd" ELSE "arpRun"
             /\ UNCHANGED <<port, resolved>>
     /\ UNCHANGED <<cfg, tgVars, again, checkVars>>

(* The capture is not counted. *)
NextCaptureUncounted ==
  /\ pc = "next"
  /\ it' = it
  /\ pc' = IF it + 1 < RetryCount THEN "clear" ELSE "unreachable"
  /\ UNCHANGED <<cfg, tgVars, arpVars, macMap, forwarded>>

(* Any packet counts: is_udp forgotten. *)
TickedOffAny == {p.mac : p \in packets}

(* Traffic is not stopped before the packets are fetched. *)
StopTrafficForgotten ==
  /\ pc = "stop"
  /\ pc' = "fetch"
  /\ UNCHANGED <<cfg, tgVars, arpVars, checkVars>>

-----------------------------------------------------------------------------
Init ==
  /\ cfg \in Configs
  /\ pc = "setup"
  /\ traffic = FALSE /\ capture = FALSE /\ service = FALSE /\ packets = {}
  /\ port = 0 /\ attempt = 0 /\ found = {} /\ count = 0 /\ resolved = {}
  /\ again = FALSE
  /\ macMap = {} /\ it = 0
  /\ answered = {} /\ forwarded = {}

(* Skipped altogether, or the statistics cleared and ARP if it is needed. *)
SetupTraffic ==
  /\ pc = "setup"
  /\ pc' = CASE ~cfg.check -> "skipped"
             [] cfg.check /\ cfg.arp -> "arpBegin"
             [] OTHER -> "program"
  /\ UNCHANGED <<cfg, tgVars, arpVars, checkVars>>

-----------------------------------------------------------------------------
(* ARP *)

ArpBegin ==
  /\ pc = "arpBegin"
  /\ service' = TRUE
  /\ port' = 0 /\ attempt' = 0 /\ found' = {} /\ count' = 0
  /\ resolved' = {} /\ answered' = {}
  /\ pc' = "arpRun"
  /\ UNCHANGED <<cfg, traffic, capture, packets, again, checkVars>>

(* What follows an attempt that left a chain without an answer: the next   *)
(* one or, after the last, the end of both loops.                          *)
ArpRetry ==
  /\ attempt' = attempt + 1
  /\ pc' = IF attempt + 1 = ArpRetries THEN "arpEnd" ELSE "arpRun"
  /\ UNCHANGED <<port, resolved>>

(* What follows when every chain of the port has its MAC. *)
ArpPortDone ==
  /\ resolved' = resolved \cup {port}
  /\ port' = port + 1 /\ attempt' = 0
  /\ pc' = IF port = 1 THEN "arpEnd" ELSE "arpRun"

(* One round of requests to all chains of the port: those in `replies`     *)
(* answer; only chains without a MAC are looked at and counted.            *)
ArpAnswers(replies) ==
  LET new == replies \ found
      enough == count + Cardinality(new) = Cardinality(Chains)
  IN /\ pc = "arpRun"
     /\ answered' = answered \cup {<<port, c>> : c \in replies}
     /\ IF enough THEN ArpPortDone ELSE ArpRetry
     /\ IF enough /\ port = 0
        THEN found' = {} /\ count' = 0  (* the next port starts its own *)
        ELSE found' = found \cup new /\ count' = count + Cardinality(new)
     /\ UNCHANGED <<cfg, tgVars, again, checkVars>>

(* An STLError while the requests are sent is caught: the next attempt. *)
ArpSendFails ==
  /\ pc = "arpRun"
  /\ ArpRetry
  /\ UNCHANGED <<cfg, tgVars, found, count, again, answered, checkVars>>

(* Service mode is left unless it was asked for.  All MACs are saved and   *)
(* the caller goes on, or the check fails.                                 *)
ArpEnd ==
  /\ pc = "arpEnd"
  /\ service' = (service /\ cfg.service)
  /\ pc' = CASE resolved # Ports -> "unresolved"
             [] resolved = Ports /\ again -> "next"
             [] OTHER -> "program"
  /\ UNCHANGED <<cfg, traffic, capture, packets, arpVars, checkVars>>

-----------------------------------------------------------------------------
(* The end-to-end check *)

(* Streams are created and every destination MAC is expected once. *)
CreateTraffic ==
  /\ pc = "program"
  /\ macMap' = DestMacs
  /\ it' = 0
  /\ pc' = IF RetryCount = 0 THEN "unreachable" ELSE "clear"
  /\ UNCHANGED <<cfg, tgVars, arpVars, forwarded>>

ClearStats ==
  /\ pc = "clear"
  /\ pc' = "start"
  /\ UNCHANGED <<cfg, tgVars, arpVars, checkVars>>

StartTraffic ==
  /\ pc = "start"
  /\ traffic' = TRUE
  /\ pc' = "enable"
  /\ UNCHANGED <<cfg, capture, service, packets, arpVars, checkVars>>

(* start_capture: service mode, which a capture needs, and the capture. *)
EnableService ==
  /\ pc = "enable"
  /\ service' = TRUE
  /\ pc' = "open"
  /\ UNCHANGED <<cfg, traffic, capture, packets, arpVars, checkVars>>

OpenCapture ==
  /\ pc = "open"
  /\ capture' = TRUE
  /\ pc' = "stop"
  /\ UNCHANGED <<cfg, traffic, service, packets, arpVars, checkVars>>

StopTraffic ==
  /\ pc = "stop"
  /\ traffic' = FALSE
  /\ pc' = "fetch"
  /\ UNCHANGED <<cfg, capture, service, packets, arpVars, checkVars>>

(* The capture holds an expected packet (UDP, or MPLS when that is used)   *)
(* of each endpoint in `through`, and other packets of the MACs in `noise`.*)
FetchPackets(through, noise) ==
  /\ pc = "fetch"
  /\ packets' = [mac : {cfg.mac[e] : e \in through}, expected : {TRUE}]
                  \cup [mac : noise, expected : {FALSE}]
  /\ forwarded' = forwarded \cup through
  /\ pc' = "close"
  /\ UNCHANGED <<cfg, traffic, capture, service, arpVars, macMap, it>>

(* stop_capture *)
CloseCapture ==
  /\ pc = "close"
  /\ capture' = FALSE
  /\ pc' = IF cfg.service THEN "examine" ELSE "disable"
  /\ UNCHANGED <<cfg, traffic, service, packets, arpVars, checkVars>>

DisableService ==
  /\ pc = "disable"
  /\ service' = FALSE
  /\ pc' = "examine"
  /\ UNCHANGED <<cfg, traffic, capture, packets, arpVars, checkVars>>

(* The MACs of the expected packets are ticked off. *)
TickedOff == {p.mac : p \in {q \in packets : q.expected}}

(* Behind routers ARP is repeated before the next capture, and after the   *)
(* last one too.                                                           *)
Examine ==
  /\ pc = "examine"
  /\ macMap' = macMap \ TickedOff
  /\ pc' = CASE macMap' = {} -> "established"
             [] macMap' # {} /\ cfg.l3 -> "arpBegin"
             [] OTHER -> "next"
  /\ again' = cfg.l3
  /\ UNCHANGED <<cfg, tgVars, port, attempt, found, count, resolved, it, answered, forwarded>>

NextCapture ==
  /\ pc = "next"
  /\ it' = it + 1
  /\ pc' = IF it + 1 < RetryCount THEN "clear" ELSE "unreachable"
  /\ UNCHANGED <<cfg, tgVars, arpVars, macMap, forwarded>>

(* Any call of the client may raise, and no handler is near.  Traffic may  *)
(* have been started on one of the two ports.                              *)
ClientRaises ==
  /\ \/ pc \in Calls
     \/ pc = "setup" /\ cfg.check
     \/ pc = "arpRun" /\ attempt = 0   (* create_service_ctx *)
     \/ pc = "arpEnd" /\ ~cfg.service
  /\ pc' = "error"
  /\ traffic' \in {traffic, traffic \/ pc = "start"}
  /\ UNCHANGED <<cfg, capture, service, packets, arpVars, checkVars>>

-----------------------------------------------------------------------------
ResolveArp ==
  \/ ArpBegin
  \/ \E replies \in SUBSET Chains : ArpAnswers(replies)
  \/ ArpSendFails
  \/ ArpEnd

EnsureEndToEnd ==
  \/ CreateTraffic \/ ClearStats \/ StartTraffic \/ EnableService \/ OpenCapture
  \/ StopTraffic
  \/ \E through \in SUBSET Endpoints, noise \in SUBSET Macs :
       FetchPackets(through, noise)
  \/ CloseCapture \/ DisableService \/ Examine \/ NextCapture

Next == SetupTraffic \/ ResolveArp \/ EnsureEndToEnd \/ ClientRaises

Spec == Init /\ [][Next]_vars

(* One thread runs the check and every wait in it is bounded. *)
FairSpec == Spec /\ WF_vars(Next)

-----------------------------------------------------------------------------
(* Properties *)

TypeOK ==
  /\ cfg \in Configs
  /\ pc \in Over \cup Calls \cup {"setup", "arpRun", "arpEnd", "examine", "next"}
  /\ traffic \in BOOLEAN /\ capture \in BOOLEAN /\ service \in BOOLEAN
  /\ packets \subseteq Packets
  /\ port \in 0 .. 2 /\ attempt \in 0 .. ArpRetries
  /\ found \subseteq Chains /\ count \in Nat
  /\ resolved \subseteq Ports /\ again \in BOOLEAN
  /\ macMap \subseteq Macs /\ it \in Nat
  /\ answered \subseteq Endpoints /\ forwarded \subseteq Endpoints

(* Some endpoint that carries the MAC of e had its packet captured. *)
Reached(e) == \E f \in forwarded : cfg.mac[f] = cfg.mac[e]

(* The check passes only if a packet of every expected MAC was captured,   *)
(* and it fails as unreachable only if one of them was in none of the      *)
(* captures, however the packets are spread over the captures and mixed    *)
(* with packets of other protocols (traffic_client.py:931-968).            *)
VerdictIsExact ==
  /\ pc = "established" => \A e \in Endpoints : Reached(e)
  /\ pc = "unreachable" => \E e \in Endpoints : ~Reached(e)

(* A port counts as resolved only if each of its chains has answered, in   *)
(* whichever attempts, and not because some answered more than once; the   *)
(* check goes on only with both ports (trex_gen.py:992-1030).              *)
ResolvedMeansAnswered ==
  /\ resolved \X Chains \subseteq answered
  /\ pc = "program" /\ cfg.arp => answered = Endpoints

(* A check that ended without an error of the client leaves nothing on:    *)
(* no traffic, no capture, and service mode only where it was asked for.   *)
QuietWhenOver ==
  pc \in Over \ {"error"} => ~traffic /\ ~capture /\ (service => cfg.service)

(* The check ends, whatever is lost and whoever never answers. *)
CheckEnds == <>(pc \in Over)
=============================================================================
