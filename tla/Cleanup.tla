------------------------------ MODULE Cleanup ------------------------------
(***************************************************************************)
(* nfvbench --cleanup (nfvbench/cleanup.py): four cleaners discover what   *)
(* earlier runs left in the cloud, by name, and delete it, each call once. *)
(* It starts from leftovers of ChainResources and may be called again and  *)
(* again.                                                                  *)
(*                                                                         *)
(* The cloud is external: Nova deletes a server some time after it was     *)
(* asked to, Neutron refuses to delete a network in use, a router with     *)
(* interfaces and the port of a router.                                    *)
(***************************************************************************)
EXTENDS ChainResources, Integers, FiniteSets

CONSTANTS
  Leftovers,  (* records [g, left]: a configuration and what is left of it *)
  Answers,    (* what the user may type, see CleanOptions                  *)
  MaxPolls,   (* retry_count of waiting_servers_deletion                   *)
  MaxFaults   (* calls that fail although the cloud could do them          *)

(* The cleaners in order, by the first letter of get_cleaner_code. *)
Codes == {"i", "f", "n", "r"}

(* What may be left of earlier runs: resources with the names nfvbench     *)
(* gives them.  Neutron has kept the network of each port and of each      *)
(* floating IP.                                                            *)
Named(r) ==
  \/ r \in {Image, Flavor, Router(1), Router(2)}
  \/ r.kind \in {"vm", "fip"} \cup NetKinds \cup PortKinds

OnNetwork(conf, left) ==
  \A r \in left : r.kind \in PortKinds \cup {"fip"} =>
    \E n \in left : n.kind \in NetKinds /\ Holds(conf, r, n)

(* An answer has its first letter, its letters that are codes, whether it  *)
(* is the complete name of a kind, and the kinds its author means.         *)
ASSUME CleanupAssumption ==
  /\ \A s \in Leftovers :
       IsFiniteSet(s.left) /\ (\A r \in s.left : Named(r)) /\ OnNetwork(s.g, s.left)
  /\ \A a \in Answers :
       /\ a.first \in {"y", "a"} => a.wanted = Codes
       /\ a.first \notin {"y", "a"} /\ a.complete => a.wanted = {a.first}
       /\ a.first \notin {"y", "a", "q"} /\ ~a.complete => a.wanted = a.letters
       /\ a.wanted \subseteq Codes
  /\ MaxPolls \in Nat \ {0} /\ MaxFaults \in Nat

(* The cleaner that deletes a resource. *)
CodeOf(r) == CASE r.kind = "vm" -> "i"
               [] r.kind = "flavor" -> "f"
               [] r.kind \in NetKinds \cup PortKinds \cup {"fip"} -> "n"
               [] r.kind = "router" -> "r"
               [] r.kind = "image" -> "none"

VARIABLES
  g,         (* the configuration *)
  (* the cloud *)
  exists,    (* the resources there are *)
  dying,     (* the servers Nova was asked to delete *)
  attached,  (* pairs <<router, network>>: the interfaces of the routers *)
  (* the program *)
  pc,
  options,   (* clean_options: the codes to clean *)
  found,     (* what the cleaners discovered, and still have to handle *)
  routers,   (* RouterCleaner.routers, the current one first *)
  ports,     (* RouterCleaner.ports *)
  left,      (* of these, what is left of the loop over the current router *)
  polls,     (* retry_count, counted up *)
  (* history *)
  faults,    (* the calls that failed without a reason *)
  wanted,    (* the codes the user asked for in this call *)
  passes     (* complete cleanups of everything since the last fault, -1 *)
             (* during the one with the fault *)

cloud == <<exists, dying, attached>>
history == <<faults, wanted, passes>>
vars == <<g, cloud, pc, options, found, routers, ports, left, polls, history>>

Of(kinds) == {r \in exists : r.kind \in kinds}
Found(kinds) == {r \in found : r.kind \in kinds}

Fault == faults < MaxFaults /\ faults' = faults + 1 /\ passes' = -1
NoFault == UNCHANGED <<faults, passes>>

-----------------------------------------------------------------------------
(* Seeded faults.  Each is one of the definitions below with a plausible   *)
(* slip; substituted for it, it must make a property fail.                 *)

(* Ports are looked for on the first network only. *)
DiscoveredOneNetwork ==
  LET nets == Of(NetKinds)
  IN Of({"vm", "flavor", "router"}) \cup nets
     \cup {r \in Of(PortKinds \cup {"fip"}) : nets # {} /\ Holds(g, r, CHOOSE n \in nets : TRUE)}

(* The test for complete names forgotten. *)
CleanOptionsByLetter(answer) ==
  IF answer.first \in {"y", "a"} THEN Codes ELSE answer.letters

(* retry_count is never decreased. *)
WaitForServersForever ==
  /\ pc = "wait"
  /\ pc' = IF Of({"vm"}) = {} THEN "flavor" ELSE "wait"
  /\ UNCHANGED <<g, cloud, options, found, routers, ports, left, polls, history>>

-----------------------------------------------------------------------------
Init ==
  \E start \in Leftovers :
    /\ g = start.g
    /\ exists = start.left
    /\ dying = {}
    /\ attached = {a \in Of({"router"}) \X Of(NetKinds) : Holds(g, a[1], a[2])}
    /\ pc = "discover"
    /\ options = {} /\ found = {} /\ routers = <<>> /\ ports = <<>> /\ left = <<>>
    /\ polls = 0 /\ faults = 0 /\ wanted = {} /\ passes = 0

(* Ports and floating IPs are looked for on the networks found. *)
Discovered ==
  LET nets == Of(NetKinds)
  IN Of({"vm", "flavor", "router"}) \cup nets
     \cup {r \in Of(PortKinds \cup {"fip"}) : \E n \in nets : Holds(g, r, n)}

(* The ports of all routers, in the order of the routers; Neutron lists    *)
(* those of one router in any order.                                       *)
PortsOf(order) ==
  {list \in SetToSeqs(attached) :
     \A i, j \in DOMAIN list : \A k, l \in DOMAIN order :
       i < j /\ list[i][1] = order[k] /\ list[j][1] = order[l] => k <= l}

(* The constructors of the four cleaners, and show_resources: nothing is   *)
(* asked when nothing was found.  Neutron lists routers in any order.      *)
Discover(order) ==
  /\ pc = "discover"
  /\ found' = Discovered
  /\ routers' = order
  /\ ports' \in PortsOf(order)
  /\ pc' = IF Discovered = {} THEN "discover" ELSE "ask"
  /\ UNCHANGED <<g, cloud, options, left, polls, history>>

(* An answer is "y", or "n" and then a word. *)
CleanOptions(answer) ==
  IF answer.first \in {"y", "a"} THEN Codes
  ELSE IF answer.complete THEN {answer.first}
  ELSE answer.letters

Ask(answer) ==
  /\ pc = "ask"
  /\ options' = IF answer.first = "q" THEN {} ELSE CleanOptions(answer)
  /\ wanted' = answer.wanted
  /\ pc' = IF answer.first = "q" THEN "discover" ELSE "servers"
  /\ UNCHANGED <<g, cloud, found, routers, ports, left, polls, faults, passes>>

-----------------------------------------------------------------------------
(* ComputeCleaner.clean and utils.delete_server *)
DeleteServer ==
  /\ pc = "servers" /\ "i" \in options
  /\ \E vm \in Found({"vm"}) :
       /\ found' = found \ {vm}
       /\ \/ dying' = dying \cup ({vm} \cap exists) /\ NoFault
          \/ UNCHANGED dying /\ Fault
  /\ UNCHANGED <<g, exists, attached, pc, options, routers, ports, left, polls, wanted>>

ServersAsked ==
  /\ pc = "servers"
  /\ "i" \in options => Found({"vm"}) = {}
  /\ pc' = IF "i" \in options THEN "wait" ELSE "flavor"
  /\ polls' = 0
  /\ UNCHANGED <<g, cloud, options, found, routers, ports, left, history>>

(* One round of waiting_servers_deletion; it gives up after retry_count.   *)
(* The servers whose deletion failed are waited for too.                   *)
WaitForServers ==
  /\ pc = "wait"
  /\ polls' = polls + 1
  /\ pc' = IF Of({"vm"}) = {} \/ polls + 1 = MaxPolls THEN "flavor" ELSE "wait"
  /\ UNCHANGED <<g, cloud, options, found, routers, ports, left, history>>

(* instance_exists lets every error but NotFound through: the end of this  *)
(* cleanup.                                                                *)
WaitRaises ==
  /\ pc = "wait" /\ Fault
  /\ pc' = "discover"
  /\ UNCHANGED <<g, cloud, options, found, routers, ports, left, polls, wanted>>

(* FlavorCleaner.clean *)
DeleteFlavor ==
  /\ pc = "flavor"
  /\ \/ "f" \in options /\ exists' = exists \ {Flavor} /\ NoFault
     \/ "f" \in options /\ Flavor \in exists /\ Fault /\ UNCHANGED exists
     \/ "f" \notin options /\ NoFault /\ UNCHANGED exists
  /\ pc' = IF "n" \in options THEN "ports" ELSE "routers"
  /\ UNCHANGED <<g, dying, attached, options, found, routers, ports, left, polls, wanted>>

(* NetworkCleaner.clean: ports, then floating IPs, then networks; an error *)
(* is logged and the next one tried.  The ports of routers, which Neutron  *)
(* refuses to delete here, stay.                                           *)
InUse(n) ==
  \/ \E r \in exists \ Of({"router"}) : Holds(g, r, n)
  \/ \E r \in Of({"router"}) : <<r, n>> \in attached

DeleteInNetworks(r) ==
  /\ found' = found \ {r}
  /\ \/ /\ ~(r.kind \in NetKinds /\ InUse(r))
        /\ exists' = exists \ {r} /\ NoFault
     \/ /\ r.kind \in NetKinds /\ InUse(r)
        /\ UNCHANGED exists /\ NoFault
     \/ Fault /\ UNCHANGED exists
  /\ UNCHANGED <<g, dying, attached, pc, options, routers, ports, left, polls, wanted>>

DeletePort == pc = "ports" /\ \E r \in Found(PortKinds) : DeleteInNetworks(r)
DeleteFloatingIp == pc = "fips" /\ \E r \in Found({"fip"}) : DeleteInNetworks(r)
DeleteNetwork == pc = "nets" /\ \E r \in Found(NetKinds) : DeleteInNetworks(r)

NextKind ==
  /\ \/ pc = "ports" /\ Found(PortKinds) = {} /\ pc' = "fips"
     \/ pc = "fips" /\ Found({"fip"}) = {} /\ pc' = "nets"
     \/ pc = "nets" /\ Found(NetKinds) = {} /\ pc' = "routers"
  /\ UNCHANGED <<g, cloud, options, found, routers, ports, left, polls, history>>

-----------------------------------------------------------------------------
(* RouterCleaner.clean.  For each router the routes are cleared, and then  *)
(* the ports of ALL routers are removed from it, until the first error.    *)

NextRouter ==
  /\ pc = "routers" /\ "r" \in options /\ routers # <<>>
  /\ left' = ports
  /\ \/ NoFault
     \/ Fault  (* the routes stay; they do not matter to the deletion *)
  /\ pc' = "interfaces"
  /\ UNCHANGED <<g, cloud, options, found, routers, ports, polls, wanted>>

RemoveInterface ==
  /\ pc = "interfaces"
  /\ left # <<>> /\ Head(left)[1] = Head(routers) /\ Head(left) \in attached
  /\ \/ attached' = attached \ {Head(left)} /\ left' = Tail(left) /\ NoFault
     \/ Fault /\ left' = <<>> /\ UNCHANGED attached
  /\ UNCHANGED <<g, exists, dying, pc, options, found, routers, ports, polls, wanted>>

(* A port of another router, or one that is gone: Neutron raises, and the  *)
(* remaining ports are not looked at.                                      *)
ForeignInterface ==
  /\ pc = "interfaces"
  /\ left # <<>> /\ ~(Head(left)[1] = Head(routers) /\ Head(left) \in attached)
  /\ left' = <<>>
  /\ UNCHANGED <<g, cloud, pc, options, found, routers, ports, polls, history>>

DeleteRouter ==
  LET rtr == Head(routers)
  IN /\ pc = "interfaces" /\ left = <<>>
     /\ routers' = Tail(routers)
     /\ pc' = "routers"
     /\ \/ /\ \A a \in attached : a[1] # rtr
           /\ exists' = exists \ {rtr} /\ NoFault
        \/ /\ \E a \in attached : a[1] = rtr
           /\ UNCHANGED exists /\ NoFault
        \/ Fault /\ UNCHANGED exists
     /\ UNCHANGED <<g, dying, attached, options, found, ports, left, polls, wanted>>

CleanDone ==
  /\ pc = "routers" /\ ("r" \in options => routers = <<>>)
  /\ pc' = "discover"
  /\ passes' = IF options = Codes /\ passes < 3 THEN passes + 1 ELSE passes
  /\ found' = {} /\ ports' = <<>> /\ routers' = <<>> /\ options' = {} /\ polls' = 0
  /\ wanted' = {}
  /\ UNCHANGED <<g, cloud, left, faults>>

-----------------------------------------------------------------------------
(* External: Nova deletes a server it was asked to delete. *)
NovaDeletes ==
  \E vm \in dying :
    /\ exists' = exists \ {vm}
    /\ dying' = dying \ {vm}
    /\ UNCHANGED <<g, attached, pc, options, found, routers, ports, left, polls, history>>

Clean ==
  \/ \E order \in SetToSeqs(Of({"router"})) : Discover(order)
  \/ \E answer \in Answers : Ask(answer)
  \/ DeleteServer \/ ServersAsked \/ WaitForServers \/ WaitRaises
  \/ DeleteFlavor
  \/ DeletePort \/ DeleteFloatingIp \/ DeleteNetwork \/ NextKind
  \/ NextRouter \/ RemoveInterface \/ ForeignInterface \/ DeleteRouter
  \/ CleanDone

Next == Clean \/ NovaDeletes

Spec == Init /\ [][Next]_vars

(* The program runs on; Nova may never delete a server. *)
FairSpec == Spec /\ WF_vars(Clean)

-----------------------------------------------------------------------------
(* Properties *)

(* Removing the ports of all routers from each router stops at the first   *)
(* that is not its own, and networks are cleaned before routers: what one  *)
(* complete cleanup without a failing call leaves is bounded all the same. *)
(* The first leaves at most one router, the second none and the third      *)
(* nothing but the image and servers Nova is slow to delete                *)
(* (cleanup.py:88-111, 150-177).                                           *)
LeftAfterPasses ==
  /\ passes >= 1 => Cardinality(Of({"router"})) <= 1
  /\ passes >= 2 => Of({"router"}) = {}
  /\ passes >= 3 => exists \ dying \subseteq {Image}

(* A user who names one kind, by its letter or completely, loses resources *)
(* of that kind only, and none before having answered, although the codes  *)
(* are letters of each other's names (cleanup.py:286-299).  A server is    *)
(* lost some time after it was asked to go.                                *)
OnlyWhatWasAsked ==
  [][ /\ \A r \in exists \ exists' : r \in dying \/ CodeOf(r) \in wanted
      /\ \A r \in dying' \ dying : CodeOf(r) \in wanted
      /\ attached # attached' => "r" \in wanted ]_vars

(* Every cleanup ends, whatever fails and however slow Nova is. *)
EveryCleanupEnds == []<>(pc = "discover")
=============================================================================
