--------------------------- MODULE MCChainStaging ---------------------------
(* ChainStaging for a few configurations, each with many sets of leftovers. *)
EXTENDS ChainStaging

MCHosts == {<<"az1", "h1">>, <<"az1", "h2">>, <<"az2", "h3">>}

Base == [type |-> "PVP", chains |-> 1, shared |-> FALSE, idle |-> 0,
         mgmt |-> FALSE, fip |-> FALSE, l3 |-> FALSE, keep |-> FALSE,
         az |-> "", hyp |-> "", admin |-> TRUE, stated |-> <<"", "">>]

(* Leftovers that can be there: a port or floating IP only with its VM, a  *)
(* router, port or floating IP only with its networks.                     *)
Plausible(c, nets, S) ==
  \A r \in S :
    /\ r.kind \in PortKinds \cup {"fip"} => Vm(r.chain, r.vnf) \in S
    /\ r.kind = "fip" => MgmtPort(r.chain, r.vnf) \in S
    /\ \A n \in nets : Holds(c, r, n) => n \in S

(* Every plausible set of leftovers of configuration c that is a union of  *)
(* some blocks, every placement of the VMs in it and every set of VMs that *)
(* cannot be reused.                                                       *)
SituationsOf(c, blocks) ==
  LET nets == {r \in Resources(Plan(c)) : r.kind \in NetKinds}
      vms == Vms(c)
      leftovers == {S \in {UNION B : B \in SUBSET blocks} : Plausible(c, nets, S)}
  IN UNION {{[g |-> c, before |-> S, host |-> h, unusable |-> u] :
               h \in {f \in [vms -> MCHosts \cup {NoHost}] :
                        \A vm \in vms : f[vm] = NoHost <=> vm \notin S},
               u \in SUBSET (vms \cap S)}
            : S \in leftovers}

(* Blocks of leftovers: all resources of a kind, or a resource alone, or a *)
(* VNF with its traffic ports.  The image comes with the flavor.           *)
ByKind(c) ==
  LET all == Resources(Plan(c))
  IN {{r \in all : r.kind = kind} : kind \in {r.kind : r \in all} \ {"image", "flavor"}}
     \cup {{Image, Flavor}}

OneByOne(c) ==
  {{n} : n \in {r \in Resources(Plan(c)) : r.kind \in NetKinds}}
  \cup {{vm} : vm \in Vms(c)}
  \cup {{vm, Port(vm.chain, vm.vnf, 1), Port(vm.chain, vm.vnf, 2)} : vm \in Vms(c)}
  \cup {{Image, Flavor} : vm \in Vms(c)}

(* What a run leaves behind, with some of its VNFs gone. *)
ByVnf(c) ==
  {{r \in Resources(Plan(c)) : r.kind \in NetKinds \cup {"image", "flavor"}}}
  \cup {{vm, Port(vm.chain, vm.vnf, 1), Port(vm.chain, vm.vnf, 2)} : vm \in Vms(c)}

(* Chains of their own networks, sharing a hypervisor. *)
TwoChains == [Base EXCEPT !.chains = 2]

(* Two VNFs on shared networks, asked to be in an AZ. *)
TwoVnfs == [Base EXCEPT !.type = "PVVP", !.shared = TRUE, !.az = "az1"]

(* Two chains on shared networks, asked to be on a hypervisor. *)
SharedNets == [Base EXCEPT !.chains = 2, !.shared = TRUE, !.az = "az1", !.hyp = "h1"]

(* Everything a VNF can have. *)
Furnished == [Base EXCEPT !.idle = 2, !.mgmt = TRUE, !.fip = TRUE, !.hyp = "h2"]

(* L3 routers, for one VNF and, where they do not work, for two. *)
Routed == [Base EXCEPT !.chains = 2, !.shared = TRUE, !.l3 = TRUE]
RoutedTwice == [Base EXCEPT !.type = "PVVP", !.l3 = TRUE]

External == [Base EXCEPT !.type = "EXT", !.chains = 2]
Kept == [Base EXCEPT !.keep = TRUE]

(* Without admin rights: on the hypervisor the configuration names, asked  *)
(* for only in part; not on it; and with half of its name missing.         *)
User == [Base EXCEPT !.admin = FALSE, !.az = "az1", !.stated = <<"az1", "h1">>]
UserVnfs == [User EXCEPT !.type = "PVVP", !.shared = TRUE]
UserChains == [User EXCEPT !.chains = 2]
UserElsewhere == [UserChains EXCEPT !.az = "az2", !.shared = TRUE]
UserUnnamed == [UserVnfs EXCEPT !.stated = <<"az1", "">>]

MCSituations ==
  SituationsOf(TwoVnfs, OneByOne(TwoVnfs))
  \cup SituationsOf(External, OneByOne(External))
  \cup SituationsOf(RoutedTwice, {})
  \cup UNION {SituationsOf(c, ByKind(c)) :
               c \in {TwoChains, SharedNets, Furnished, Routed, Kept}}
  \cup UNION {SituationsOf(c, ByVnf(c)) :
               c \in {UserVnfs, UserChains, UserElsewhere, UserUnnamed}}

(* A clean cloud, without and with idle networks. *)
CleanCloud == SituationsOf(Base, {})
IdleSituations == SituationsOf([Base EXCEPT !.idle = 2], {})
=============================================================================
