--------------------------- MODULE ChainResources ---------------------------
(***************************************************************************)
(* The OpenStack resources of a run, by the names nfvbench gives them, and *)
(* the order in which ChainManager (nfvbench/chaining.py) asks for them.   *)
(* A run finds the leftovers of earlier runs by these names.               *)
(*                                                                         *)
(* g is the part of the configuration that decides which resources there   *)
(* are: type (the service chain), chains (service_chain_count), shared     *)
(* (service_chain_shared_net), idle (idle_interfaces_per_vm), mgmt         *)
(* (use_management_port), fip (use_floating_ip), l3 (l3_router), keep      *)
(* (no_cleanup), az and hyp (the placement asked for as InstancePlacer     *)
(* splits it, "" for any), admin (whether the credentials are an admin's)  *)
(* and stated (availability_zone and hypervisor_hostname, "" if not given: *)
(* where a user who is no admin believes all VMs to be).                   *)
(* Chains and VNFs count from 1 here; chain 0 owns what chains share.      *)
(***************************************************************************)
EXTENDS Naturals, SequencesExt

Configurations ==
  [type : {"EXT", "PVP", "PVVP"}, chains : Nat, idle : Nat, shared : BOOLEAN,
   mgmt : BOOLEAN, fip : BOOLEAN, l3 : BOOLEAN, keep : BOOLEAN,
   az : STRING, hyp : STRING, admin : BOOLEAN, stated : STRING \X STRING]

Res(kind, c, v, i) == [kind |-> kind, chain |-> c, vnf |-> v, index |-> i]

Image == Res("image", 0, 0, 0)
Flavor == Res("flavor", 0, 0, 0)
MgmtNet == Res("mgmtNet", 0, 0, 0)
FipNet == Res("fipNet", 0, 0, 0)
Net(c, i) == Res("net", c, 0, i)
IdleNet(c, v, i) == Res("idleNet", c, v, i)
Vm(c, v) == Res("vm", c, v, 0)
Port(c, v, i) == Res("port", c, v, i)
IdlePort(c, v, i) == Res("idlePort", c, v, i)
MgmtPort(c, v) == Res("mgmtPort", c, v, 0)
Fip(c, v) == Res("fip", c, v, 0)
(* Routers are named by the edge network of the configuration alone. *)
Router(i) == Res("router", 0, 0, i)

NetKinds == {"mgmtNet", "fipNet", "net", "idleNet"}
PortKinds == {"port", "idlePort", "mgmtPort"}

(* Chain.get_length, in VNFs; the VNFs of EXT chains are not ours. *)
Length(g) == CASE g.type = "EXT" -> 0 [] g.type = "PVP" -> 1 [] g.type = "PVVP" -> 2

(* The networks of a chain: its internal ones from left to right, then the *)
(* two edge networks of the L3 case.                                       *)
NetCount(g) ==
  (IF g.type = "PVVP" THEN 3 ELSE 2) + (IF g.l3 /\ g.type # "EXT" THEN 2 ELSE 0)

ChainNet(g, c, i) == Net(IF g.shared THEN 0 ELSE c, i)
ChainNets(g, c) == [i \in 1..NetCount(g) |-> ChainNet(g, c, i)]

(* The network of traffic port i of a VNF: networks[vnf_id:...], of which  *)
(* the L3 case takes the third and the fourth.                             *)
PortNet(g, c, v, i) == ChainNet(g, c, IF g.l3 THEN v + i + 1 ELSE v + i - 1)

(* The networks a router joins: subnets_left or subnets_right. *)
RouterNets(g, c, i) ==
  {ChainNet(g, c, i), ChainNet(g, c, IF g.type = "PVVP" THEN i + 3 ELSE i + 2)}

(* Whether resource r keeps Neutron from deleting network n: it is a port  *)
(* on it, a floating IP from it or a router with an interface on it (which *)
(* the first chain attached).                                              *)
Holds(g, r, n) ==
  \/ r.kind = "port" /\ n = PortNet(g, r.chain, r.vnf, r.index)
  \/ r.kind = "idlePort" /\ n = IdleNet(r.chain, r.vnf, r.index)
  \/ r.kind = "mgmtPort" /\ n = MgmtNet
  \/ r.kind = "fip" /\ n = FipNet
  \/ r.kind = "router" /\ n \in RouterNets(g, 1, r.index)

-----------------------------------------------------------------------------
(* The order of creation: a sequence of what ChainManager.__init__ does,   *)
(* through Chain.__init__ and ChainVnf._setup, each with its resource.     *)

Do(op, r) == [op |-> op, res |-> r]

Opt(condition, steps) == IF condition THEN steps ELSE <<>>

(* Concatenates the sequences f[1], ..., f[n]. *)
Concat(n, f) == Opt(n > 0, FlattenSeq([i \in 1..n |-> f[i]]))

(* The elements of a sequence that are in a set, in their order. *)
Among(s, S) == Concat(Len(s), [i \in 1..Len(s) |-> Opt(s[i] \in S, <<s[i]>>)])

NetPlan(g, c) == [i \in 1..NetCount(g) |-> Do("net", ChainNet(g, c, i))]

(* ChainVnf._setup *)
VnfPlan(g, c, v) ==
  <<Do("lookup", Vm(c, v))>>
  \o Opt(g.mgmt, <<Do("port", MgmtPort(c, v))>>)
  \o Opt(g.mgmt /\ g.fip, <<Do("fip", Fip(c, v))>>)
  \o <<Do("port", Port(c, v, 1)), Do("port", Port(c, v, 2))>>
  \o Concat(g.idle, [i \in 1..g.idle |->
       <<Do("idle", IdleNet(c, v, i)), Do("idle", IdlePort(c, v, i))>>])
  \o Opt(g.l3, <<Do("router", Res("router", c, v, 1)), Do("router", Res("router", c, v, 2))>>)

(* Chain.__init__ *)
ChainPlan(g, c) ==
  Opt(~g.shared, NetPlan(g, c))
  \o Concat(Length(g), [v \in 1..Length(g) |-> VnfPlan(g, c, v)])
  \o Opt(g.type # "EXT", <<Do("hypervisors", Vm(c, 1))>>)
  \o Concat(Length(g), [v \in 1..Length(g) |->
       <<Do("vm", Vm(c, v)), Do("place", Vm(c, v))>>])

(* ChainManager.__init__ *)
Plan(g) ==
  Opt(g.type # "EXT",
      <<Do("image", Image), Do("flavor", Flavor)>>
      \o Opt(g.mgmt, <<Do("net", MgmtNet)>>)
      \o Opt(g.mgmt /\ g.fip, <<Do("net", FipNet)>>))
  \o Opt(g.shared, NetPlan(g, 0))
  \o Concat(g.chains, [c \in 1..g.chains |-> ChainPlan(g, c)])
  \o Opt(g.type # "EXT", <<Do("active", Image)>>)

(* The resources of a plan, and the VMs of a configuration. *)
Resources(plan) ==
  {IF step.op = "router" THEN Router(step.res.index) ELSE step.res :
     step \in {s \in ToSet(plan) : s.op \notin {"hypervisors", "active"}}}

Vms(g) == {Vm(c, v) : c \in 1..g.chains, v \in 1..Length(g)}

-----------------------------------------------------------------------------
(* The order of deletion. *)

IdlePorts(g, c, v) == [i \in 1..g.idle |-> IdlePort(c, v, i)]
IdleNets(g, c, v) == [i \in 1..g.idle |-> IdleNet(c, v, i)]

(* ChainVnf.delete: routers are not in it. *)
VnfDeletion(g, c, v) ==
  <<Vm(c, v)>> \o Opt(g.mgmt, <<MgmtPort(c, v)>>)
  \o <<Port(c, v, 1), Port(c, v, 2)>> \o IdlePorts(g, c, v) \o IdleNets(g, c, v)

(* Chain.delete, of a chain that has its first n VNFs. *)
ChainDeletion(g, c, n) ==
  Concat(n, [v \in 1..n |-> VnfDeletion(g, c, v)]) \o Opt(~g.shared, ChainNets(g, c))

(* ChainManager.delete, with its first n chains. *)
ManagerDeletion(g, n) ==
  Concat(n, [c \in 1..n |-> ChainDeletion(g, c, Length(g))])
  \o Opt(g.shared, ChainNets(g, 0)) \o <<MgmtNet, FipNet, Flavor>>
=============================================================================
