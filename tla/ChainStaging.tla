---------------------------- MODULE ChainStaging ----------------------------
(***************************************************************************)
(* How a run brings up its service chains in OpenStack and takes them down *)
(* again (ChainManager and below in nfvbench/chaining.py, compute.py,      *)
(* chain_router.py, the deletion helpers of utils.py and what ChainRunner  *)
(* does with its ChainManager in chain_runner.py).                         *)
(*                                                                         *)
(* A resource that exists under the expected name is reused and must not   *)
(* be deleted; any other is created and deleted at the end.  Each call to  *)
(* OpenStack may fail.  An exception unwinds through the constructors of   *)
(* the objects under construction, and each of them deletes what it holds  *)
(* before it raises again: the model keeps the plan of ChainResources with *)
(* the position in it, and a stack of such deletions, the scopes.          *)
(*                                                                         *)
(* A call and its effect are one step: nobody else uses these names, the   *)
(* RunLock sees to it.                                                     *)
(***************************************************************************)
EXTENDS ChainResources, FiniteSets

CONSTANTS
  Situations,  (* the configurations and leftovers to start from, see below *)
  Hosts,       (* the hypervisors, pairs of an AZ and a host name *)
  Retries,     (* generic_retry_count *)
  MaxFaults    (* deletion calls that fail for no reason: a bound of the model *)

NoHost == <<"", "">>

(* A situation: the configuration g, the resources that exist already with *)
(* the hosts of the VMs among them, and those of these VMs that are not    *)
(* ACTIVE or have another flavor.  A leftover port whose VM is gone is not *)
(* among the resources: it is looked up on a reused VM only, so that a     *)
(* second port of its name is created next to it.                          *)
ASSUME StagingAssumption ==
  /\ Retries \in Nat \ {0}
  /\ MaxFaults \in Nat
  /\ Hosts \subseteq (STRING \ {""}) \X (STRING \ {""})
  /\ \A s \in Situations :
       /\ DOMAIN s = {"g", "before", "host", "unusable"}
       /\ s.g \in Configurations
       /\ s.before \subseteq Resources(Plan(s.g))
       /\ s.unusable \subseteq s.before
       /\ s.host \in [Vms(s.g) -> Hosts \cup {NoHost}]
       /\ \A r \in s.before :
            /\ r.kind = "vm" => s.host[r] \in Hosts
            /\ r.kind \in PortKinds => Vm(r.chain, r.vnf) \in s.before

VARIABLES
  g,         (* the configuration, of which ChainResources says more *)
  plan,      (* Plan(g) *)
  before,    (* the resources that existed before the run *)
  unusable,  (* the VMs among them that cannot be reused *)
  cloud,     (* the resources that exist *)
  host,      (* where each VM runs *)
  status,    (* of the run, see Statuses *)
  pos,       (* how far the plan has got *)
  reused,    (* the networks, flavor and VMs taken over (their reuse flag) *)
  held,      (* the resources some object would delete if told to *)
  placer,    (* InstancePlacer: required_az as a pair, and resolved *)
  todo,      (* scopes, innermost first: what each will still delete *)
  tries,     (* failed attempts at the first of them *)
  faults,    (* deletion calls that failed so far *)
  excused    (* history: left behind because OpenStack refused *)

config == <<g, plan, before, unusable>>
vars == <<config, cloud, host, status, pos, reused, held, placer, todo, tries,
          faults, excused>>

Final == {"failed", "closed", "kept", "abandoned", "interrupted"}
Statuses == {"staging", "unwinding", "ready", "closing"} \cup Final

Init ==
  /\ \E s \in Situations :
       /\ g = s.g
       /\ plan = Plan(g)
       /\ before = s.before
       /\ host = s.host
       /\ unusable = s.unusable
  /\ cloud = before
  /\ status = "staging"
  /\ pos = 1
  /\ reused = {}
  /\ held = {}
  /\ placer = [required |-> <<g.az, g.hyp>>, resolved |-> g.az # "" /\ g.hyp # ""]
  /\ todo = <<>>
  /\ tries = 0
  /\ faults = 0
  /\ excused = {}

(* The step of the plan that comes next, with the VM it is for. *)
Step == plan[pos]
Doing(op) == status = "staging" /\ pos <= Len(plan) /\ Step.op = op
StepVm == Vm(Step.res.chain, Step.res.vnf)

Proceed ==
  /\ pos' = pos + 1
  /\ UNCHANGED <<config, status, todo, tries, faults, excused>>

(* Moves on from a step that does not apply. *)
Skip == Proceed /\ UNCHANGED <<cloud, host, reused, held, placer>>

-----------------------------------------------------------------------------
(* What the handlers of a failing step delete, innermost scope first:      *)
(*   - ChainVnf._get_idle_networks_ports, its networks before its ports;   *)
(*   - ChainManager.get_networks, the networks it has so far;              *)
(*   - ChainVnf.__init__ (at that point there is no VM yet);               *)
(*   - Chain.__init__, the VNFs and networks the chain has so far;         *)
(*   - ChainManager.__init__, the complete chains and the rest.            *)
(* Idle ports and networks belong to the VNF, and shared networks to the   *)
(* manager, only once all of them are there.                               *)

InPlan(ops) == pos <= Len(plan) /\ Step.op \in ops
SettingUpNets == InPlan({"net"}) /\ Step.res.kind = "net"
SettingUpVnf == InPlan({"lookup", "port", "fip", "idle", "router"})
InChain == SettingUpVnf \/ InPlan({"hypervisors", "vm", "place"})

IdleScope ==
  Opt(InPlan({"idle"}),
      IdleNets(g, Step.res.chain, Step.res.vnf)
      \o IdlePorts(g, Step.res.chain, Step.res.vnf))

NetsScope == Opt(SettingUpNets, ChainNets(g, Step.res.chain))

VnfScope == Opt(SettingUpVnf, VnfDeletion(g, Step.res.chain, Step.res.vnf))

ChainScope ==
  Opt(InChain,
      ChainDeletion(g, Step.res.chain,
                    IF SettingUpVnf THEN Step.res.vnf - 1 ELSE Length(g)))

ChainsDone ==
  IF InPlan({"image", "flavor"}) THEN 0
  ELSE IF InPlan({"net"}) \/ InChain
       THEN IF Step.res.chain = 0 THEN 0 ELSE Step.res.chain - 1
       ELSE g.chains

ManagerScope == ManagerDeletion(g, ChainsDone)

(* Seeded fault: shared networks belong to the manager one by one. *)
UnsettledNotShared == ToSet(IdleScope)

(* What still belongs to the method that builds it. *)
Unsettled == ToSet(IdleScope) \cup ToSet(NetsScope)

(* Seeded fault: a VNF deletes the ports it found on a reused VM. *)
DeletableFoundPorts(r) == r \in held /\ r \notin reused

(* What an object deletes is what it holds and does not know as reused.  A *)
(* VNF whose VM is reused deletes none of its ports either, although those *)
(* do not know it (ChainVnfPort never sets its reuse flag).                *)
Deletable(r) ==
  /\ r \in held
  /\ r \notin reused
  /\ r.kind \in PortKinds => Vm(r.chain, r.vnf) \notin reused

Mine == {r \in held : Deletable(r)}

(* What a handler deletes, if anything. *)
Scope(resources) == Opt(resources # <<>>, <<resources>>)

(* The step raises an exception; own is what its own object still deletes. *)
Raise(own) ==
  /\ status' = "unwinding"
  /\ todo' = Scope(own)
             \o Scope(Among(IdleScope, Mine))
             \o Scope(Among(NetsScope, Mine))
             \o Scope(Among(VnfScope, Mine \ Unsettled))
             \o Scope(Among(ChainScope, Mine \ Unsettled))
             \o Scope(Among(ManagerScope, Mine \ Unsettled))
  /\ UNCHANGED <<config, host, pos, reused, held, placer, tries, faults, excused>>

Fail == Raise(<<>>) /\ UNCHANGED cloud

(* A resource that is there already is taken over. *)
TakeOver(r) ==
  /\ r \in cloud
  /\ reused' = reused \cup {r}
  /\ Proceed
  /\ UNCHANGED <<cloud, host, held, placer>>

(* One that is not there is created, and its object will delete it. *)
Create(r) ==
  /\ r \notin cloud
  /\ cloud' = cloud \cup {r}
  /\ held' = held \cup {r}
  /\ Proceed
  /\ UNCHANGED <<host, reused, placer>>

-----------------------------------------------------------------------------
(* The steps of the plan.  Any call to OpenStack may raise: Fail is an     *)
(* outcome of every step that makes one, next to the reasons named there.  *)

(* ChainManager._setup_image: an image once uploaded stays, even if it did *)
(* not get active in time.                                                 *)
SetupImage ==
  /\ Doing("image")
  /\ \/ Image \in cloud /\ Skip
     \/ /\ cloud' = cloud \cup {Image}
        /\ \/ Proceed /\ UNCHANGED <<host, reused, held, placer>>
           \/ Raise(<<>>)
     \/ Fail

(* ChainFlavor.__init__: when set_keys raises, ChainManager has no flavor  *)
(* yet and nobody deletes the one just created.                            *)
SetupFlavor ==
  /\ Doing("flavor")
  /\ \/ TakeOver(Flavor)
     \/ Create(Flavor)
     \/ Flavor \notin cloud /\ cloud' = cloud \cup {Flavor} /\ Raise(<<>>)
     \/ Fail

(* Seeded fault: a network without its subnet is not deleted. *)
SetupNetworkNoUndo(n) ==
  \/ TakeOver(n)
  \/ g.type # "EXT" /\ Create(n)
  \/ /\ g.type # "EXT" /\ n \notin cloud
     /\ cloud' = cloud \cup {n}
     /\ Raise(<<>>)
  \/ Fail

(* ChainNetwork.__init__: the networks of an EXT chain must be there; one  *)
(* that exists may mismatch; one created is deleted again when its subnet  *)
(* cannot be created.                                                      *)
SetupNetwork(n) ==
  \/ TakeOver(n)
  \/ g.type # "EXT" /\ Create(n)
  \/ /\ g.type # "EXT" /\ n \notin cloud
     /\ cloud' = cloud \cup {n}
     /\ Raise(<<n>>)
  \/ Fail

SetupNet == Doing("net") /\ SetupNetwork(Step.res)

(* ChainVnf._setup: a VM of that name is reused when everything else about *)
(* it matches, and an error when not.                                      *)
Reusable(vm) ==
  /\ vm \notin unusable
  /\ Flavor \in reused
  /\ \A i \in 1..2 :
       /\ PortNet(g, vm.chain, vm.vnf, i) \in reused
       /\ Port(vm.chain, vm.vnf, i) \in cloud

(* ChainVnf.get_hypervisor_name: where a VM is said to run.  Without admin *)
(* rights Nova is not asked: it is the configured name whatever the VM, or *)
(* an exception when half of that is missing.                              *)
HypervisorName(vm) == IF g.admin THEN host[vm] ELSE g.stated
NameRaises == ~g.admin /\ "" \in {g.stated[1], g.stated[2]}

LookupVm ==
  /\ Doing("lookup")
  /\ IF Step.res \notin cloud THEN Skip
     ELSE IF Reusable(Step.res) /\ ~NameRaises THEN TakeOver(Step.res)
     ELSE Fail

(* ChainVnfPort.__init__: found on a reused VM, created otherwise. *)
SetupPort(p) ==
  \/ /\ Vm(p.chain, p.vnf) \in reused /\ p \in cloud
     /\ held' = held \cup {p}
     /\ Proceed
     /\ UNCHANGED <<cloud, host, reused, placer>>
  \/ Vm(p.chain, p.vnf) \notin reused /\ Create(p)
  \/ Fail

SetupVnfPort == Doing("port") /\ SetupPort(Step.res)

(* ChainVnfPort.set_floating_ip ignores every failure. *)
SetupFloatingIp ==
  /\ Doing("fip")
  /\ Create(Step.res) \/ Skip

(* ChainVnf._get_idle_networks_ports, not for a reused VM. *)
SetupIdle ==
  /\ Doing("idle")
  /\ \/ StepVm \in reused /\ Skip
     \/ /\ StepVm \notin reused
        /\ IF Step.res.kind = "idleNet" THEN SetupNetwork(Step.res)
                                        ELSE SetupPort(Step.res)

(* ChainRouter.__init__: a router of that name must already join the       *)
(* networks of this chain.  One created is not deleted by anybody.  PVVP   *)
(* takes one edge network too few and fails at the second router.          *)
SetupRouter ==
  /\ Doing("router")
  /\ LET i == Step.res.index
         nets == RouterNets(g, Step.res.chain, i)
     IN \/ /\ Router(i) \in cloud
           /\ nets = RouterNets(g, 1, i)
           /\ Skip
        \/ /\ Router(i) \notin cloud
           /\ g.type = "PVP" \/ i = 1
           /\ cloud' = cloud \cup {Router(i)}
           /\ \/ Proceed /\ UNCHANGED <<host, reused, held, placer>>
              \/ Raise(<<>>)
        \/ Fail

(* InstancePlacer.register_full_name: whether a hypervisor is compatible   *)
(* with the one required so far, which it then resolves.                   *)
Matches(required, h) == \A part \in 1..2 : required[part] \in {"", h[part]}

Register(h) ==
  IF Matches(placer.required, h)
  THEN placer' = [required |-> h, resolved |-> TRUE]
  ELSE UNCHANGED placer

(* Chain._check_hypervisors: the reused VMs of this chain must share one   *)
(* hypervisor by name, compatible with the one required.                   *)
CheckHypervisors ==
  /\ Doing("hypervisors")
  /\ LET found == {HypervisorName(Vm(Step.res.chain, v)) :
                     v \in {u \in 1..Length(g) : Vm(Step.res.chain, u) \in reused}}
     IN \/ found = {} /\ Skip
        \/ \E h \in found :
             /\ found = {h}
             /\ Matches(placer.required, h)
             /\ Register(h)
             /\ Proceed
             /\ UNCHANGED <<cloud, host, reused, held>>
        \/ /\ found # {}
           /\ \A h \in found : found # {h} \/ ~Matches(placer.required, h)
           /\ Fail

(* ChainVnf.create_vnf: Nova places the VM where the required AZ lets it.  *)
CreateVm ==
  /\ Doing("vm")
  /\ \/ StepVm \in reused /\ Skip
     \/ /\ StepVm \notin reused
        /\ \/ \E h \in Hosts :
                /\ Matches(placer.required, h)
                /\ host' = [host EXCEPT ![StepVm] = h]
                /\ cloud' = cloud \cup {StepVm}
                /\ held' = held \cup {StepVm}
                /\ Proceed
                /\ UNCHANGED <<reused, placer>>
           \/ Fail

(* Seeded fault: the VMs that follow do not wait for the first one. *)
ResolvePlacementNoWait == Doing("place") /\ Skip

(* As long as the placement is open, create_vnf waits for the new VM to    *)
(* become ACTIVE and requires its hypervisor, by name, of all that follow; *)
(* nobody looks whether the name was accepted.  A VM in ERROR, or one that *)
(* takes too long, raises.                                                 *)
ResolvePlacement ==
  /\ Doing("place")
  /\ \/ (StepVm \in reused \/ placer.resolved) /\ Skip
     \/ /\ StepVm \notin reused /\ ~placer.resolved
        /\ \/ /\ ~NameRaises
              /\ Register(HypervisorName(StepVm))
              /\ Proceed
              /\ UNCHANGED <<cloud, host, reused, held>>
           \/ Fail

(* ChainManager._ensure_instances_active, which logs the hypervisor name   *)
(* of every VM, and the VLANs from the config.                             *)
EnsureActive ==
  /\ Doing("active")
  /\ \/ (NameRaises => Vms(g) = {}) /\ Skip
     \/ Fail

(* The rest of ChainRunner.__init__ programs the generator with the VLANs, *)
(* MACs and VNIs of the chains, and raises for a network that has no VLAN. *)
(* NFVBench.run then has no ChainRunner it could close.                    *)
Staged ==
  /\ status = "staging"
  /\ pos > Len(plan)
  /\ status' \in {"ready", "abandoned"}
  /\ UNCHANGED <<config, cloud, host, pos, reused, held, placer, todo, tries,
                 faults, excused>>

(* ChainRunner.close after the benchmark. *)
Close ==
  /\ status = "ready"
  /\ IF g.keep
     THEN status' = "kept" /\ UNCHANGED todo
     ELSE /\ status' = "closing"
          /\ todo' = Scope(Among(ManagerScope, Mine))
  /\ UNCHANGED <<config, cloud, host, pos, reused, held, placer, tries, faults,
                 excused>>

-----------------------------------------------------------------------------
(* Deletion. *)

Deleting(kinds) == todo # <<>> /\ Head(Head(todo)).kind \in kinds
Target == Head(Head(todo))

(* todo without its first resource. *)
Rest == Opt(Len(Head(todo)) > 1, <<Tail(Head(todo))>>) \o Tail(todo)

Done ==
  /\ todo' = Rest
  /\ tries' = 0
  /\ UNCHANGED <<config, host, status, pos, reused, held, placer>>

(* Seeded fault: attempts without end. *)
RetryForever ==
  UNCHANGED <<config, host, status, pos, reused, held, placer, todo, tries>>

(* A failed attempt; after the last one the error is logged and that is it. *)
Retry ==
  IF tries + 1 < Retries
  THEN /\ tries' = tries + 1
       /\ UNCHANGED <<config, host, status, pos, reused, held, placer, todo>>
  ELSE Done

Faulty == faults < MaxFaults /\ faults' = faults + 1

(* Compute.delete_server: the call may fail and the VM may take too long,  *)
(* which is only logged; but an error while waiting ends the whole scope.  *)
DeleteVm ==
  /\ Deleting({"vm"})
  /\ \/ cloud' = cloud \ {Target} /\ Done /\ UNCHANGED <<faults, excused>>
     \/ Faulty /\ excused' = excused \cup {Target} /\ Done /\ UNCHANGED cloud
     \/ /\ Faulty
        /\ cloud' \in {cloud, cloud \ {Target}}
        /\ excused' = excused \cup ToSet(Head(todo))
        /\ todo' = Tail(todo)
        /\ UNCHANGED <<config, host, status, pos, reused, held, placer, tries>>

(* One attempt of ChainVnfPort.delete.  The floating IP goes in the same   *)
(* attempt, after the port: when that call fails, all further attempts     *)
(* fail at the port, which is gone.                                        *)
DeletePort ==
  /\ Deleting(PortKinds)
  /\ LET fip == Fip(Target.chain, Target.vnf)
         own == IF Target.kind = "mgmtPort" THEN {fip} \cap held ELSE {}
     IN \/ /\ Target \in cloud
           /\ cloud' = cloud \ ({Target} \cup own)
           /\ Done
           /\ UNCHANGED <<faults, excused>>
        \/ /\ Target \in cloud /\ own # {}
           /\ Faulty
           /\ cloud' = cloud \ {Target}
           /\ excused' = excused \cup {Target}
           /\ Retry
        \/ /\ Target \in cloud
           /\ Faulty
           /\ excused' = excused \cup {Target}
           /\ Retry
           /\ UNCHANGED cloud
        \/ /\ Target \notin cloud
           /\ Retry
           /\ UNCHANGED <<cloud, faults, excused>>

(* One attempt of ChainNetwork.delete; Neutron refuses while it is in use. *)
InUse(n) == \E r \in cloud : Holds(g, r, n)

DeleteNetwork ==
  /\ Deleting(NetKinds)
  /\ \/ /\ Target \in cloud /\ ~InUse(Target)
        /\ cloud' = cloud \ {Target}
        /\ Done
        /\ UNCHANGED <<faults, excused>>
     \/ /\ Target \notin cloud \/ InUse(Target)
        /\ Retry
        /\ UNCHANGED <<cloud, faults, excused>>
     \/ /\ Faulty
        /\ excused' = excused \cup {Target}
        /\ Retry
        /\ UNCHANGED cloud

(* ChainFlavor.delete; its error is not caught but nothing comes after it. *)
DeleteFlavor ==
  /\ Deleting({"flavor"})
  /\ \/ cloud' = cloud \ {Target} /\ Done /\ UNCHANGED <<faults, excused>>
     \/ Faulty /\ excused' = excused \cup {Target} /\ Done /\ UNCHANGED cloud

(* Nothing is left to delete. *)
End ==
  /\ status \in {"unwinding", "closing"}
  /\ todo = <<>>
  /\ status' = IF status = "closing" THEN "closed" ELSE "failed"
  /\ UNCHANGED <<config, cloud, host, pos, reused, held, placer, todo, tries,
                 faults, excused>>

(* Control-C: KeyboardInterrupt is no Exception, so no handler above runs, *)
(* and NFVBench.run has no ChainRunner to close yet.                       *)
Interrupt ==
  /\ status \in {"staging", "unwinding", "closing"}
  /\ status' = "interrupted"
  /\ todo' = <<>>
  /\ UNCHANGED <<config, cloud, host, pos, reused, held, placer, tries, faults,
                 excused>>

-----------------------------------------------------------------------------
Stage ==
  \/ SetupImage
  \/ SetupFlavor
  \/ SetupNet
  \/ LookupVm
  \/ SetupVnfPort
  \/ SetupFloatingIp
  \/ SetupIdle
  \/ SetupRouter
  \/ CheckHypervisors
  \/ CreateVm
  \/ ResolvePlacement
  \/ EnsureActive
  \/ Staged

Delete ==
  \/ DeleteVm
  \/ DeletePort
  \/ DeleteNetwork
  \/ DeleteFlavor
  \/ End

Next ==
  \/ Stage
  \/ Close
  \/ Delete
  \/ Interrupt

Spec == Init /\ [][Next]_vars

(* One thread does all this, and every wait in it has a bound. *)
FairSpec == Spec /\ WF_vars(Stage \/ Close \/ Delete)

-----------------------------------------------------------------------------
TypeOK ==
  /\ plan = Plan(g)
  /\ before \cup cloud \cup held \cup excused \subseteq Resources(plan)
  /\ unusable \subseteq before
  /\ host \in [Vms(g) -> Hosts \cup {NoHost}]
  /\ status \in Statuses
  /\ pos \in 1..(Len(plan) + 1)
  /\ reused \subseteq before
  /\ placer.resolved \in BOOLEAN
  /\ placer.required \in Hosts \cup {<<g.az, g.hyp>>, g.stated}
  /\ \A i \in DOMAIN todo : todo[i] # <<>> /\ ToSet(todo[i]) \subseteq held \cup cloud
  /\ tries \in 0..(Retries - 1)
  /\ faults \in 0..MaxFaults

(* Whatever fails and wherever it fails, a run never deletes a resource    *)
(* that was there before it (cfg.default.yaml:67, 431: it is reused), not  *)
(* even the ports of a reused VM, which carry no reuse flag                *)
(* (chaining.py:119-151, 810-825).                                         *)
ReusedNeverDeleted == before \subseteq cloud

(* Whether VM other was there when vm was created. *)
KnownBefore(other, vm) ==
  \/ other.chain < vm.chain
  \/ other.chain = vm.chain /\ (other.vnf < vm.vnf \/ other \in reused)

(* The VMs the code can keep together: all of them with admin rights.      *)
(* Without, every new VM that another one came before, once the name which *)
(* stands for that one's hypervisor was accepted.                          *)
MustBeTogether(vm) ==
  \/ g.admin
  \/ /\ placer.resolved
     /\ vm \notin reused
     /\ \E other \in Vms(g) \ {vm} : KnownBefore(other, vm)

(* A staged run has all its VMs, and has them on one hypervisor that is as *)
(* the configuration asks (chaining.py:734-735, 854-855, 868-885), as far  *)
(* as its rights let it see where they are: without admin rights a reused  *)
(* VM may be anywhere, and the first new one anywhere it was asked to be.  *)
OneHypervisor ==
  status = "ready" =>
    \A vm \in Vms(g) :
      /\ vm \in cloud
      /\ g.admin \/ vm \notin reused => Matches(<<g.az, g.hyp>>, host[vm])
      /\ MustBeTogether(vm) => host[vm] = placer.required

(* The resources that may outlive a run: those OpenStack would not delete, *)
(* those no object ever holds (the image, which is kept on purpose, the    *)
(* routers, a flavor whose extra specs were refused), the networks these   *)
(* still use, the floating IP given to a reused VM, and the idle networks  *)
(* of a VNF whose idle ports could not be completed.                       *)
MayOutlive(r) ==
  \/ r \in excused
  \/ r.kind \in {"image", "router", "flavor"} /\ r \notin held
  \/ r.kind \in NetKinds /\ InUse(r)
  \/ r.kind = "fip" /\ \/ MgmtPort(r.chain, r.vnf) \in excused
                       \/ Vm(r.chain, r.vnf) \in reused
  \/ r.kind = "idleNet" /\ InPlan({"idle"})

(* A run that has ended, and was not told to keep its resources, leaves    *)
(* the cloud as it found it, except for that: no failure of ChainManager   *)
(* lets a network, port, VM or flavor slip through the handlers on the way *)
(* up (chaining.py:258-264, 455-458, 602-608, 864-866, 1185-1187, 1365).   *)
LeavesWhatItFound ==
  status \in {"failed", "closed"} => \A r \in cloud \ before : MayOutlive(r)

(* No two handlers delete the same object: what is about to be deleted     *)
(* exists.  A second deletion would be retried 100 times, 2 seconds apart. *)
NothingDeletedTwice == todo # <<>> /\ tries = 0 => Target \in cloud

(* Every run ends, whatever OpenStack answers. *)
RunEnds == <>(status \in Final)
=============================================================================
