--------------------------- MODULE CleanupProofs ---------------------------
(***************************************************************************)
(* Cleanup for any leftovers, answers, polls and failing calls.            *)
(*                                                                         *)
(* What a complete cleanup leaves is read off an invariant that follows    *)
(* it from phase to phase: what a phase has to delete was found before,    *)
(* and is gone after it.  They hold of a cleanup of everything in which no *)
(* call has failed so far (Good); the numbers of complete cleanups so far  *)
(* decide what networks and routers it is up to.                           *)
(***************************************************************************)
EXTENDS Cleanup, SequenceTheorems, FiniteSetTheorems, FunctionTheorems, TLAPS

(* The phases of a cleanup, in order. *)
Later == {"flavor", "ports", "fips", "nets", "routers", "interfaces"}
Phases == {"discover", "ask", "servers", "wait"} \cup Later
Cleaning == {"servers", "wait"} \cup Later

(* All that may be left by earlier runs. *)
Everything == UNION {s.left : s \in Leftovers}

(* The types, and what is true of the cloud whatever happens to it. *)
CleanTypes ==
  /\ pc \in Phases
  /\ options \subseteq Codes
  /\ exists \subseteq Everything /\ found \subseteq Everything
  /\ dying \subseteq Of({"vm"})
  /\ IsFiniteSet(exists) /\ IsFiniteSet(attached)
  /\ attached \subseteq Everything \X Everything
  /\ \A a \in attached : a[1] \in Of({"router"})
  /\ OnNetwork(g, exists)
  /\ passes \in {-1, 0, 1, 2, 3}

(* A kind is cleaned only when it was asked for. *)
AskedFor ==
  /\ pc \in Cleaning => options \subseteq wanted
  /\ pc = "wait" => "i" \in options
  /\ pc \in {"ports", "fips", "nets"} => "n" \in options
  /\ pc = "interfaces" => "r" \in options

(* A cleanup of everything, without a fault so far. *)
Good == options = Codes /\ passes >= 0

(* What is still to be handled was found. *)
FoundAhead ==
  /\ pc = "ask" => Of({"vm"}) \subseteq found
  /\ pc = "servers" /\ Good => Of({"vm"}) \ dying \subseteq found
  /\ pc \in {"ask", "servers", "wait", "flavor"} =>
       Of(NetKinds \cup PortKinds \cup {"fip"}) \subseteq found
  /\ pc = "ports" /\ Good => Of(NetKinds \cup PortKinds \cup {"fip"}) \subseteq found
  /\ pc = "fips" /\ Good => Of(NetKinds \cup {"fip"}) \subseteq found
  /\ pc = "nets" /\ Good /\ passes >= 2 => Of(NetKinds) \subseteq found

(* What a phase had to delete is gone. *)
GoneBehind ==
  /\ pc \in {"wait"} \cup Later /\ Good => Of({"vm"}) \subseteq dying
  /\ pc \in Later \ {"flavor"} /\ Good => Flavor \notin exists
  /\ pc \in {"fips", "nets", "routers", "interfaces"} /\ Good => Of(PortKinds) = {}
  /\ pc \in {"nets", "routers", "interfaces"} /\ Good => Of({"fip"}) = {}
  /\ pc \in {"routers", "interfaces"} /\ Good /\ passes >= 2 => Of(NetKinds) = {}

(* The interfaces of the first router of rs, out of those attached, are in *)
(* the list s, once each and before any others, and all its ports in s are *)
(* still attached.                                                         *)
OwnIn(s, rs, interfaces) ==
  rs # <<>> =>
    /\ \A a \in interfaces : a[1] = Head(rs) => \E i \in DOMAIN s : s[i] = a
    /\ \A i \in DOMAIN s : s[i][1] = Head(rs) =>
         /\ s[i] \in interfaces
         /\ \A j \in DOMAIN s : j < i => s[j][1] = Head(rs) /\ s[j] # s[i]

(* The list rs has each router of the set R once. *)
Lists(rs, R) ==
  /\ R = {rs[i] : i \in DOMAIN rs}
  /\ \A i, j \in DOMAIN rs : i # j => rs[i] # rs[j]

(* No router was handled since they were listed, and the interfaces of the *)
(* first are going to be removed.                                          *)
Ready(s) == Lists(routers, Of({"router"})) /\ OwnIn(s, routers, attached)

(* One was, or there was none. *)
FewLeft ==
  IF passes = 0
  THEN Len(routers) <= 1 /\ Cardinality(Of({"router"})) <= 1
  ELSE routers = <<>> /\ Of({"router"}) = {}

RoutersAhead ==
  /\ routers \in Seq({Router(1), Router(2)})
  /\ ports \in Seq(Everything \X Everything) /\ left \in Seq(Everything \X Everything)
  /\ pc \in {"ask", "servers", "wait", "flavor", "ports", "fips", "nets"} =>
       Ready(ports)
  /\ pc = "routers" /\ Good => Ready(ports) \/ FewLeft
  /\ pc = "interfaces" /\ Good => Ready(left) \/ FewLeft
  /\ pc = "interfaces" => routers # <<>>

(* What complete cleanups leave. *)
GoneForGood ==
  /\ passes >= 1 => /\ Of({"vm"}) \subseteq dying /\ Flavor \notin exists
                    /\ Of(PortKinds \cup {"fip"}) = {}
                    /\ Cardinality(Of({"router"})) <= 1
  /\ passes >= 2 => Of({"router"}) = {}
  /\ passes >= 3 => Of(NetKinds) = {}

CleanInv ==
  /\ CleanTypes /\ AskedFor /\ RoutersAhead
  /\ FoundAhead /\ GoneBehind /\ GoneForGood

-----------------------------------------------------------------------------
(* Lemmas *)

(* What the kinds of the names are. *)
LEMMA Kinds ==
  /\ Image.kind = "image" /\ Flavor.kind = "flavor"
  /\ Router(1).kind = "router" /\ Router(2).kind = "router"
  /\ Router(1) # Router(2)
  /\ \A k \in NetKinds \cup PortKinds \cup {"fip", "vm"} :
       k \notin {"image", "flavor", "router"}
  /\ \A k \in NetKinds : k \notin PortKinds \cup {"fip", "vm"}
  /\ \A k \in PortKinds : k \notin {"fip", "vm"}
BY DEF Image, Flavor, Router, Res, NetKinds, PortKinds

(* Leftovers have the names that runs give. *)
LEMMA EverythingNamed == \A r \in Everything : Named(r)
BY CleanupAssumption DEF Everything

(* Among them are no routers but the two. *)
LEMMA RoutersAre ==
  ASSUME NEW S, S \subseteq Everything, NEW r \in S, r.kind = "router"
  PROVE  r \in {Router(1), Router(2)}
BY EverythingNamed, Kinds DEF Named

(* What uses a network. *)
LEMMA Holders ==
  ASSUME NEW conf, NEW r, NEW n, Holds(conf, r, n)
  PROVE  r.kind \in PortKinds \cup {"fip", "router"}
BY DEF Holds, PortKinds

(* The options are what the user meant. *)
LEMMA Meant ==
  ASSUME NEW answer \in Answers, answer.first # "q"
  PROVE  CleanOptions(answer) = answer.wanted /\ answer.wanted \subseteq Codes
<1>1. /\ answer.first \in {"y", "a"} => answer.wanted = Codes
      /\ answer.first \notin {"y", "a"} /\ answer.complete => answer.wanted = {answer.first}
      /\ answer.first \notin {"y", "a", "q"} /\ ~answer.complete => answer.wanted = answer.letters
      /\ answer.wanted \subseteq Codes
  BY CleanupAssumption
<1>2. CASE answer.first \in {"y", "a"}
  BY <1>1, <1>2, Zenon DEF CleanOptions
<1>3. CASE answer.first \notin {"y", "a"} /\ answer.complete
  <2>1. CleanOptions(answer) = {answer.first}
    BY <1>3, Zenon DEF CleanOptions
  <2> QED
    BY <1>1, <1>3, <2>1, Zenon
<1>4. CASE answer.first \notin {"y", "a"} /\ ~answer.complete
  <2>1. CleanOptions(answer) = answer.letters
    BY <1>4, Zenon DEF CleanOptions
  <2>2. answer.first \notin {"y", "a", "q"}
    BY <1>4
  <2> QED
    BY <1>1, <1>4, <2>1, <2>2
<1> QED
  BY <1>2, <1>3, <1>4, Zenon

(* The lists of SetToSeqs hold each element once. *)
LEMMA Listing ==
  ASSUME NEW S, IsFiniteSet(S), NEW s \in SetToSeqs(S)
  PROVE  /\ s \in Seq(S)
         /\ S = {s[i] : i \in DOMAIN s}
         /\ \A i, j \in DOMAIN s : i # j => s[i] # s[j]
<1> DEFINE D == 1..Cardinality(S)
<1>1. Cardinality(S) \in Nat
  BY FS_CardinalityType
<1>2. s \in [D -> S] /\ \A i, j \in D : i # j => s[i] # s[j]
  BY DEF SetToSeqs
<1>3. s \in Injection(D, S)
  BY <1>2 DEF Injection, IsInjective
<1>4. IsFiniteSet(D) /\ Cardinality(D) = Cardinality(S)
  BY <1>1, FS_Interval
<1>5. s \in Surjection(D, S)
  BY <1>3, <1>4, FS_Injection
<1>6. \A t \in S : \E i \in D : s[i] = t
  BY <1>5 DEF Surjection
<1>7. s \in Seq(S) /\ DOMAIN s = D
  BY <1>1, <1>2, SeqDef
<1> QED
  BY <1>2, <1>6, <1>7

-----------------------------------------------------------------------------
(* The types *)

(* How the steps change the cloud. *)
LEMMA CloudStep ==
  ASSUME CleanTypes, RoutersAhead, [Next]_vars
  PROVE  /\ g' = g
         /\ exists' \subseteq exists
         /\ attached' \subseteq attached
         /\ \A r \in exists \ exists' :
              \/ r \in dying /\ r.kind = "vm"
              \/ pc = "flavor" /\ "f" \in options /\ r = Flavor
              \/ pc = "ports" /\ r.kind \in PortKinds
              \/ pc = "fips" /\ r.kind = "fip"
              \/ pc = "nets" /\ r.kind \in NetKinds /\ ~InUse(r)
              \/ /\ pc = "interfaces" /\ r.kind = "router"
                 /\ \A a \in attached : a[1] # r
<1> DEFINE Lost(r) ==
      \/ r \in dying /\ r.kind = "vm"
      \/ pc = "flavor" /\ "f" \in options /\ r = Flavor
      \/ pc = "ports" /\ r.kind \in PortKinds
      \/ pc = "fips" /\ r.kind = "fip"
      \/ pc = "nets" /\ r.kind \in NetKinds /\ ~InUse(r)
      \/ /\ pc = "interfaces" /\ r.kind = "router"
         /\ \A a \in attached : a[1] # r
<1> DEFINE Goal == /\ g' = g /\ exists' \subseteq exists /\ attached' \subseteq attached
                   /\ \A r \in exists \ exists' : Lost(r)
<1> SUFFICES Goal
  OBVIOUS
<1>1. CASE /\ UNCHANGED <<g, exists>> /\ attached' \subseteq attached
  <2> HIDE DEF Lost
  <2> QED BY <1>1
<1>2. ASSUME NEW order, Discover(order) PROVE Goal
  BY <1>1, <1>2, Zenon DEF Discover, cloud
<1>3. ASSUME NEW answer, Ask(answer) PROVE Goal
  BY <1>1, <1>3, Zenon DEF Ask, cloud
<1>4. CASE DeleteServer
  BY <1>1, <1>4, Zenon DEF DeleteServer
<1>5. CASE ServersAsked \/ WaitForServers \/ WaitRaises \/ NextKind \/ CleanDone
           \/ NextRouter \/ ForeignInterface
  BY <1>1, <1>5, Zenon DEF ServersAsked, WaitForServers, WaitRaises, NextKind,
     CleanDone, NextRouter, ForeignInterface, cloud
<1>6. CASE DeleteFlavor
  BY <1>6 DEF DeleteFlavor
<1>7. ASSUME NEW r, DeleteInNetworks(r), Lost(r) PROVE Goal
  <2> HIDE DEF Lost
  <2> QED BY <1>7 DEF DeleteInNetworks
<1>8. CASE DeletePort
  BY <1>8, <1>7 DEF DeletePort, Found
<1>9. CASE DeleteFloatingIp
  BY <1>9, <1>7 DEF DeleteFloatingIp, Found
<1>10. CASE DeleteNetwork
  <2>1. PICK r \in Found(NetKinds) : DeleteInNetworks(r) /\ pc = "nets"
    BY <1>10 DEF DeleteNetwork
  <2>2. r.kind \in NetKinds
    BY <2>1 DEF Found
  <2>3. CASE InUse(r)
    BY <2>1, <2>2, <2>3, <1>1 DEF DeleteInNetworks
  <2>4. CASE ~InUse(r)
    BY <2>1, <2>2, <2>4, <1>7
  <2> QED
    BY <2>3, <2>4
<1>11. CASE RemoveInterface
  BY <1>1, <1>11 DEF RemoveInterface
<1>12. CASE DeleteRouter
  <2> DEFINE rtr == Head(routers)
  <2>1. rtr.kind = "router" /\ pc = "interfaces"
    <3>1. routers # <<>> /\ routers \in Seq({Router(1), Router(2)}) /\ pc = "interfaces"
      BY <1>12 DEF DeleteRouter, RoutersAhead
    <3>2. rtr \in {Router(1), Router(2)}
      BY <3>1
    <3> QED
      BY <3>1, <3>2, Kinds
  <2>2. UNCHANGED <<g, attached>>
    BY <1>12 DEF DeleteRouter
  <2>3. CASE exists' = exists
    BY <1>1, <2>2, <2>3
  <2>4. CASE exists' = exists \ {rtr} /\ \A a \in attached : a[1] # rtr
    <3>1. Lost(rtr)
      BY <2>1, <2>4, Zenon
    <3>2. exists \ exists' \subseteq {rtr} /\ exists' \subseteq exists
      BY <2>4, Zenon
    <3> HIDE DEF rtr, Lost
    <3> QED
      BY <2>2, <3>1, <3>2, Zenon
  <2> QED
    BY <1>12, <2>3, <2>4, Zenon DEF DeleteRouter
<1>13. CASE NovaDeletes
  BY <1>13 DEF NovaDeletes, CleanTypes, Of
<1>14. CASE UNCHANGED vars
  BY <1>1, <1>14 DEF vars, cloud
<1> QED
  BY <1>2, <1>3, <1>4, <1>5, <1>6, <1>8, <1>9, <1>10, <1>11, <1>12, <1>13, <1>14
     DEF Next, Clean
(* The cloud keeps what is on a network with that network. *)
LEMMA OnNetworkStep ==
  ASSUME CleanTypes, RoutersAhead, [Next]_vars
  PROVE  OnNetwork(g, exists')
<1> SUFFICES ASSUME NEW r \in exists', r.kind \in PortKinds \cup {"fip"}
             PROVE  \E n \in exists' : n.kind \in NetKinds /\ Holds(g, r, n)
  BY DEF OnNetwork
<1>1. r \in exists
  BY CloudStep
<1>2. PICK n \in exists : n.kind \in NetKinds /\ Holds(g, r, n)
  BY <1>1 DEF CleanTypes, OnNetwork
<1>3. CASE n \in exists'
  BY <1>2, <1>3
<1>4. CASE n \notin exists'
  <2>1. ~InUse(n)
    <3>1. n.kind \notin PortKinds \cup {"fip", "vm", "router"} /\ n # Flavor
      BY <1>2, Kinds
    <3> QED
      BY <1>2, <1>4, <3>1, CloudStep, Zenon
  <2>2. r \notin Of({"router"})
    BY Kinds DEF Of
  <2> QED
    BY <1>1, <1>2, <2>1, <2>2 DEF InUse
<1> QED
  BY <1>3, <1>4

(* Every step keeps the types. *)
LEMMA TypesStep ==
  ASSUME CleanTypes, RoutersAhead, [Next]_vars
  PROVE  CleanTypes'
<1> DEFINE Frame == found' \subseteq found /\ dying' = dying /\ pc' \in Phases
                    /\ options' \subseteq Codes /\ passes' \in {-1, 0, 1, 2, 3}
           Steps == /\ pc' \in Phases
                    /\ options' \subseteq Codes /\ passes' \in {-1, 0, 1, 2, 3}
                    /\ found' \subseteq found \/ found' \subseteq exists
                    /\ dying' \subseteq exists' /\ \A vm \in dying' : vm.kind = "vm"
<1>1. Steps
  <2> USE DEF Phases, Later
  <2>0. pc \in Phases /\ options \subseteq Codes /\ passes \in {-1, 0, 1, 2, 3}
        /\ dying \subseteq exists /\ \A vm \in dying : vm.kind = "vm"
    BY DEF CleanTypes, Of
  <2>1. ASSUME NEW order, Discover(order) PROVE Steps
    BY <2>0, <2>1 DEF Discover, cloud, history, Discovered, Of
  <2>2. ASSUME NEW answer \in Answers, Ask(answer) PROVE Steps
    <3>1. CleanOptions(answer) \subseteq Codes \/ answer.first = "q"
      BY Meant
    <3> QED
      BY <2>0, <2>2, <3>1 DEF Ask, cloud
  <2>3. CASE DeleteServer
    BY <2>0, <2>3 DEF DeleteServer, Found, NoFault, Fault
  <2>4. CASE ServersAsked \/ WaitForServers \/ NextKind \/ ForeignInterface
    BY <2>0, <2>4 DEF ServersAsked, WaitForServers, NextKind, ForeignInterface,
       cloud, history
  <2>5. CASE WaitRaises \/ NextRouter
    BY <2>0, <2>5 DEF WaitRaises, NextRouter, cloud, Fault, NoFault
  <2>6. CASE DeleteFlavor
    BY <2>0, <2>6, Kinds DEF DeleteFlavor, Fault, NoFault
  <2>7. ASSUME NEW r, r.kind # "vm", DeleteInNetworks(r) PROVE Steps
    BY <2>0, <2>7 DEF DeleteInNetworks, Fault, NoFault
  <2>8. CASE DeletePort \/ DeleteFloatingIp \/ DeleteNetwork
    BY <2>8, <2>7, Kinds DEF DeletePort, DeleteFloatingIp, DeleteNetwork, Found
  <2>9. CASE RemoveInterface
    BY <2>0, <2>9 DEF RemoveInterface, Fault, NoFault
  <2>10. CASE DeleteRouter
    <3>1. Head(routers).kind = "router"
      <4>1. Head(routers) \in {Router(1), Router(2)}
        BY <2>10 DEF DeleteRouter, RoutersAhead
      <4> QED
        BY <4>1, Kinds
    <3> QED
      BY <2>0, <2>10, <3>1 DEF DeleteRouter, Fault, NoFault
  <2>11. CASE CleanDone
    BY <2>0, <2>11 DEF CleanDone, cloud, Codes
  <2>12. CASE NovaDeletes
    BY <2>0, <2>12 DEF NovaDeletes, history
  <2>13. CASE UNCHANGED vars
    BY <2>0, <2>13 DEF vars, cloud, history
  <2> QED
    BY <2>1, <2>2, <2>3, <2>4, <2>5, <2>6, <2>8, <2>9, <2>10, <2>11, <2>12, <2>13
       DEF Next, Clean
<1>2. exists' \subseteq Everything /\ found' \subseteq Everything
      /\ IsFiniteSet(exists') /\ IsFiniteSet(attached')
      /\ attached' \subseteq Everything \X Everything
  <2>1. exists' \subseteq exists /\ attached' \subseteq attached
    BY CloudStep
  <2> QED
    BY <1>1, <2>1, FS_Subset DEF CleanTypes
<1>3. \A a \in attached' : a[1] \in (Of({"router"}))'
  <2> SUFFICES ASSUME NEW a \in attached' PROVE a[1] \in exists' /\ a[1].kind = "router"
    BY DEF Of
  <2>1. a \in attached /\ a[1] \in exists /\ a[1].kind = "router"
    BY CloudStep DEF CleanTypes, Of
  <2>2. CASE a[1] \notin exists'
    <3>1. a[1].kind \notin PortKinds \cup {"fip", "vm"} \cup NetKinds /\ a[1] # Flavor
      BY <2>1, Kinds
    <3> QED
      BY <2>1, <2>2, <3>1, CloudStep, Zenon
  <2> QED
    BY <2>1, <2>2
<1>4. (OnNetwork(g, exists))'
  BY OnNetworkStep, CloudStep DEF OnNetwork
<1>5. dying' \subseteq (Of({"vm"}))'
  BY <1>1 DEF Of
<1> QED
  BY <1>1, <1>2, <1>3, <1>4, <1>5 DEF CleanTypes

(* The cleaner of each kind. *)
LEMMA CodesOf ==
  ASSUME NEW r
  PROVE  /\ r.kind = "vm" => CodeOf(r) = "i"
         /\ r.kind = "flavor" => CodeOf(r) = "f"
         /\ r.kind \in NetKinds \cup PortKinds \cup {"fip"} => CodeOf(r) = "n"
         /\ r.kind = "router" => CodeOf(r) = "r"
BY Kinds, Zenon DEF CodeOf
-----------------------------------------------------------------------------
(* What was asked for *)

(* The prompt decides which phases a cleanup gets to, and keeps that. *)
LEMMA AskedStep ==
  ASSUME CleanTypes, AskedFor, [Next]_vars
  PROVE  AskedFor'
<1> USE DEF AskedFor, Cleaning, Later
<1>1. ASSUME NEW order, Discover(order) PROVE AskedFor'
  BY <1>1 DEF Discover
<1>2. ASSUME NEW answer \in Answers, Ask(answer) PROVE AskedFor'
  <2>1. CASE answer.first = "q"
    BY <1>2, <2>1 DEF Ask
  <2>2. CASE answer.first # "q"
    BY <1>2, <2>2, Meant DEF Ask
  <2> QED
    BY <2>1, <2>2
<1>3. CASE DeleteServer
  BY <1>3 DEF DeleteServer
<1>4. CASE ServersAsked
  BY <1>4 DEF ServersAsked, history
<1>5. CASE WaitForServers
  BY <1>5 DEF WaitForServers, history
<1>6. CASE WaitRaises
  BY <1>6 DEF WaitRaises
<1>7. CASE DeleteFlavor
  BY <1>7 DEF DeleteFlavor
<1>8. CASE DeletePort \/ DeleteFloatingIp \/ DeleteNetwork
  BY <1>8 DEF DeletePort, DeleteFloatingIp, DeleteNetwork, DeleteInNetworks
<1>9. CASE NextKind
  BY <1>9 DEF NextKind, history
<1>10. CASE NextRouter
  BY <1>10 DEF NextRouter
<1>11. CASE RemoveInterface
  BY <1>11 DEF RemoveInterface
<1>12. CASE ForeignInterface
  BY <1>12 DEF ForeignInterface, history
<1>13. CASE DeleteRouter
  BY <1>13 DEF DeleteRouter
<1>14. CASE CleanDone
  BY <1>14 DEF CleanDone
<1>15. CASE NovaDeletes
  BY <1>15 DEF NovaDeletes, history
<1>16. CASE UNCHANGED vars
  BY <1>16 DEF vars, history
<1> QED
  BY <1>1, <1>2, <1>3, <1>4, <1>5, <1>6, <1>7, <1>8, <1>9, <1>10, <1>11, <1>12,
     <1>13, <1>14, <1>15, <1>16 DEF Next, Clean

(* What a step asks Nova to delete, and which interfaces it removes. *)
LEMMA DyingStep ==
  ASSUME CleanTypes, [Next]_vars
  PROVE  /\ \A r \in dying' \ dying : pc = "servers" /\ "i" \in options /\ r.kind = "vm"
         /\ attached # attached' => pc = "interfaces"
<1> DEFINE Goal == /\ \A r \in dying' \ dying :
                        pc = "servers" /\ "i" \in options /\ r.kind = "vm"
                   /\ attached # attached' => pc = "interfaces"
<1>1. CASE UNCHANGED <<dying, attached>>
  BY <1>1, Zenon
<1>2. ASSUME NEW order, Discover(order) PROVE Goal
  BY <1>1, <1>2, Zenon DEF Discover, cloud
<1>3. ASSUME NEW answer, Ask(answer) PROVE Goal
  BY <1>1, <1>3, Zenon DEF Ask, cloud
<1>4. CASE DeleteServer
  BY <1>4 DEF DeleteServer, Found
<1>5. CASE ServersAsked \/ WaitForServers \/ WaitRaises \/ NextKind \/ CleanDone
           \/ NextRouter \/ ForeignInterface \/ DeleteFlavor \/ DeleteRouter
  BY <1>1, <1>5, Zenon DEF ServersAsked, WaitForServers, WaitRaises, NextKind,
     CleanDone, NextRouter, ForeignInterface, DeleteFlavor, DeleteRouter, cloud
<1>6. CASE DeletePort \/ DeleteFloatingIp \/ DeleteNetwork
  BY <1>1, <1>6, Zenon DEF DeletePort, DeleteFloatingIp, DeleteNetwork, DeleteInNetworks
<1>7. CASE RemoveInterface
  BY <1>7 DEF RemoveInterface
<1>8. CASE NovaDeletes
  BY <1>8 DEF NovaDeletes
<1>9. CASE UNCHANGED vars
  BY <1>1, <1>9 DEF vars, cloud
<1> QED
  BY <1>2, <1>3, <1>4, <1>5, <1>6, <1>7, <1>8, <1>9 DEF Next, Clean

(* What goes, or is asked to go, is of a kind that was asked for. *)
LEMMA AskedLosses ==
  ASSUME CleanTypes, AskedFor, RoutersAhead, [Next]_vars
  PROVE  /\ \A r \in exists \ exists' : r \in dying \/ CodeOf(r) \in wanted
         /\ \A r \in dying' \ dying : CodeOf(r) \in wanted
         /\ attached # attached' => "r" \in wanted
<1>1. ASSUME NEW r \in exists \ exists' PROVE r \in dying \/ CodeOf(r) \in wanted
  <2>1. CASE r \in dying
    BY <2>1
  <2>2. CASE pc = "flavor" /\ "f" \in options /\ r = Flavor
    BY <2>2, CodesOf, Kinds DEF AskedFor, Cleaning, Later
  <2>3. CASE pc \in {"ports", "fips", "nets"} /\ r.kind \in NetKinds \cup PortKinds \cup {"fip"}
    <3>1. "n" \in wanted
      BY <2>3 DEF AskedFor, Cleaning, Later
    <3> QED
      BY <3>1, <2>3, CodesOf, Zenon
  <2>4. CASE pc = "interfaces" /\ r.kind = "router"
    <3>1. "r" \in wanted
      BY <2>4 DEF AskedFor, Cleaning, Later
    <3> QED
      BY <3>1, <2>4, CodesOf, Zenon
  <2>5. \/ r \in dying
        \/ pc = "flavor" /\ "f" \in options /\ r = Flavor
        \/ pc = "ports" /\ r.kind \in PortKinds
        \/ pc = "fips" /\ r.kind = "fip"
        \/ pc = "nets" /\ r.kind \in NetKinds
        \/ pc = "interfaces" /\ r.kind = "router"
    BY CloudStep, Zenon
  <2> QED
    BY <2>1, <2>2, <2>3, <2>4, <2>5
<1>2. ASSUME NEW r \in dying' \ dying PROVE CodeOf(r) \in wanted
  <2>1. pc = "servers" /\ "i" \in options /\ r.kind = "vm"
    BY <1>2, DyingStep
  <2> QED
    BY <2>1, CodesOf DEF AskedFor, Cleaning
<1>3. ASSUME attached # attached' PROVE "r" \in wanted
  <2>1. pc = "interfaces"
    BY <1>3, DyingStep
  <2> QED
    BY <2>1 DEF AskedFor, Cleaning, Later
<1> QED
  BY <1>1, <1>2, <1>3
-----------------------------------------------------------------------------
(* The routers *)

(* What discovery finds can be worked off. *)
LEMMA Listed ==
  ASSUME NEW R, IsFiniteSet(R), NEW A, IsFiniteSet(A), \A a \in A : a[1] \in R,
         NEW rs \in SetToSeqs(R), NEW s \in SetToSeqs(A),
         \A i, j \in DOMAIN s : \A k, l \in DOMAIN rs :
           i < j /\ s[i][1] = rs[k] /\ s[j][1] = rs[l] => k <= l
  PROVE  Lists(rs, R) /\ OwnIn(s, rs, A)
<1>1. rs \in Seq(R) /\ R = {rs[i] : i \in DOMAIN rs}
      /\ \A i, j \in DOMAIN rs : i # j => rs[i] # rs[j]
  BY Listing
<1>2. s \in Seq(A) /\ A = {s[i] : i \in DOMAIN s}
      /\ \A i, j \in DOMAIN s : i # j => s[i] # s[j]
  BY Listing
<1>3. ASSUME rs # <<>>, NEW i \in DOMAIN s, s[i][1] = Head(rs),
             NEW j \in DOMAIN s, j < i
      PROVE  s[j][1] = Head(rs)
  <2>1. 1 \in DOMAIN rs /\ Head(rs) = rs[1] /\ DOMAIN rs = 1..Len(rs) /\ Len(rs) \in Nat
    BY <1>1, <1>3
  <2>2. s[j][1] \in R
    BY <1>2
  <2>3. PICK k \in DOMAIN rs : s[j][1] = rs[k]
    BY <1>1, <2>2
  <2>4. k <= 1
    BY <1>3, <2>1, <2>3
  <2>5. k = 1
    BY <2>1, <2>4
  <2> QED
    BY <2>1, <2>3, <2>5
<1>4. \A i \in DOMAIN s : s[i] \in A
  BY <1>2
<1>5. \A i, j \in DOMAIN s : j < i => s[j] # s[i]
  BY <1>2
<1> QED
  BY <1>1, <1>2, <1>3, <1>4, <1>5, Zenon DEF Lists, OwnIn

(* A removed interface leaves the rest. *)
LEMMA Removed ==
  ASSUME NEW X, NEW s \in Seq(X), s # <<>>, NEW rs, rs # <<>>, NEW A,
         OwnIn(s, rs, A), Head(s)[1] = Head(rs)
  PROVE  OwnIn(Tail(s), rs, A \ {Head(s)})
<1> DEFINE t == Tail(s)
<1>1. /\ t \in Seq(X) /\ Len(t) = Len(s) - 1 /\ Len(s) \in Nat \ {0}
      /\ DOMAIN s = 1..Len(s) /\ DOMAIN t = 1..Len(t) /\ Head(s) = s[1]
      /\ \A i \in DOMAIN t : t[i] = s[i + 1]
  BY HeadTailProperties, LenProperties, EmptySeq
<1>2. \A i \in DOMAIN t : i + 1 \in DOMAIN s /\ 1 < i + 1
  BY <1>1
<1>3. ASSUME NEW a \in A \ {Head(s)}, a[1] = Head(rs) PROVE \E i \in DOMAIN t : t[i] = a
  <2>1. PICK k \in DOMAIN s : s[k] = a
    BY <1>3, Zenon DEF OwnIn
  <2>2. k # 1
    BY <1>1, <1>3, <2>1
  <2>3. k - 1 \in DOMAIN t /\ t[k - 1] = s[k]
    BY <1>1, <2>1, <2>2
  <2> QED
    BY <2>1, <2>3
<1>4. ASSUME NEW i \in DOMAIN t, t[i][1] = Head(rs)
      PROVE  /\ t[i] \in A \ {Head(s)}
             /\ \A j \in DOMAIN t : j < i => t[j][1] = Head(rs) /\ t[j] # t[i]
  <2>1. s[i + 1][1] = Head(rs) /\ i + 1 \in DOMAIN s /\ 1 \in DOMAIN s /\ 1 < i + 1
    BY <1>1, <1>2, <1>4
  <2>2. /\ s[i + 1] \in A
        /\ \A j \in DOMAIN s : j < i + 1 => s[j][1] = Head(rs) /\ s[j] # s[i + 1]
    BY <2>1, Zenon DEF OwnIn
  <2>3. s[1] # s[i + 1]
    BY <2>1, <2>2
  <2>4. ASSUME NEW j \in DOMAIN t, j < i PROVE t[j][1] = Head(rs) /\ t[j] # t[i]
    <3>1. j + 1 \in DOMAIN s /\ j + 1 < i + 1
      BY <1>1, <2>4
    <3> QED
      BY <3>1, <2>2, <1>1
  <2> QED
    BY <1>1, <2>2, <2>3, <2>4
<1> HIDE DEF t
<1> QED
  BY <1>3, <1>4, Zenon DEF OwnIn, t

(* A port of another router is only met when nothing is left to remove. *)
LEMMA Foreign ==
  ASSUME NEW X, NEW s \in Seq(X), s # <<>>, NEW rs, rs # <<>>, NEW A,
         OwnIn(s, rs, A), ~(Head(s)[1] = Head(rs) /\ Head(s) \in A)
  PROVE  OwnIn(<<>>, rs, A)
<1>1. DOMAIN s = 1..Len(s) /\ Len(s) \in Nat \ {0} /\ Head(s) = s[1] /\ 1 \in DOMAIN s
  BY LenProperties, EmptySeq
<1>2. Head(s)[1] # Head(rs)
  BY <1>1 DEF OwnIn
<1>3. \A i \in DOMAIN s : s[i][1] # Head(rs)
  <2> SUFFICES ASSUME NEW i \in DOMAIN s, s[i][1] = Head(rs) PROVE FALSE
    OBVIOUS
  <2>1. i # 1
    BY <1>1, <1>2
  <2>2. 1 < i
    BY <1>1, <2>1
  <2>3. \A j \in DOMAIN s : j < i => s[j][1] = Head(rs)
    BY Zenon DEF OwnIn
  <2> QED
    BY <1>1, <1>2, <2>2, <2>3
<1>4. ASSUME NEW a \in A, a[1] = Head(rs) PROVE FALSE
  <2>1. PICK i \in DOMAIN s : s[i] = a
    BY <1>4, Zenon DEF OwnIn
  <2> QED
    BY <1>3, <1>4, <2>1
<1> QED
  BY <1>4 DEF OwnIn

(* When no interface of the first router is left to remove, none is        *)
(* attached.                                                               *)
LEMMA NoneLeft ==
  ASSUME NEW rs, rs # <<>>, NEW A, OwnIn(<<>>, rs, A)
  PROVE  \A a \in A : a[1] # Head(rs)
BY DEF OwnIn

(* Cardinality of a part of a singleton. *)
LEMMA AtMostOne ==
  ASSUME NEW S, NEW x, S \subseteq {x}
  PROVE  Cardinality(S) <= 1
<1>1. CASE S = {}
  BY <1>1, FS_EmptySet
<1>2. CASE S = {x}
  BY <1>2, FS_Singleton
<1> QED
  BY <1>1, <1>2

(* Deleting the first of at most two routers. *)
LEMMA Handled ==
  ASSUME NEW x, NEW y, NEW rs \in Seq({x, y}), rs # <<>>, NEW R, Lists(rs, R)
  PROVE  /\ Len(Tail(rs)) <= 1
         /\ Cardinality(R \ {Head(rs)}) <= 1
         /\ Cardinality(R) <= 1 => Tail(rs) = <<>> /\ R \ {Head(rs)} = {}
<1>1. DOMAIN rs = 1..Len(rs) /\ Len(rs) \in Nat \ {0} /\ Head(rs) = rs[1]
      /\ Tail(rs) \in Seq({x, y}) /\ Len(Tail(rs)) = Len(rs) - 1
  BY HeadTailProperties, LenProperties, EmptySeq
<1>2. \A i \in DOMAIN rs : rs[i] \in {x, y}
  BY <1>1
<1>3. Len(rs) <= 2
  <2> SUFFICES ASSUME Len(rs) >= 3 PROVE FALSE
    BY <1>1
  <2>1. {1, 2, 3} \subseteq DOMAIN rs
    BY <1>1
  <2>2. rs[1] # rs[2] /\ rs[1] # rs[3] /\ rs[2] # rs[3]
    BY <2>1 DEF Lists
  <2> QED
    BY <1>2, <2>1, <2>2
<1>4. R \subseteq {x, y} /\ Head(rs) \in {x, y} /\ Head(rs) \in R
  BY <1>1, <1>2 DEF Lists
<1>5. Cardinality(R \ {Head(rs)}) <= 1
  <2>1. R \ {Head(rs)} \subseteq {x} \/ R \ {Head(rs)} \subseteq {y}
    BY <1>4
  <2> QED
    BY <2>1, AtMostOne
<1>6. ASSUME Cardinality(R) <= 1 PROVE Tail(rs) = <<>> /\ R \ {Head(rs)} = {}
  <2>1. IsFiniteSet({x}) /\ IsFiniteSet({x} \cup {y})
    BY FS_Singleton, FS_AddElement, Zenon
  <2>2. {x} \cup {y} = {x, y}
    OBVIOUS
  <2>3. IsFiniteSet(R)
    BY <1>4, <2>1, <2>2, FS_Subset, Zenon
  <2>4. IsFiniteSet(R \ {Head(rs)}) /\ Cardinality(R \ {Head(rs)}) = Cardinality(R) - 1
    BY <1>4, <2>3, FS_RemoveElement, Zenon
  <2>5. Cardinality(R) \in Nat /\ Cardinality(R \ {Head(rs)}) \in Nat
    BY <2>3, <2>4, FS_CardinalityType, Zenon
  <2>6. Cardinality(R \ {Head(rs)}) = 0
    BY <1>6, <2>4, <2>5
  <2>7. R \ {Head(rs)} = {}
    BY <2>4, <2>6, FS_EmptySet, Zenon
  <2>8. CASE Len(rs) >= 2
    <3>1. 2 \in DOMAIN rs /\ 1 \in DOMAIN rs
      BY <1>1, <2>8
    <3>2. rs[2] \in R /\ rs[2] # rs[1]
      BY <3>1 DEF Lists
    <3> QED
      BY <1>1, <2>7, <3>2
  <2>9. CASE Len(rs) = 1
    <3>1. Len(Tail(rs)) = 0
      BY <1>1, <2>9
    <3>2. Tail(rs) = <<>>
      BY <1>1, <3>1, EmptySeq
    <3> QED
      BY <2>7, <3>2, Zenon
  <2> QED
    BY <1>1, <2>8, <2>9
<1> QED
  BY <1>1, <1>3, <1>5, <1>6
(* Only a router's own deletion changes the routers. *)
LEMMA SameRouters ==
  ASSUME CleanTypes, RoutersAhead, [Next]_vars, pc # "interfaces"
  PROVE  (Of({"router"}))' = Of({"router"})
<1>1. exists' \subseteq exists
  BY CloudStep
<1>2. ASSUME NEW r \in exists, r.kind = "router" PROVE r \in exists'
  <2> SUFFICES ASSUME r \notin exists' PROVE FALSE
    OBVIOUS
  <2>1. r.kind \notin {"vm", "fip"} \cup PortKinds \cup NetKinds /\ r # Flavor
    BY <1>2, Kinds
  <2> QED
    BY <1>2, <2>1, CloudStep, Zenon
<1> QED
  BY <1>1, <1>2 DEF Of

(* Routers only become fewer. *)
LEMMA FewerRouters ==
  ASSUME CleanTypes, RoutersAhead, [Next]_vars
  PROVE  /\ (Of({"router"}))' \subseteq Of({"router"})
         /\ IsFiniteSet(Of({"router"}))
         /\ Cardinality(Of({"router"}))' <= 1 \/ Cardinality(Of({"router"})) > 1
<1> DEFINE R == Of({"router"})
<1>1. R' \subseteq R
  BY CloudStep DEF Of
<1>2. IsFiniteSet(R)
  BY FS_Subset DEF CleanTypes, Of
<1>3. IsFiniteSet(R') /\ Cardinality(R') <= Cardinality(R)
  BY <1>1, <1>2, FS_Subset
<1>4. Cardinality(R) \in Nat /\ Cardinality(R') \in Nat
  BY <1>2, <1>3, FS_CardinalityType
<1> HIDE DEF R
<1>5. Cardinality(R') <= 1 \/ Cardinality(R) > 1
  BY <1>3, <1>4
<1> QED
  BY <1>1, <1>2, <1>5 DEF R

(* The lists of routers and interfaces stay good through every step. *)
LEMMA RoutersStep ==
  ASSUME CleanTypes, RoutersAhead, GoneForGood, [Next]_vars
  PROVE  RoutersAhead'
<1> DEFINE R == Of({"router"})
           Pair == Everything \X Everything
           Typed == /\ routers \in Seq({Router(1), Router(2)})
                    /\ ports \in Seq(Pair) /\ left \in Seq(Pair)
           Before == {"ask", "servers", "wait", "flavor", "ports", "fips", "nets"}
           Quiet == UNCHANGED <<routers, ports, left, attached>>
<1>0. Typed /\ passes \in {-1, 0, 1, 2, 3} /\ pc \in Phases
  BY DEF RoutersAhead, CleanTypes
<1>a. R' \subseteq R /\ IsFiniteSet(R) /\ (Cardinality(R') <= 1 \/ Cardinality(R) > 1)
  BY FewerRouters
<1>b. IsFiniteSet(R') /\ Cardinality(R) \in Nat /\ Cardinality(R') \in Nat
  BY <1>a, FS_Subset, FS_CardinalityType
<1>c. pc # "interfaces" => R' = R
  BY SameRouters
<1>1. ASSUME NEW order \in SetToSeqs(R), Discover(order) PROVE RoutersAhead'
  <2>1. R' = R /\ attached' = attached /\ routers' = order /\ left' = left
        /\ pc' \in {"discover", "ask"}
    BY <1>1, <1>c DEF Discover, cloud
  <2>2. /\ ports' \in SetToSeqs(attached)
        /\ \A i, j \in DOMAIN ports' : \A k, l \in DOMAIN order :
             i < j /\ ports'[i][1] = order[k] /\ ports'[j][1] = order[l] => k <= l
    BY <1>1 DEF Discover, PortsOf
  <2>3. IsFiniteSet(attached) /\ attached \subseteq Pair /\ \A a \in attached : a[1] \in R
    BY DEF CleanTypes
  <2>4. Lists(order, R) /\ OwnIn(ports', order, attached)
    BY <1>1, <1>a, <2>2, <2>3, Listed
  <2>5. routers' \in Seq({Router(1), Router(2)})
    <3>1. order \in Seq(R)
      BY <1>1, <1>a, Listing
    <3>2. R \subseteq {Router(1), Router(2)}
      BY RoutersAre DEF CleanTypes, Of
    <3> QED
      BY <2>1, <3>1, <3>2, SeqMonotonic
  <2>6. ports' \in Seq(Pair)
    <3>1. ports' \in Seq(attached)
      BY <2>2, <2>3, Listing
    <3> QED
      BY <2>3, <3>1, SeqMonotonic
  <2>7. (Ready(ports))'
    BY <2>1, <2>4 DEF Ready
  <2> HIDE DEF R, Pair
  <2> QED
    BY <1>0, <2>1, <2>5, <2>6, <2>7 DEF RoutersAhead, Pair
<1>2. ASSUME Quiet, R' = R PROVE /\ (Ready(ports))' <=> Ready(ports)
                                 /\ (Ready(left))' <=> Ready(left)
                                 /\ Typed'
                                 /\ passes' = passes => (FewLeft' <=> FewLeft)
  BY <1>0, <1>2 DEF Ready, FewLeft
<1>3. ASSUME Quiet, pc \in Before, pc' \in Before \cup {"discover", "routers"}
      PROVE  RoutersAhead'
  <2>1. Ready(ports) /\ pc # "interfaces" /\ pc' # "interfaces"
    BY <1>3 DEF RoutersAhead
  <2>2. (Ready(ports))' /\ Typed'
    BY <1>2, <1>3, <1>c, <2>1
  <2> HIDE DEF Typed, Quiet, R, Before
  <2>3. Typed' => RoutersAhead' \/ ~((Ready(ports))' /\ pc' # "interfaces")
    BY Zenon DEF RoutersAhead, Typed, Pair
  <2> QED
    BY <2>1, <2>2, <2>3
<1>4. ASSUME NEW answer, Ask(answer) PROVE RoutersAhead'
  BY <1>3, <1>4 DEF Ask, cloud
<1>5. CASE DeleteServer \/ ServersAsked \/ WaitForServers \/ WaitRaises \/ DeleteFlavor
  <2>1. Quiet /\ pc \in Before /\ pc' \in Before \cup {"discover", "routers"}
    BY <1>5 DEF DeleteServer, ServersAsked, WaitForServers, WaitRaises, DeleteFlavor, cloud
  <2> QED
    BY <1>3, <2>1
<1>6. CASE DeletePort \/ DeleteFloatingIp \/ DeleteNetwork \/ NextKind
  <2>1. Quiet /\ pc \in Before /\ pc' \in Before \cup {"discover", "routers"}
    BY <1>6 DEF DeletePort, DeleteFloatingIp, DeleteNetwork, NextKind,
       DeleteInNetworks, cloud
  <2> QED
    BY <1>3, <2>1
<1>7. CASE NextRouter
  <2>1. /\ UNCHANGED <<routers, ports, attached, options>> /\ left' = ports
        /\ pc = "routers" /\ pc' = "interfaces" /\ routers # <<>>
        /\ passes' = passes \/ passes' = -1
    BY <1>7 DEF NextRouter, cloud, NoFault, Fault
  <2>2. R' = R
    BY <1>c, <2>1
  <2>3. ASSUME Good' PROVE (Ready(left))' \/ FewLeft'
    <3>1. Good /\ passes' = passes
      BY <2>1, <2>3 DEF Good
    <3>2. Ready(ports) \/ FewLeft
      BY <2>1, <3>1 DEF RoutersAhead
    <3> HIDE DEF R
    <3> QED
      BY <2>1, <2>2, <3>1, <3>2 DEF Ready, FewLeft, R
  <2>4. Typed'
    BY <1>0, <2>1
  <2> QED
    BY <2>1, <2>3, <2>4 DEF RoutersAhead
<1>8. CASE RemoveInterface
  <2>1. /\ pc = "interfaces" /\ pc' = "interfaces" /\ routers # <<>>
        /\ left # <<>> /\ Head(left)[1] = Head(routers)
        /\ UNCHANGED <<routers, ports, exists, options>>
        /\ \/ left' = Tail(left) /\ attached' = attached \ {Head(left)} /\ passes' = passes
           \/ left' = <<>> /\ passes' = -1
    BY <1>8 DEF RemoveInterface, RoutersAhead, NoFault, Fault
  <2>2. R' = R
    BY <2>1 DEF Of
  <2>3. Typed'
    <3>1. Tail(left) \in Seq(Pair) /\ <<>> \in Seq(Pair)
      BY <1>0, <2>1, HeadTailProperties, EmptySeq
    <3> QED
      BY <1>0, <2>1, <3>1
  <2>4. ASSUME Good' PROVE (Ready(left))' \/ FewLeft'
    <3>1. Good /\ passes' = passes /\ left' = Tail(left) /\ attached' = attached \ {Head(left)}
      BY <2>1, <2>4 DEF Good
    <3>2. CASE Ready(left)
      <4>1. OwnIn(Tail(left), routers, attached \ {Head(left)})
        BY <1>0, <2>1, <3>2, Removed DEF Ready
      <4> QED
        BY <2>1, <2>2, <3>1, <3>2, <4>1, Zenon DEF Ready
    <3>3. CASE FewLeft
      <4> HIDE DEF R
      <4> QED
        BY <2>1, <2>2, <3>1, <3>3 DEF FewLeft, R
    <3> QED
      BY <2>1, <3>1, <3>2, <3>3 DEF RoutersAhead
  <2> QED
    BY <2>1, <2>3, <2>4 DEF RoutersAhead
<1>9. CASE ForeignInterface
  <2>1. /\ pc = "interfaces" /\ pc' = "interfaces" /\ routers # <<>>
        /\ left # <<>> /\ ~(Head(left)[1] = Head(routers) /\ Head(left) \in attached)
        /\ UNCHANGED <<routers, ports, exists, attached, options, passes>>
        /\ left' = <<>>
    BY <1>9 DEF ForeignInterface, RoutersAhead, cloud, history
  <2>2. R' = R
    BY <2>1 DEF Of
  <2>3. Typed'
    BY <1>0, <2>1, EmptySeq
  <2>4. ASSUME Good' PROVE (Ready(left))' \/ FewLeft'
    <3>1. Good
      BY <2>1, <2>4 DEF Good
    <3>2. CASE Ready(left)
      <4>1. OwnIn(<<>>, routers, attached)
        BY <1>0, <2>1, <3>2, Foreign DEF Ready
      <4>2. Lists(routers, R)
        BY <3>2 DEF Ready
      <4>3. left' = <<>> /\ routers' = routers /\ attached' = attached
        BY <2>1
      <4> QED
        BY <2>2, <4>1, <4>2, <4>3 DEF Ready
    <3>3. CASE FewLeft
      <4> HIDE DEF R
      <4> QED
        BY <2>1, <2>2, <3>3 DEF FewLeft, R
    <3> QED
      BY <2>1, <3>1, <3>2, <3>3 DEF RoutersAhead
  <2> QED
    BY <2>1, <2>3, <2>4 DEF RoutersAhead
<1>10. CASE DeleteRouter
  <2>1. /\ pc = "interfaces" /\ pc' = "routers" /\ routers # <<>> /\ left = <<>>
        /\ routers' = Tail(routers)
        /\ UNCHANGED <<ports, left, options, attached>>
        /\ passes' = passes \/ passes' = -1
    BY <1>10 DEF DeleteRouter, RoutersAhead, NoFault, Fault
  <2>2. Typed' /\ Len(Tail(routers)) = Len(routers) - 1 /\ Len(routers) \in Nat
    BY <1>0, <2>1, HeadTailProperties, LenProperties
  <2>3. ASSUME Good' PROVE FewLeft'
    <3>1. Good /\ passes' = passes
      BY <2>1, <2>3 DEF Good
    <3>2. CASE Ready(left)
      <4>1. \A a \in attached : a[1] # Head(routers)
        BY <2>1, <3>2, NoneLeft DEF Ready
      <4>2. exists' = exists \ {Head(routers)}
        BY <1>10, <3>1, <4>1 DEF DeleteRouter, Fault, Good
      <4>3. R' = R \ {Head(routers)}
        BY <4>2 DEF Of
      <4>4. Lists(routers, R)
        BY <3>2 DEF Ready
      <4> HIDE DEF R
      <4>5. /\ Len(Tail(routers)) <= 1
            /\ Cardinality(R \ {Head(routers)}) <= 1
            /\ Cardinality(R) <= 1 => Tail(routers) = <<>> /\ R \ {Head(routers)} = {}
        BY <1>0, <2>1, <4>4, Handled
      <4>6. passes >= 1 => Cardinality(R) <= 1
        BY DEF GoneForGood, R
      <4>7. CASE passes = 0
        <5>1. Cardinality(R') <= 1 /\ Len(routers') <= 1 /\ passes' = 0
          BY <2>1, <3>1, <4>3, <4>5, <4>7
        <5> QED
          BY <5>1 DEF FewLeft, R
      <4>8. CASE passes >= 1
        <5>1. R' = {} /\ routers' = <<>> /\ passes' # 0
          BY <2>1, <3>1, <4>3, <4>5, <4>6, <4>8
        <5> QED
          BY <5>1 DEF FewLeft, R
      <4> QED
        BY <1>0, <3>1, <4>7, <4>8 DEF Good
    <3>3. CASE FewLeft
      <4>1. passes = 0
        BY <2>1, <3>3 DEF FewLeft
      <4>2. Cardinality(R') <= 1 /\ Len(Tail(routers)) <= 1
        <5>1. Len(routers) <= 1 /\ Cardinality(R) <= 1
          BY <3>3, <4>1 DEF FewLeft
        <5> HIDE DEF R
        <5> QED
          BY <1>a, <1>b, <2>2, <5>1
      <4> QED
        BY <2>1, <3>1, <4>1, <4>2 DEF FewLeft
    <3> QED
      BY <2>1, <3>1, <3>2, <3>3 DEF RoutersAhead
  <2> QED
    BY <2>1, <2>2, <2>3 DEF RoutersAhead
<1>11. CASE CleanDone
  BY <1>0, <1>11, EmptySeq DEF CleanDone, RoutersAhead
<1>12. ASSUME Quiet, R' = R, UNCHANGED <<pc, options, passes>> PROVE RoutersAhead'
  BY <1>2, <1>12 DEF RoutersAhead, Good
<1>13. CASE NovaDeletes
  <2>1. PICK vm \in dying : exists' = exists \ {vm}
    BY <1>13 DEF NovaDeletes
  <2>2. vm.kind = "vm"
    BY DEF CleanTypes, Of
  <2>3. R' = R
    BY <2>1, <2>2 DEF Of
  <2> HIDE DEF R
  <2> QED
    BY <1>12, <1>13, <2>3 DEF NovaDeletes, history
<1>14. CASE UNCHANGED vars
  BY <1>12, <1>14 DEF vars, cloud, history, Of
<1> QED
  BY <1>1, <1>4, <1>5, <1>6, <1>7, <1>8, <1>9, <1>10, <1>11, <1>13, <1>14 DEF Next, Clean
-----------------------------------------------------------------------------
(* What was found and what is gone *)

(* A server to be deleted stays so while it exists; a failed call ends the *)
(* count of passes; and only the end of a cleanup adds to it.              *)
LEMMA PassStep ==
  ASSUME CleanTypes, [Next]_vars
  PROVE  /\ dying \cap exists' \subseteq dying'
         /\ pc' # "discover" => passes' = passes \/ passes' = -1
         /\ CleanDone \/ passes' = passes \/ passes' = -1
         /\ Good' /\ pc \in Cleaning => Good
<1> DEFINE Goal == /\ dying \cap exists' \subseteq dying'
                   /\ pc' # "discover" => passes' = passes \/ passes' = -1
                   /\ CleanDone \/ passes' = passes \/ passes' = -1
                   /\ Good' /\ pc \in Cleaning => Good
<1>1. ASSUME dying' = dying, passes' = passes \/ passes' = -1,
             options' = options \/ pc \notin Cleaning PROVE Goal
  <2> HIDE DEF CleanDone
  <2> QED
    BY <1>1 DEF Good
<1>2. ASSUME NEW order, Discover(order) PROVE Goal
  BY <1>1, <1>2, Zenon DEF Discover, cloud, history
<1>3. ASSUME NEW answer, Ask(answer) PROVE Goal
  <2>1. pc \notin Cleaning
    BY <1>3 DEF Ask, Cleaning, Later
  <2> QED
    BY <1>1, <1>3, <2>1, Zenon DEF Ask, cloud
<1>4. CASE DeleteServer
  BY <1>4 DEF DeleteServer, NoFault, Fault, Good
<1>5. CASE ServersAsked \/ WaitForServers \/ NextKind \/ ForeignInterface
  BY <1>1, <1>5, Zenon DEF ServersAsked, WaitForServers, NextKind, ForeignInterface,
     cloud, history
<1>6. CASE WaitRaises \/ NextRouter
  BY <1>1, <1>6, Zenon DEF WaitRaises, NextRouter, cloud, NoFault, Fault
<1>7. CASE DeleteFlavor
  BY <1>1, <1>7, Zenon DEF DeleteFlavor, NoFault, Fault
<1>8. CASE DeletePort \/ DeleteFloatingIp \/ DeleteNetwork
  BY <1>1, <1>8, Zenon DEF DeletePort, DeleteFloatingIp, DeleteNetwork,
     DeleteInNetworks, NoFault, Fault
<1>9. CASE RemoveInterface \/ DeleteRouter
  BY <1>1, <1>9, Zenon DEF RemoveInterface, DeleteRouter, NoFault, Fault
<1>10. CASE CleanDone
  BY <1>10 DEF CleanDone, cloud, Good, Codes
<1>11. CASE NovaDeletes
  BY <1>11 DEF NovaDeletes, history, Good
<1>12. CASE UNCHANGED vars
  BY <1>1, <1>12 DEF vars, cloud, history
<1> QED
  BY <1>2, <1>3, <1>4, <1>5, <1>6, <1>7, <1>8, <1>9, <1>10, <1>11, <1>12 DEF Next, Clean

(* What a complete cleanup removed stays away through every step. *)
LEMMA GoneForGoodStep ==
  ASSUME CleanTypes, RoutersAhead, GoneBehind, GoneForGood, [Next]_vars
  PROVE  GoneForGood'
<1> DEFINE R == Of({"router"})
<1>0. /\ exists' \subseteq exists /\ dying \cap exists' \subseteq dying'
      /\ R' \subseteq R /\ IsFiniteSet(R)
      /\ Cardinality(R') <= 1 \/ Cardinality(R) > 1
      /\ passes \in {-1, 0, 1, 2, 3}
  BY CloudStep, PassStep, FewerRouters DEF CleanTypes
<1>b. IsFiniteSet(R') /\ Cardinality(R) \in Nat /\ Cardinality(R') \in Nat
  BY <1>0, FS_Subset, FS_CardinalityType
<1>c. Cardinality(R) <= 1 => Cardinality(R') <= 1
  <2> HIDE DEF R
  <2> QED
    BY <1>0, <1>b
<1>1. ASSUME passes' = passes PROVE GoneForGood'
  <2>1. passes >= 1 => /\ (Of({"vm"}))' \subseteq dying' /\ Flavor \notin exists'
                       /\ (Of(PortKinds \cup {"fip"}))' = {}
    BY <1>0 DEF GoneForGood, Of
  <2>2. passes >= 1 => Cardinality(R') <= 1
    BY <1>c DEF GoneForGood
  <2>3. passes >= 2 => R' = {}
    BY <1>0 DEF GoneForGood
  <2>4. passes >= 3 => (Of(NetKinds))' = {}
    BY <1>0 DEF GoneForGood, Of
  <2> HIDE DEF R
  <2> QED
    BY <1>1, <2>1, <2>2, <2>3, <2>4 DEF GoneForGood, R
<1>2. ASSUME passes' = -1 PROVE GoneForGood'
  BY <1>2 DEF GoneForGood
<1>3. CASE CleanDone
  <2>1. CASE passes' = passes
    BY <1>1, <2>1
  <2>2. CASE passes' # passes /\ passes = -1
    BY <1>3, <2>2 DEF CleanDone, GoneForGood
  <2>3. CASE passes' # passes /\ passes # -1
    <3>1. /\ pc = "routers" /\ Good /\ passes' = passes + 1 /\ routers = <<>>
          /\ exists' = exists /\ dying' = dying
      BY <1>0, <1>3, <2>3 DEF CleanDone, Good, Codes, cloud
    <3>2. passes >= 1 => R = {}
      BY <3>1 DEF RoutersAhead, Ready, Lists, FewLeft
    <3>3. Cardinality(R) <= 1
      <4>1. R = {} => Cardinality(R) <= 1
        BY FS_EmptySet
      <4>2. R = {} \/ FewLeft
        BY <3>1 DEF RoutersAhead, Ready, Lists
      <4>3. FewLeft /\ passes = 0 => Cardinality(R) <= 1
        BY DEF FewLeft
      <4> HIDE DEF R
      <4> QED
        BY <1>0, <3>1, <3>2, <4>1, <4>2, <4>3 DEF Good
    <3>4. /\ Of({"vm"}) \subseteq dying /\ Flavor \notin exists
          /\ Of(PortKinds) = {} /\ Of({"fip"}) = {}
          /\ passes >= 2 => Of(NetKinds) = {}
      BY <3>1 DEF GoneBehind, Later
    <3>5. /\ (Of({"vm"}))' \subseteq dying' /\ Flavor \notin exists'
          /\ (Of(PortKinds \cup {"fip"}))' = {}
          /\ passes' >= 3 => (Of(NetKinds))' = {}
      BY <1>0, <3>1, <3>4 DEF Of
    <3>6. R' = R
      BY <3>1 DEF Of
    <3>7. Cardinality(R') <= 1 /\ (passes' >= 2 => R' = {})
      <4> HIDE DEF R
      <4> QED
        BY <1>0, <3>1, <3>2, <3>3, <3>6
    <3> HIDE DEF R
    <3> QED
      BY <3>5, <3>7 DEF GoneForGood, R
  <2> QED
    BY <2>1, <2>2, <2>3
<1> QED
  BY <1>1, <1>2, <1>3, PassStep
(* A network that is found is deleted in the third complete cleanup, and   *)
(* everything else that is found in each.                                  *)
LEMMA DeleteNetworkStep ==
  ASSUME CleanTypes, GoneBehind, GoneForGood, NEW r, DeleteInNetworks(r), Good',
         r.kind \in NetKinds => pc = "nets" /\ passes >= 2
  PROVE  exists' = exists \ {r} /\ found' = found \ {r} /\ Good /\ passes' = passes
         /\ UNCHANGED <<dying, options, pc>>
<1>1. /\ found' = found \ {r} /\ UNCHANGED <<dying, options, pc>>
      /\ passes' = passes
      /\ exists' = exists \ {r} \/ (r.kind \in NetKinds /\ InUse(r))
  <2>1. passes' # -1
    BY DEF Good
  <2> QED
    BY <2>1, Zenon DEF DeleteInNetworks, NoFault, Fault
<1>2. Good
  BY <1>1 DEF Good
<1>3. r.kind \in NetKinds => ~InUse(r)
  <2> SUFFICES ASSUME r.kind \in NetKinds, InUse(r) PROVE FALSE
    OBVIOUS
  <2>1. Of(PortKinds) = {} /\ Of({"fip"}) = {} /\ Of({"router"}) = {}
    BY <1>2 DEF GoneBehind, GoneForGood
  <2>2. PICK h \in exists : Holds(g, h, r) /\ h \notin Of({"router"})
    BY <2>1 DEF InUse
  <2>3. h.kind \in PortKinds \cup {"fip", "router"}
    BY <2>2, Holders
  <2> QED
    BY <2>1, <2>2, <2>3 DEF Of
<1> QED
  BY <1>1, <1>2, <1>3

(* Every step leaves what is still to be handled among what was found. *)
LEMMA FoundStep ==
  ASSUME CleanTypes, RoutersAhead, FoundAhead, GoneBehind, GoneForGood, [Next]_vars
  PROVE  FoundAhead'
<1> USE DEF FoundAhead
<1>0. exists' \subseteq exists /\ (\A k : (Of(k))' \subseteq Of(k))
  BY CloudStep DEF Of
<1>1. ASSUME NEW order, Discover(order) PROVE FoundAhead'
  <2>1. found' = Discovered /\ UNCHANGED <<exists, dying>> /\ pc' \in {"discover", "ask"}
    BY <1>1 DEF Discover, cloud
  <2>2. Of({"vm"}) \subseteq Discovered /\ Of(NetKinds) \subseteq Discovered
    BY DEF Discovered, Of
  <2>3. Of(PortKinds \cup {"fip"}) \subseteq Discovered
    BY DEF Discovered, Of, CleanTypes, OnNetwork
  <2> QED
    BY <2>1, <2>2, <2>3 DEF Of
<1>2. ASSUME NEW answer, Ask(answer) PROVE FoundAhead'
  BY <1>2 DEF Ask, cloud, Of
<1>3. CASE DeleteServer
  <2>1. PICK vm \in Found({"vm"}) :
          /\ found' = found \ {vm}
          /\ \/ dying' = dying \cup ({vm} \cap exists) /\ passes' = passes
             \/ passes' = -1
    BY <1>3 DEF DeleteServer, NoFault, Fault
  <2>2. pc = "servers" /\ UNCHANGED <<exists, pc, options>>
    BY <1>3 DEF DeleteServer
  <2>3. vm.kind \notin NetKinds \cup PortKinds \cup {"fip"}
    BY Kinds DEF Found
  <2>4. (Of(NetKinds \cup PortKinds \cup {"fip"}))' \subseteq found'
    BY <2>1, <2>2, <2>3 DEF Of
  <2>5. Good' => (Of({"vm"}))' \ dying' \subseteq found'
    BY <2>1, <2>2 DEF Good, Of
  <2> QED
    BY <2>2, <2>4, <2>5
<1>4. CASE ServersAsked \/ WaitForServers
  BY <1>4 DEF ServersAsked, WaitForServers, cloud, history, Of
<1>5. CASE WaitRaises \/ CleanDone
  BY <1>5 DEF WaitRaises, CleanDone
<1>6. CASE DeleteFlavor
  <2>1. pc = "flavor" /\ found' = found /\ pc' \in {"ports", "routers"}
    BY <1>6 DEF DeleteFlavor
  <2> QED
    BY <1>0, <2>1
<1>7. CASE DeletePort
  <2>1. PICK r \in Found(PortKinds) : DeleteInNetworks(r) /\ pc = "ports" /\ pc' = "ports"
    BY <1>7 DEF DeletePort, DeleteInNetworks
  <2>2. ASSUME Good'
        PROVE (Of(NetKinds \cup PortKinds \cup {"fip"}))' \subseteq found'
    <3>1. exists' = exists \ {r} /\ found' = found \ {r} /\ Good
      BY <2>1, <2>2, DeleteNetworkStep, Kinds DEF Found
    <3> QED
      BY <2>1, <3>1 DEF Of
  <2> QED
    BY <2>1, <2>2
<1>8. CASE DeleteFloatingIp
  <2>1. PICK r \in Found({"fip"}) : DeleteInNetworks(r) /\ pc = "fips" /\ pc' = "fips"
    BY <1>8 DEF DeleteFloatingIp, DeleteInNetworks
  <2>2. ASSUME Good' PROVE (Of(NetKinds \cup {"fip"}))' \subseteq found'
    <3>1. exists' = exists \ {r} /\ found' = found \ {r} /\ Good
      BY <2>1, <2>2, DeleteNetworkStep, Kinds DEF Found
    <3> QED
      BY <2>1, <3>1 DEF Of
  <2> QED
    BY <2>1, <2>2
<1>9. CASE DeleteNetwork
  <2>1. PICK r \in Found(NetKinds) : DeleteInNetworks(r) /\ pc = "nets" /\ pc' = "nets"
    BY <1>9 DEF DeleteNetwork, DeleteInNetworks
  <2>2. ASSUME Good', passes' >= 2 PROVE (Of(NetKinds))' \subseteq found'
    <3>1. passes' = passes
      BY <2>1, <2>2 DEF DeleteInNetworks, NoFault, Fault
    <3>2. exists' = exists \ {r} /\ found' = found \ {r} /\ Good
      BY <2>1, <2>2, <3>1, DeleteNetworkStep
    <3> QED
      BY <2>1, <2>2, <3>1, <3>2 DEF Of
  <2> QED
    BY <2>1, <2>2
<1>10. CASE NextKind
  BY <1>10 DEF NextKind, cloud, history, Of, Good
<1>11. CASE NextRouter \/ RemoveInterface \/ ForeignInterface \/ DeleteRouter
  BY <1>11 DEF NextRouter, RemoveInterface, ForeignInterface, DeleteRouter
<1>12. CASE NovaDeletes
  <2>1. /\ UNCHANGED <<pc, options, found, passes>>
        /\ \E vm \in dying : exists' = exists \ {vm} /\ dying' = dying \ {vm}
    BY <1>12 DEF NovaDeletes, history
  <2>2. (Of({"vm"}))' \ dying' \subseteq Of({"vm"}) \ dying
    BY <2>1 DEF Of
  <2>3. Good' <=> Good
    BY <2>1 DEF Good
  <2> QED
    BY <1>0, <2>1, <2>2, <2>3
<1>13. CASE UNCHANGED vars
  BY <1>13 DEF vars, cloud, history, Of, Good
<1> QED
  BY <1>1, <1>2, <1>3, <1>4, <1>5, <1>6, <1>7, <1>8, <1>9, <1>10, <1>11, <1>12, <1>13
     DEF Next, Clean

(* Every step leaves gone what the phases before it had to delete. *)
LEMMA GoneStep ==
  ASSUME CleanTypes, RoutersAhead, FoundAhead, GoneBehind, [Next]_vars
  PROVE  GoneBehind'
<1> USE DEF GoneBehind, Later
<1>0. /\ exists' \subseteq exists /\ (\A k : (Of(k))' \subseteq Of(k))
      /\ dying \cap exists' \subseteq dying'
      /\ Good' /\ pc \in Cleaning => Good
  BY CloudStep, PassStep DEF Of
<1>1. ASSUME pc' = pc PROVE GoneBehind'
  <2>1. Good' /\ pc \in Cleaning => Good /\ passes' = passes
    BY <1>0, <1>1, PassStep DEF Good, CleanTypes, Phases, Cleaning
  <2>2. Of({"vm"}) \subseteq dying => (Of({"vm"}))' \subseteq dying'
    BY <1>0 DEF Of
  <2> QED
    BY <1>0, <1>1, <2>1, <2>2 DEF Cleaning
<1>2. ASSUME pc' \in {"discover", "ask", "servers"} PROVE GoneBehind'
  BY <1>2
<1>3. ASSUME NEW order, Discover(order) PROVE GoneBehind'
  BY <1>2, <1>3 DEF Discover
<1>4. ASSUME NEW answer, Ask(answer) PROVE GoneBehind'
  BY <1>2, <1>4 DEF Ask
<1>5. CASE DeleteServer \/ RemoveInterface \/ ForeignInterface \/ NovaDeletes
           \/ DeletePort \/ DeleteFloatingIp \/ DeleteNetwork
  BY <1>1, <1>5 DEF DeleteServer, RemoveInterface, ForeignInterface, NovaDeletes,
     DeletePort, DeleteFloatingIp, DeleteNetwork, DeleteInNetworks
<1>6. CASE ServersAsked
  <2>1. UNCHANGED <<exists, dying, options, passes>> /\ pc = "servers"
        /\ pc' \in {"wait", "flavor"} /\ ("i" \in options => Found({"vm"}) = {})
    BY <1>6 DEF ServersAsked, cloud, history
  <2>2. ASSUME Good' PROVE (Of({"vm"}))' \subseteq dying'
    <3>1. Good /\ "i" \in options
      BY <2>1, <2>2 DEF Good, Codes
    <3>2. Of({"vm"}) \ dying \subseteq Found({"vm"})
      BY <2>1, <3>1 DEF FoundAhead, Found, Of
    <3> QED
      BY <2>1, <3>1, <3>2 DEF Of
  <2> QED
    BY <2>1, <2>2
<1>7. CASE WaitForServers
  BY <1>7 DEF WaitForServers, cloud, history, Of, Good
<1>8. CASE WaitRaises \/ CleanDone
  BY <1>2, <1>8 DEF WaitRaises, CleanDone
<1>9. CASE DeleteFlavor
  <2>1. /\ pc = "flavor" /\ dying' = dying /\ options' = options
        /\ pc' = IF "n" \in options THEN "ports" ELSE "routers"
        /\ \/ exists' = exists \ {Flavor}
           \/ passes' = -1
           \/ "f" \notin options
    BY <1>9 DEF DeleteFlavor, Fault
  <2>2. ASSUME Good' PROVE pc' = "ports" /\ Flavor \notin exists'
                            /\ (Of({"vm"}))' \subseteq dying'
    <3>1. Good /\ "n" \in options /\ "f" \in options /\ passes' # -1
      BY <1>0, <2>1, <2>2 DEF Good, Codes, Cleaning
    <3> QED
      BY <1>0, <2>1, <3>1
  <2> QED
    BY <2>1, <2>2
<1>10. CASE NextKind
  <2>1. UNCHANGED <<exists, dying, options, passes, found>>
    BY <1>10 DEF NextKind, cloud, history
  <2>2. \/ pc = "ports" /\ Found(PortKinds) = {} /\ pc' = "fips"
        \/ pc = "fips" /\ Found({"fip"}) = {} /\ pc' = "nets"
        \/ pc = "nets" /\ Found(NetKinds) = {} /\ pc' = "routers"
    BY <1>10 DEF NextKind
  <2>3. Good' <=> Good
    BY <2>1 DEF Good
  <2>4. pc = "ports" /\ Good => Of(PortKinds) = {}
    BY <2>2 DEF FoundAhead, Found, Of
  <2>5. pc = "fips" /\ Good => Of({"fip"}) = {}
    BY <2>2 DEF FoundAhead, Found, Of
  <2>6. pc = "nets" /\ Good /\ passes >= 2 => Of(NetKinds) = {}
    BY <2>2 DEF FoundAhead, Found, Of
  <2>7. \A k : (Of(k))' = Of(k)
    BY <2>1 DEF Of
  <2> QED
    BY <2>1, <2>2, <2>3, <2>4, <2>5, <2>6, <2>7
<1>11. CASE NextRouter \/ DeleteRouter
  <2>1. pc \in {"routers", "interfaces"} /\ pc' \in {"routers", "interfaces"}
    BY <1>11 DEF NextRouter, DeleteRouter
  <2>2. Good' => Good /\ passes' = passes
    BY <1>0, <2>1, PassStep DEF Good, CleanTypes, Cleaning
  <2>3. Of({"vm"}) \subseteq dying => (Of({"vm"}))' \subseteq dying'
    BY <1>0 DEF Of
  <2> QED
    BY <1>0, <2>1, <2>2, <2>3
<1>12. CASE UNCHANGED vars
  BY <1>1, <1>12 DEF vars
<1> QED
  BY <1>3, <1>4, <1>5, <1>6, <1>7, <1>8, <1>9, <1>10, <1>11, <1>12 DEF Next, Clean
-----------------------------------------------------------------------------
(* The theorems *)

(* The invariant holds of any leftovers before the first cleanup. *)
LEMMA InitialCloud ==
  ASSUME Init
  PROVE  CleanInv
<1>1. PICK start \in Leftovers :
        /\ g = start.g /\ exists = start.left /\ dying = {}
        /\ attached = {a \in Of({"router"}) \X Of(NetKinds) : Holds(g, a[1], a[2])}
        /\ pc = "discover" /\ options = {} /\ found = {}
        /\ routers = <<>> /\ ports = <<>> /\ left = <<>> /\ passes = 0
  BY DEF Init
<1>2. IsFiniteSet(exists) /\ OnNetwork(g, exists) /\ exists \subseteq Everything
  BY <1>1, CleanupAssumption DEF Everything
<1>3. attached \subseteq exists \X exists /\ \A a \in attached : a[1] \in Of({"router"})
  BY <1>1 DEF Of
<1>4. IsFiniteSet(attached)
  <2>1. IsFiniteSet(exists \X exists)
    BY <1>2, FS_Product
  <2> QED
    BY <1>3, <2>1, FS_Subset
<1>5. CleanTypes
  BY <1>1, <1>2, <1>3, <1>4 DEF CleanTypes, Phases
<1>6. RoutersAhead
  BY <1>1, EmptySeq DEF RoutersAhead, Good, Codes
<1>7. AskedFor /\ FoundAhead /\ GoneBehind /\ GoneForGood
  BY <1>1 DEF AskedFor, FoundAhead, GoneBehind, GoneForGood, Good, Codes, Cleaning, Later
<1> QED
  BY <1>5, <1>6, <1>7 DEF CleanInv

(* The inductive invariant of a cleanup, for any leftovers, answers and    *)
(* failing calls (cleanup.py:39-305).                                      *)
THEOREM CleanupIsFollowed == Spec => []CleanInv
<1>1. Init => CleanInv
  BY InitialCloud
<1>2. CleanInv /\ [Next]_vars => CleanInv'
  BY TypesStep, AskedStep, RoutersStep, FoundStep, GoneStep, GoneForGoodStep DEF CleanInv
<1> QED
  BY <1>1, <1>2, PTL DEF Spec

(* However much is left, one complete cleanup without a failing call       *)
(* leaves at most one router, two leave none, and three nothing but the    *)
(* image and servers that Nova is slow to delete (cleanup.py:88-111,       *)
(* 150-177).                                                               *)
THEOREM ThreePassesLeaveNothing == Spec => []LeftAfterPasses
<1>1. CleanInv => LeftAfterPasses
  <2> SUFFICES ASSUME CleanInv PROVE LeftAfterPasses
    OBVIOUS
  <2>1. ASSUME passes >= 3 PROVE exists \ dying \subseteq {Image}
    <3> SUFFICES ASSUME NEW r \in exists, r \notin dying PROVE r = Image
      OBVIOUS
    <3>1. passes >= 1 /\ passes >= 2 /\ passes >= 3
      BY <2>1 DEF CleanInv, CleanTypes
    <3>2. /\ r.kind \notin {"vm", "fip", "router"} \cup PortKinds \cup NetKinds
          /\ r # Flavor
      BY <3>1 DEF CleanInv, GoneForGood, Of
    <3>3. Named(r)
      BY EverythingNamed DEF CleanInv, CleanTypes
    <3> QED
      BY <3>2, <3>3, Kinds DEF Named
  <2>2. /\ passes >= 1 => Cardinality(Of({"router"})) <= 1
        /\ passes >= 2 => Of({"router"}) = {}
    BY DEF CleanInv, GoneForGood
  <2> QED
    BY <2>1, <2>2 DEF LeftAfterPasses
<1> QED
  BY <1>1, CleanupIsFollowed, PTL

(* Whatever is left and fails, no resource is deleted, and no server asked *)
(* to go, that is not of a kind the user asked to clean in this call       *)
(* (cleanup.py:270-303).                                                   *)
THEOREM NothingElseIsCleaned == Spec => OnlyWhatWasAsked
<1>1. CleanInv /\ [Next]_vars =>
        [ /\ \A r \in exists \ exists' : r \in dying \/ CodeOf(r) \in wanted
          /\ \A r \in dying' \ dying : CodeOf(r) \in wanted
          /\ attached # attached' => "r" \in wanted ]_vars
  BY AskedLosses DEF CleanInv
<1> QED
  BY <1>1, CleanupIsFollowed, PTL DEF Spec, OnlyWhatWasAsked
=============================================================================
