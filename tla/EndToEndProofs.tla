--------------------------- MODULE EndToEndProofs ---------------------------
(***************************************************************************)
(* The invariants of EndToEnd for any chains, any sharing of MACs and any  *)
(* number of retries.                                                      *)
(*                                                                         *)
(* ArpInv ties the counter of resolve_arp to the list it counts.  MapInv   *)
(* says what is left in mac_map at every point: the expected MACs of which *)
(* no packet was captured, where the packets just fetched may still be to  *)
(* be ticked off.  QuietInv says where something can be on.                *)
(***************************************************************************)
EXTENDS EndToEnd, FiniteSetTheorems, TLAPS

InArp == {"arpBegin", "arpRun", "arpEnd"}
InCapture == {"clear", "start", "enable", "open", "stop", "fetch", "next"}
Fetched == {"close", "disable", "examine"}

Seen == {cfg.mac[e] : e \in forwarded}

ArpInv ==
  /\ pc = "arpRun" => /\ port \in Ports
                      /\ attempt < ArpRetries
                      /\ {port} \X found \subseteq answered
                      /\ count = Cardinality(found)
  /\ resolved \X Chains \subseteq answered
  /\ pc = "program" /\ cfg.arp => resolved = Ports

MapInv ==
  /\ pc \in {"setup", "program"} => forwarded = {}
  /\ pc = "setup" => ~again
  /\ pc \in InArp /\ ~again => forwarded = {}
  /\ pc \in InCapture \/ (pc \in InArp /\ again) =>
       macMap = DestMacs \ Seen /\ macMap # {}
  /\ pc \in Fetched => macMap \ TickedOff = DestMacs \ Seen
  /\ pc = "established" => DestMacs \subseteq Seen
  /\ pc = "unreachable" => ~ DestMacs \subseteq Seen

QuietInv ==
  /\ traffic => pc \in {"enable", "open", "stop", "error"}
  /\ capture => pc \in {"stop", "fetch", "close", "error"}
  /\ service /\ ~cfg.service =>
       pc \in {"arpRun", "arpEnd", "open", "stop", "fetch", "close", "disable", "error"}

IInv == TypeOK /\ ArpInv /\ MapInv /\ QuietInv

(* There is a port and a chain, so some MAC is expected. *)
LEMMA SomethingExpected ==
  ASSUME TypeOK
  PROVE  DestMacs # {} /\ DestMacs \subseteq Macs
<1>1. PICK c \in Chains : TRUE
  BY EndToEndAssumption
<1>2. <<0, c>> \in Endpoints
  BY <1>1 DEF Endpoints, Ports
<1>3. cfg.mac \in [Endpoints -> Macs]
  BY EndToEndAssumption DEF TypeOK, ConfigSet
<1> QED
  BY <1>2, <1>3 DEF DestMacs

(* The invariant at the start. *)
LEMMA InitIInv == Init => IInv
<1> SUFFICES ASSUME Init PROVE IInv
  OBVIOUS
<1>1. TypeOK
  <2>1. attempt \in 0 .. ArpRetries
    BY EndToEndAssumption DEF Init
  <2>2. packets \subseteq Packets
    BY DEF Init
  <2>3. traffic \in BOOLEAN /\ capture \in BOOLEAN /\ service \in BOOLEAN /\ again \in BOOLEAN
    BY DEF Init
  <2>4. cfg \in Configs /\ pc = "setup"
    BY DEF Init
  <2>5. port \in 0 .. 2 /\ count \in Nat /\ it \in Nat
    BY DEF Init
  <2>6. found = {} /\ resolved = {} /\ macMap = {} /\ answered = {} /\ forwarded = {}
    BY DEF Init
  <2> QED
    BY <2>1, <2>2, <2>3, <2>4, <2>5, <2>6 DEF TypeOK
<1>2. ArpInv
  BY DEF Init, ArpInv
<1>3. MapInv
  BY DEF Init, MapInv, InArp, InCapture, Fetched
<1>4. QuietInv
  BY DEF Init, QuietInv
<1> QED
  BY <1>1, <1>2, <1>3, <1>4 DEF IInv

-----------------------------------------------------------------------------
(* Type correctness *)

(* Every step keeps the types. *)
LEMMA TypeStep == TypeOK /\ ArpInv /\ [Next]_vars => TypeOK'
<1> SUFFICES ASSUME TypeOK, ArpInv, [Next]_vars PROVE TypeOK'
  OBVIOUS
<1> USE DEF TypeOK, Over, Calls
<1>1. CASE SetupTraffic
  BY <1>1 DEF SetupTraffic, tgVars, arpVars, checkVars
<1>2. CASE ArpBegin
  BY <1>2, EndToEndAssumption DEF ArpBegin, checkVars
<1>3. ASSUME NEW replies \in SUBSET Chains, ArpAnswers(replies) PROVE TypeOK'
  <2>1. Cardinality(replies \ found) \in Nat
    BY EndToEndAssumption, FS_Subset, FS_CardinalityType
  <2>2. answered' \subseteq Endpoints
    BY <1>3 DEF ArpAnswers, ArpInv, Endpoints
  <2>3. count' \in Nat /\ found' \subseteq Chains
    BY <1>3, <2>1 DEF ArpAnswers
  <2>4. port' \in 0 .. 2 /\ attempt' \in 0 .. ArpRetries /\ resolved' \subseteq Ports
    <3>1. port \in Ports
      BY <1>3 DEF ArpAnswers, ArpInv
    <3>2. CASE ArpPortDone
      BY <3>1, <3>2, EndToEndAssumption DEF ArpPortDone, Ports
    <3>3. CASE ArpRetry
      BY <1>3, <3>3, EndToEndAssumption DEF ArpRetry, ArpAnswers, ArpInv
    <3> QED
      BY <1>3, <3>2, <3>3 DEF ArpAnswers
  <2>5. pc' \in Over \cup Calls \cup {"setup", "arpRun", "arpEnd", "examine", "next"}
    BY <1>3 DEF ArpAnswers, ArpPortDone, ArpRetry
  <2> QED
    BY <1>3, <2>2, <2>3, <2>4, <2>5 DEF ArpAnswers, tgVars, checkVars
<1>4. CASE ArpSendFails
  BY <1>4, EndToEndAssumption DEF ArpSendFails, ArpRetry, ArpInv, tgVars, checkVars
<1>5. CASE ArpEnd
  BY <1>5 DEF ArpEnd, arpVars, checkVars
<1>6. CASE CreateTraffic
  BY <1>6, SomethingExpected DEF CreateTraffic, tgVars, arpVars
<1>7. CASE ClearStats
  BY <1>7 DEF ClearStats, tgVars, arpVars, checkVars
<1>8. CASE StartTraffic
  BY <1>8 DEF StartTraffic, arpVars, checkVars
<1>9. CASE EnableService
  BY <1>9 DEF EnableService, arpVars, checkVars
<1>10. CASE OpenCapture
  BY <1>10 DEF OpenCapture, arpVars, checkVars
<1>11. CASE StopTraffic
  BY <1>11 DEF StopTraffic, arpVars, checkVars
<1>12. ASSUME NEW through \in SUBSET Endpoints, NEW noise \in SUBSET Macs,
              FetchPackets(through, noise)
       PROVE  TypeOK'
  <2>1. cfg.mac \in [Endpoints -> Macs]
    BY EndToEndAssumption DEF ConfigSet
  <2>2. packets' \subseteq Packets
    BY <1>12, <2>1 DEF FetchPackets, Packets
  <2> QED
    BY <1>12, <2>2 DEF FetchPackets, arpVars
<1>13. CASE CloseCapture
  BY <1>13 DEF CloseCapture, arpVars, checkVars
<1>14. CASE DisableService
  BY <1>14 DEF DisableService, arpVars, checkVars
<1>15. CASE Examine
  <2>1. cfg.l3 \in BOOLEAN
    BY EndToEndAssumption DEF ConfigSet
  <2> QED
    BY <1>15, <2>1 DEF Examine, tgVars
<1>16. CASE NextCapture
  BY <1>16 DEF NextCapture, tgVars, arpVars
<1>17. CASE ClientRaises
  BY <1>17 DEF ClientRaises, arpVars, checkVars
<1>18. CASE UNCHANGED vars
  BY <1>18 DEF vars, tgVars, arpVars, checkVars
<1> QED
  BY <1>1, <1>2, <1>3, <1>4, <1>5, <1>6, <1>7, <1>8, <1>9, <1>10, <1>11, <1>12,
     <1>13, <1>14, <1>15, <1>16, <1>17, <1>18
  DEF Next, ResolveArp, EnsureEndToEnd

-----------------------------------------------------------------------------
(* The counter of resolved chains *)

(* Every step keeps the count of resolved chains that of the set found. *)
LEMMA ArpStep == TypeOK /\ ArpInv /\ [Next]_vars => ArpInv'
<1> SUFFICES ASSUME TypeOK, ArpInv, [Next]_vars PROVE ArpInv'
  OBVIOUS
<1> DEFINE Others ==
      \/ ClearStats \/ StartTraffic \/ EnableService \/ OpenCapture \/ StopTraffic
      \/ \E through \in SUBSET Endpoints, noise \in SUBSET Macs :
           FetchPackets(through, noise)
      \/ CloseCapture \/ DisableService \/ Examine \/ NextCapture \/ ClientRaises
      \/ CreateTraffic
<1>1. CASE SetupTraffic
  BY <1>1 DEF SetupTraffic, ArpInv, arpVars
<1>2. CASE ArpBegin
  BY <1>2, FS_EmptySet, EndToEndAssumption DEF ArpBegin, ArpInv, Ports
<1>3. ASSUME NEW replies \in SUBSET Chains, ArpAnswers(replies) PROVE ArpInv'
  <2> DEFINE new == replies \ found
             enough == count + Cardinality(new) = Cardinality(Chains)
  <2>1. IsFiniteSet(found) /\ IsFiniteSet(new) /\ IsFiniteSet(found \cup new)
    BY EndToEndAssumption, FS_Subset DEF TypeOK
  <2>2. Cardinality(found \cup new) = Cardinality(found) + Cardinality(new)
    <3>1. found \cap new = {}
      OBVIOUS
    <3>2. Cardinality(found \cap new) = 0
      BY <3>1, FS_EmptySet
    <3>3. Cardinality(found) \in Nat /\ Cardinality(new) \in Nat
      BY <2>1, FS_CardinalityType
    <3>4. Cardinality(found \cup new)
            = Cardinality(found) + Cardinality(new) - Cardinality(found \cap new)
      BY <2>1, FS_Union
    <3> HIDE DEF new
    <3> QED
      BY <3>2, <3>3, <3>4
  <2>3. pc = "arpRun" /\ count = Cardinality(found) /\ port \in Ports
    BY <1>3 DEF ArpAnswers, ArpInv
  <2>4. {port} \X (found \cup new) \subseteq answered'
    BY <1>3 DEF ArpAnswers, ArpInv
  <2>5. answered \subseteq answered' /\ cfg' = cfg
    BY <1>3 DEF ArpAnswers
  <2>6. CASE enough
    <3>1. ArpPortDone
      BY <1>3, <2>6 DEF ArpAnswers
    <3>2. found \cup new = Chains
      BY <2>1, <2>2, <2>3, <2>6, FS_Subset, EndToEndAssumption DEF TypeOK
    <3>3. resolved' \X Chains \subseteq answered'
      BY <2>4, <2>5, <3>1, <3>2 DEF ArpPortDone, ArpInv
    <3>4. pc' = "arpRun" => port' \in Ports /\ found' = {} /\ count' = 0
                            /\ attempt' < ArpRetries
      BY <1>3, <2>3, <2>6, <3>1, EndToEndAssumption DEF ArpAnswers, ArpPortDone, Ports
    <3>5. pc' # "program"
      BY <3>1 DEF ArpPortDone
    <3> QED
      BY <3>3, <3>4, <3>5, FS_EmptySet DEF ArpInv
  <2>7. CASE ~enough
    <3>1. ArpRetry /\ found' = found \cup new /\ count' = count + Cardinality(new)
      BY <1>3, <2>7 DEF ArpAnswers
    <3>2. pc' = "arpRun" => attempt' < ArpRetries
      BY <1>3, <3>1, EndToEndAssumption DEF ArpAnswers, ArpRetry, ArpInv, TypeOK
    <3>3. resolved' = resolved /\ port' = port /\ pc' # "program"
      BY <3>1 DEF ArpRetry
    <3>4. resolved' \X Chains \subseteq answered'
      BY <2>5, <3>3 DEF ArpInv
    <3> QED
      BY <2>2, <2>3, <2>4, <2>5, <3>1, <3>2, <3>3, <3>4 DEF ArpInv
  <2> QED
    BY <2>6, <2>7
<1>4. CASE ArpSendFails
  BY <1>4, EndToEndAssumption DEF ArpSendFails, ArpRetry, ArpInv, TypeOK
<1>5. CASE ArpEnd
  BY <1>5 DEF ArpEnd, ArpInv, arpVars
<1>6. CASE Others
  <2>1. UNCHANGED <<cfg, resolved, answered>> /\ pc' \notin {"arpRun", "program"}
    BY <1>6 DEF ClearStats, StartTraffic, EnableService, OpenCapture, StopTraffic,
       FetchPackets, CloseCapture, DisableService, Examine, NextCapture, ClientRaises,
       CreateTraffic, arpVars
  <2> QED
    BY <2>1 DEF ArpInv
<1>7. CASE UNCHANGED vars
  BY <1>7 DEF vars, arpVars, ArpInv
<1> QED
  BY <1>1, <1>2, <1>3, <1>4, <1>5, <1>6, <1>7 DEF Next, ResolveArp, EnsureEndToEnd

-----------------------------------------------------------------------------
(* What is left in mac_map *)

(* Every step keeps in macMap what no capture has shown. *)
LEMMA MapStep == TypeOK /\ MapInv /\ [Next]_vars => MapInv'
<1> SUFFICES ASSUME TypeOK, MapInv, [Next]_vars PROVE MapInv'
  OBVIOUS
<1> USE DEF MapInv, InArp, InCapture, Fetched
<1> DEFINE Between ==
      \/ ClearStats \/ StartTraffic \/ EnableService \/ OpenCapture \/ StopTraffic
      \/ CloseCapture \/ DisableService \/ ClientRaises
      \/ ArpSendFails \/ \E replies \in SUBSET Chains : ArpAnswers(replies)
<1>1. CASE SetupTraffic
  BY <1>1 DEF SetupTraffic, checkVars, arpVars, tgVars
<1>2. CASE ArpBegin
  BY <1>2 DEF ArpBegin, checkVars, DestMacs, Seen
<1>3. CASE ArpEnd
  BY <1>3 DEF ArpEnd, checkVars, arpVars, DestMacs, Seen
<1>4. CASE CreateTraffic
  <2>1. Seen' = {} /\ DestMacs' = DestMacs
    BY <1>4 DEF CreateTraffic, Seen, DestMacs
  <2>2. macMap' = DestMacs' \ Seen' /\ DestMacs' # {}
    BY <1>4, <2>1, SomethingExpected DEF CreateTraffic
  <2>3. pc' \in {"unreachable", "clear"}
    BY <1>4 DEF CreateTraffic
  <2> QED
    BY <2>1, <2>2, <2>3
<1>5. ASSUME NEW through \in SUBSET Endpoints, NEW noise \in SUBSET Macs,
             FetchPackets(through, noise)
      PROVE  MapInv'
  <2>1. TickedOff' = {cfg.mac[e] : e \in through}
    <3> DEFINE good == [mac : {cfg.mac[e] : e \in through}, expected : {TRUE}]
               bad == [mac : noise, expected : {FALSE}]
    <3>1. packets' = good \cup bad
      BY <1>5 DEF FetchPackets
    <3>2. {q \in packets' : q.expected} = good
      BY <3>1
    <3>3. {p.mac : p \in good} = {cfg.mac[e] : e \in through}
      <4>1. ASSUME NEW e \in through PROVE cfg.mac[e] \in {p.mac : p \in good}
        <5>1. [mac |-> cfg.mac[e], expected |-> TRUE] \in good
          OBVIOUS
        <5> QED
          BY <5>1
      <4> QED
        BY <4>1
    <3> QED
      BY <3>2, <3>3 DEF TickedOff
  <2>2. Seen' = Seen \cup TickedOff' /\ DestMacs' = DestMacs
    BY <1>5, <2>1 DEF FetchPackets, Seen, DestMacs
  <2>3. macMap' \ TickedOff' = DestMacs' \ Seen'
    BY <1>5, <2>2 DEF FetchPackets
  <2> QED
    BY <1>5, <2>3 DEF FetchPackets
<1>6. CASE Examine
  BY <1>6 DEF Examine, DestMacs, Seen
<1>7. CASE NextCapture
  BY <1>7 DEF NextCapture, DestMacs, Seen, arpVars
<1>8. CASE Between
  <2>1. UNCHANGED <<cfg, packets, macMap, forwarded, again>>
    BY <1>8 DEF ClearStats, StartTraffic, EnableService, OpenCapture, StopTraffic,
       CloseCapture, DisableService, ClientRaises, ArpSendFails, ArpAnswers,
       tgVars, arpVars, checkVars
  <2>2. UNCHANGED <<DestMacs, Seen, TickedOff>>
    BY <2>1 DEF DestMacs, Seen, TickedOff
  <2>3. \/ pc \in InCapture /\ pc' \in InCapture
        \/ pc \in Fetched /\ pc' \in Fetched
        \/ pc \in InArp /\ pc' \in InArp
        \/ pc' = "error"
    BY <1>8 DEF ClearStats, StartTraffic, EnableService, OpenCapture, StopTraffic,
       CloseCapture, DisableService, ClientRaises, ArpSendFails, ArpAnswers,
       ArpPortDone, ArpRetry
  <2> QED
    BY <2>1, <2>2, <2>3
<1>9. CASE UNCHANGED vars
  BY <1>9, ZenonT(30) DEF vars, tgVars, arpVars, checkVars, DestMacs, Seen, TickedOff
<1> QED
  BY <1>1, <1>2, <1>3, <1>4, <1>5, <1>6, <1>7, <1>8, <1>9 DEF Next, ResolveArp, EnsureEndToEnd

-----------------------------------------------------------------------------
(* What is on *)

(* Every step keeps traffic, capture and service mode where they may be    *)
(* on.                                                                     *)
LEMMA QuietStep == TypeOK /\ QuietInv /\ [Next]_vars => QuietInv'
<1> SUFFICES ASSUME TypeOK, QuietInv, [Next]_vars PROVE QuietInv'
  OBVIOUS
<1>1. CASE UNCHANGED vars
  BY <1>1 DEF vars, tgVars, QuietInv
<1>2. CASE SetupTraffic
  BY <1>2 DEF SetupTraffic, QuietInv, tgVars
<1>3. CASE ArpBegin
  BY <1>3 DEF ArpBegin, QuietInv
<1>4. ASSUME NEW replies \in SUBSET Chains, ArpAnswers(replies) PROVE QuietInv'
  <2>1. pc = "arpRun" /\ pc' \in {"arpRun", "arpEnd"} /\ UNCHANGED <<cfg, tgVars>>
    BY <1>4 DEF ArpAnswers, ArpPortDone, ArpRetry
  <2> QED
    BY <2>1 DEF QuietInv, tgVars
<1>5. CASE ArpSendFails
  BY <1>5 DEF ArpSendFails, ArpRetry, QuietInv, tgVars
<1>6. CASE ArpEnd
  BY <1>6 DEF ArpEnd, QuietInv
<1>7. ASSUME NEW through \in SUBSET Endpoints, NEW noise \in SUBSET Macs,
             FetchPackets(through, noise)
      PROVE  QuietInv'
  BY <1>7 DEF FetchPackets, QuietInv
<1>8. CASE CreateTraffic
  BY <1>8 DEF CreateTraffic, QuietInv, tgVars
<1>9. CASE ClearStats
  BY <1>9 DEF ClearStats, QuietInv, tgVars
<1>10. CASE StartTraffic
  BY <1>10 DEF StartTraffic, QuietInv, tgVars
<1>11. CASE EnableService
  BY <1>11 DEF EnableService, QuietInv, tgVars
<1>12. CASE OpenCapture
  BY <1>12 DEF OpenCapture, QuietInv, tgVars
<1>13. CASE StopTraffic
  BY <1>13 DEF StopTraffic, QuietInv, tgVars
<1>14. CASE CloseCapture
  BY <1>14 DEF CloseCapture, QuietInv, tgVars
<1>15. CASE DisableService
  BY <1>15 DEF DisableService, QuietInv, tgVars
<1>16. CASE Examine
  BY <1>16 DEF Examine, QuietInv, tgVars
<1>17. CASE NextCapture
  BY <1>17 DEF NextCapture, QuietInv, tgVars
<1>18. CASE ClientRaises
  <2>1. pc' = "error"
    BY <1>18 DEF ClientRaises
  <2> QED
    BY <2>1 DEF QuietInv
<1> QED
  BY <1>1, <1>2, <1>18, <1>3, <1>4, <1>5, <1>6, <1>7, <1>8, <1>9, <1>10, <1>11, <1>12,
     <1>13, <1>14, <1>15, <1>16, <1>17 DEF Next, ResolveArp, EnsureEndToEnd

-----------------------------------------------------------------------------

(* The invariant holds in every behaviour. *)
LEMMA Inductive == Spec => []IInv
<1>1. IInv /\ [Next]_vars => IInv'
  BY TypeStep, ArpStep, MapStep, QuietStep DEF IInv
<1> QED
  BY InitIInv, <1>1, PTL DEF Spec

(* Every variable keeps its type. *)
THEOREM TypeCorrect == Spec => []TypeOK
<1>1. IInv => TypeOK
  BY DEF IInv
<1> QED
  BY Inductive, <1>1, PTL

(* The check passes, and fails as unreachable, exactly when it should      *)
(* (TrafficClient.ensure_end_to_end).                                      *)
THEOREM Verdict == Spec => []VerdictIsExact
<1>1. IInv => VerdictIsExact
  BY DEF IInv, MapInv, VerdictIsExact, Reached, DestMacs, Seen
<1> QED
  BY Inductive, <1>1, PTL

OwnMacs == \A e, f \in Endpoints : cfg.mac[e] = cfg.mac[f] => e = f

(* Where every endpoint has a MAC of its own, passing the check means that *)
(* each chain has forwarded in both directions, which the docstring of     *)
(* ensure_end_to_end promises in general.                                  *)
THEOREM OwnMacsAllForward == Spec => [](OwnMacs /\ pc = "established" => forwarded = Endpoints)
<1>1. IInv => (OwnMacs /\ pc = "established" => forwarded = Endpoints)
  <2> SUFFICES ASSUME IInv, OwnMacs, pc = "established" PROVE Endpoints \subseteq forwarded
    BY DEF IInv, TypeOK
  <2>1. VerdictIsExact /\ forwarded \subseteq Endpoints
    BY DEF IInv, MapInv, TypeOK, VerdictIsExact, Reached, DestMacs, Seen
  <2> QED
    BY <2>1 DEF VerdictIsExact, Reached, OwnMacs
<1> QED
  BY Inductive, <1>1, PTL

(* A resolved port has an answer of each of its chains (TRex.resolve_arp). *)
THEOREM Resolved == Spec => []ResolvedMeansAnswered
<1>1. IInv => ResolvedMeansAnswered
  BY DEF IInv, TypeOK, ArpInv, ResolvedMeansAnswered, Endpoints
<1> QED
  BY Inductive, <1>1, PTL

(* Nothing is left on by a check that ended without a client error         *)
(* (TRex.stop_capture, TRex.resolve_arp).                                  *)
THEOREM Quiet == Spec => []QuietWhenOver
<1>1. IInv => QuietWhenOver
  BY DEF IInv, QuietInv, QuietWhenOver, Over
<1> QED
  BY Inductive, <1>1, PTL
=============================================================================
