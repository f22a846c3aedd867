---------------------------- MODULE ServerProofs ----------------------------
(***************************************************************************)
(* Theorems about the REST server, for any number of Flask threads, any    *)
(* set of request ids and any MAXLEN.                                      *)
(***************************************************************************)
EXTENDS Server, SequenceTheorems, FiniteSetTheorems, TLAPS

(* Where each handler stands, its id is a real one. *)
HandlersHoldIds ==
  \A h \in Handlers :
    /\ pc[h] \in {"busyCheck", "setBusy", "put", "evict", "popped", "append"}
         => rid[h] \in RequestIds
    /\ pc[h] = "idLookup" => rid[h] \in RequestIds
    /\ pc[h] \in {"idBusy", "idCurrent"} => rid[h] \in RequestIds
    /\ reply[h] = "accepted" => rid[h] \in RequestIds

(* The main thread holds a run exactly outside of "get", and has published *)
(* its id between dequeue() and release().                                 *)
MainHoldsRun ==
  /\ mainPc = "get" => config = NoId
  /\ mainPc \notin {"get", "dead"} => config \in RequestIds
  /\ mainPc \in {"run", "storeResult", "setResult", "summarize", "clearCurrent"}
       => currentId = config

(* The types and the places that hold ids, for every behaviour. *)
LEMMA Typing == Spec => [](TypeOK /\ HandlersHoldIds /\ MainHoldsRun)
<1> DEFINE Inv == TypeOK /\ HandlersHoldIds /\ MainHoldsRun
<1>1. Init => Inv
  <2> SUFFICES ASSUME Init PROVE Inv
    OBVIOUS
  <2>1. TypeOK
    <3>1. <<>> \in Seq(RequestIds)
      OBVIOUS
    <3>2. pc \in [Handlers -> HandlerPcs] /\ reply \in [Handlers -> Replies]
      BY DEF Init, HandlerPcs, Replies
    <3>3. /\ rid \in [Handlers -> IdOrNone]
          /\ loc \in [Handlers -> IdOrNone]
      BY DEF Init, IdOrNone
    <3> QED
      BY <3>1, <3>2, <3>3 DEF Init, TypeOK, IdOrNone, MainPcs
  <2>2. HandlersHoldIds
    BY DEF Init, HandlersHoldIds
  <2>3. MainHoldsRun
    BY DEF Init, MainHoldsRun
  <2> QED
    BY <2>1, <2>2, <2>3
<1>2. Inv /\ [Next]_vars => Inv'
  <2> SUFFICES ASSUME Inv, [Next]_vars PROVE Inv'
    OBVIOUS
  <2> USE DEF TypeOK, HandlersHoldIds, MainHoldsRun, IdOrNone, MainPcs,
              HandlerPcs, Replies, ctxVars, mainVars, handVars, histVars,
              Goto, Answer
  <2>1. CASE Main
    <3>1. CASE Dequeue
      BY <3>1 DEF Dequeue
    <3>2. CASE SetCurrent
      BY <3>2 DEF SetCurrent
    <3>3. CASE RunBenchmark
      BY <3>3 DEF RunBenchmark
    <3>4. CASE StoreResult
      BY <3>4 DEF StoreResult
    <3>5. CASE SetResult
      BY <3>5 DEF SetResult
    <3>6. CASE Summarize
      BY <3>6 DEF Summarize
    <3>7. CASE ReleaseCurrent
      BY <3>7 DEF ReleaseCurrent
    <3>8. CASE ReleaseBusy
      BY <3>8 DEF ReleaseBusy
    <3> QED
      BY <2>1, <3>1, <3>2, <3>3, <3>4, <3>5, <3>6, <3>7, <3>8 DEF Main
  <2>2. ASSUME NEW h \in Handlers, Enqueue(h) PROVE Inv'
    <3>1. CASE EnqueueSetBusy(h)
      BY <3>1 DEF EnqueueSetBusy
    <3>2. CASE EnqueuePut(h)
      BY <3>2 DEF EnqueuePut
    <3>3. CASE EnqueueLenCheck(h)
      BY <3>3 DEF EnqueueLenCheck
    <3>4. CASE EnqueuePop(h)
      <4>1. CASE ids = <<>>
        BY <3>4, <4>1, ZenonT(30) DEF EnqueuePop
      <4>2. CASE ids # <<>>
        <5>1. Head(ids) \in RequestIds /\ Tail(ids) \in Seq(RequestIds)
          BY <4>2, HeadTailProperties
        <5> QED
          BY <3>4, <4>2, <5>1, ZenonT(30) DEF EnqueuePop
      <4> QED
        BY <4>1, <4>2
    <3>5. CASE EnqueueEvict(h)
      BY <3>5 DEF EnqueueEvict
    <3>6. CASE EnqueueAppend(h)
      BY <3>6 DEF EnqueueAppend
    <3>7. CASE EnqueueRaises(h)
      BY <3>7 DEF EnqueueRaises
    <3> QED
      BY <2>2, <3>1, <3>2, <3>3, <3>4, <3>5, <3>6, <3>7 DEF Enqueue
  <2>3. ASSUME NEW h \in Handlers, GetResult(h) PROVE Inv'
    <3>1. CASE StatusOfLookup(h)
      BY <3>1, ZenonT(40) DEF StatusOfLookup
    <3>2. CASE StatusOfLatest(h)
      <4>1. CASE result # NoId
        BY <3>2, <4>1, SMTT(60) DEF StatusOfLatest
      <4>2. CASE result = NoId
        BY <3>2, <4>2, ZenonT(30) DEF StatusOfLatest
      <4> QED
        BY <4>1, <4>2
    <3>3. CASE StatusOfSame(h)
      <4>1. CASE result = NoId
        BY <3>3, <4>1, SMTT(30) DEF StatusOfSame
      <4>2. CASE result # NoId /\ result = rid[h]
        BY <3>3, <4>2, ZenonT(30) DEF StatusOfSame
      <4>3. CASE result \notin {NoId, rid[h]}
        BY <3>3, <4>3, SMTT(30) DEF StatusOfSame
      <4> QED
        BY <4>1, <4>2, <4>3
    <3>4. CASE StatusOfClear(h)
      BY <3>4 DEF StatusOfClear
    <3>5. CASE StatusAnyRead(h)
      BY <3>5, ZenonT(30) DEF StatusAnyRead
    <3>6. CASE StatusAnyClear(h)
      BY <3>6 DEF StatusAnyClear
    <3> QED
      BY <2>3, <3>1, <3>2, <3>3, <3>4, <3>5, <3>6 DEF GetResult
  <2>4. ASSUME NEW h \in Handlers, StartBusyCheck(h) PROVE Inv'
    BY <2>4, ZenonT(30) DEF StartBusyCheck
  <2>5. ASSUME NEW h \in Handlers, StatusOfBusy(h) PROVE Inv'
    BY <2>5 DEF StatusOfBusy
  <2>6. ASSUME NEW h \in Handlers, StatusOfCurrent(h) PROVE Inv'
    BY <2>6, SMTT(30) DEF StatusOfCurrent
  <2>7. ASSUME NEW h \in Handlers, StatusAnyBusy(h) PROVE Inv'
    BY <2>7 DEF StatusAnyBusy
  <2>8. ASSUME NEW h \in Handlers, StatusAnyCurrent(h) PROVE Inv'
    BY <2>8 DEF StatusAnyCurrent
  <2>9. ASSUME NEW h \in Handlers, Return(h) PROVE Inv'
    BY <2>9 DEF Return
  <2>10. ASSUME NEW h \in Handlers, Request(h) PROVE Inv'
    <3>1. CASE StartRun(h)
      BY <3>1 DEF StartRun
    <3>2. CASE StatusOf(h)
      BY <3>2 DEF StatusOf
    <3>3. CASE StatusAny(h)
      BY <3>3 DEF StatusAny
    <3> QED
      BY <2>10, <3>1, <3>2, <3>3 DEF Request
  <2>11. CASE UNCHANGED vars
    BY <2>11 DEF vars
  <2> QED
    BY <2>1, <2>2, <2>3, <2>4, <2>5, <2>6, <2>7, <2>8, <2>9, <2>10, <2>11
       DEF Next, Serve
<1> QED
  BY <1>1, <1>2, PTL DEF Spec

-----------------------------------------------------------------------------
(* No accepted run is lost, repeated or overtaken by the queue.            *)

Typed == TypeOK /\ HandlersHoldIds /\ MainHoldsRun

(* Appending to the second of two sequences. *)
LEMMA ConcatAppend ==
  ASSUME NEW S, NEW s \in Seq(S), NEW t \in Seq(S), NEW x \in S
  PROVE  Append(s \o t, x) = s \o Append(t, x)
OBVIOUS

(* Moving the head of the queue into the hand of the main thread does not  *)
(* change the sequence of runs.                                            *)
LEMMA ConcatTake ==
  ASSUME NEW S, NEW s \in Seq(S), NEW q \in Seq(S), q # <<>>
  PROVE  s \o <<>> \o q = s \o <<Head(q)>> \o Tail(q)
OBVIOUS

(* Storing the result of the run in hand does not change it either.        *)
LEMMA ConcatStore ==
  ASSUME NEW S, NEW s \in Seq(S), NEW q \in Seq(S), NEW x \in S
  PROVE  s \o <<x>> \o q = Append(s, x) \o <<>> \o q
OBVIOUS

(* Ctx holds a queue of accepted ids, a current run and results of runs:   *)
(* the types of nfvbenchd.py:54-94, whatever the threads do.               *)
THEOREM ServerTyping == Spec => []TypeOK
BY Typing, PTL

(* Every accepted run is executed exactly once and in the order of         *)
(* acceptance, whatever the interleaving of the handlers with the main     *)
(* thread (nfvbenchd.py:66-94, 191-221).                                   *)
THEOREM RunsInOrder == Spec => []RunsExactlyOnceInOrder
<1>1. Init => RunsExactlyOnceInOrder
  BY DEF Init, RunsExactlyOnceInOrder, InHand
<1>2. Typed /\ RunsExactlyOnceInOrder /\ [Next]_vars => RunsExactlyOnceInOrder'
  <2> SUFFICES ASSUME Typed, RunsExactlyOnceInOrder, [Next]_vars
               PROVE  RunsExactlyOnceInOrder'
    OBVIOUS
  <2> USE DEF RunsExactlyOnceInOrder
  <2>1. CASE Dequeue
    BY <2>1, ConcatTake DEF InHand, Dequeue, Typed, TypeOK, histVars
  <2>2. CASE StoreResult
    BY <2>2, ConcatStore DEF InHand, StoreResult, Typed, TypeOK, MainHoldsRun
  <2>3. CASE \/ SetCurrent \/ RunBenchmark \/ SetResult \/ Summarize
             \/ ReleaseCurrent \/ ReleaseBusy
    BY <2>3 DEF InHand, SetCurrent, RunBenchmark, SetResult, Summarize, ReleaseCurrent,
                ReleaseBusy, histVars, ctxVars
  <2>4. ASSUME NEW h \in Handlers, EnqueuePut(h)
        PROVE  RunsExactlyOnceInOrder'
    <3>1. rid[h] \in RequestIds
      BY <2>4 DEF EnqueuePut, Typed, HandlersHoldIds
    <3>2. mainPc # "dead" => finished \o InHand \in Seq(RequestIds)
      BY DEF InHand, Typed, TypeOK, MainHoldsRun
    <3>3. /\ accepted' = Append(accepted, rid[h])
          /\ runQueue' = Append(runQueue, rid[h])
          /\ finished' = finished /\ mainPc' = mainPc /\ InHand' = InHand
      BY <2>4 DEF InHand, EnqueuePut, mainVars
    <3>4. runQueue \in Seq(RequestIds)
      BY DEF Typed, TypeOK
    <3>5. mainPc # "dead" => Append(finished \o InHand \o runQueue, rid[h])
                               = finished \o InHand \o Append(runQueue, rid[h])
      <4> DEFINE done == finished \o InHand
      <4> SUFFICES ASSUME mainPc # "dead"
                   PROVE  Append(done \o runQueue, rid[h])
                            = done \o Append(runQueue, rid[h])
        OBVIOUS
      <4>1. done \in Seq(RequestIds)
        BY <3>2
      <4> HIDE DEF done
      <4> QED
        BY <3>1, <3>4, <4>1, ConcatAppend, SMTT(30)
    <3> QED
      BY <3>3, <3>5
  <2>5. CASE UNCHANGED <<runQueue, accepted, finished, mainVars>>
    BY <2>5 DEF InHand, mainVars
  <2>6. ASSUME NEW h \in Handlers, Serve(h) \/ Request(h)
        PROVE  RunsExactlyOnceInOrder'
    <3>1. CASE EnqueuePut(h)
      BY <3>1, <2>4
    <3>2. CASE ~EnqueuePut(h)
      BY <2>5, <2>6, <3>2
         DEF Serve, Request, Enqueue, GetResult, StartBusyCheck, EnqueueSetBusy,
             EnqueueRaises, EnqueueLenCheck, EnqueuePop, EnqueueEvict, EnqueueAppend,
             StatusOfBusy, StatusOfCurrent, StatusOfLookup, StatusOfLatest,
             StatusOfSame, StatusOfClear, StatusAnyBusy, StatusAnyCurrent,
             StatusAnyRead, StatusAnyClear, Return, StartRun, StatusOf,
             StatusAny, ctxVars, histVars
    <3> QED
      BY <3>1, <3>2
  <2> QED
    BY <2>1, <2>2, <2>3, <2>5, <2>6 DEF Next, Main, vars, ctxVars, histVars
<1> QED
  BY <1>1, <1>2, Typing, PTL DEF Spec, Typed

-----------------------------------------------------------------------------
(* With one client at a time, the server is the documented service.        *)

(* What an appended sequence holds. *)
LEMMA RangeAppend ==
  ASSUME NEW S, NEW s \in Seq(S), NEW x \in S
  PROVE  Range(Append(s, x)) = Range(s) \cup {x}
<1>1. \A i \in 1..Len(s) : Append(s, x)[i] = s[i]
  OBVIOUS
<1>2. Append(s, x)[Len(s) + 1] = x /\ Len(Append(s, x)) = Len(s) + 1
  OBVIOUS
<1>3. DOMAIN s = 1..Len(s) /\ DOMAIN Append(s, x) = 1..(Len(s) + 1)
  OBVIOUS
<1>4. Range(s) \cup {x} \subseteq Range(Append(s, x))
  BY <1>1, <1>2, <1>3 DEF Range
<1>5. Range(Append(s, x)) \subseteq Range(s) \cup {x}
  <2> SUFFICES ASSUME NEW i \in 1..(Len(s) + 1)
               PROVE  Append(s, x)[i] \in Range(s) \cup {x}
    BY <1>3 DEF Range
  <2>1. CASE i = Len(s) + 1
    BY <2>1, <1>2
  <2>2. CASE i # Len(s) + 1
    BY <2>2, <1>1, <1>3 DEF Range
  <2> QED
    BY <2>1, <2>2
<1> QED
  BY <1>4, <1>5

(* At most one run is on its way through the server, and only a busy       *)
(* server has one: the handler that found the server free is alone until   *)
(* it has queued its run.                                                  *)
OneRunAtATime ==
  /\ FreeMeansIdle
  /\ mainPc # "get" => runQueue = <<>>
  /\ runQueue # <<>> => Len(runQueue) = 1
  /\ \A h \in Handlers :
       /\ pc[h] = "setBusy" => ~busy
       /\ pc[h] = "put" => busy /\ runQueue = <<>> /\ mainPc = "get"
       /\ pc[h] \in {"busyCheck", "setBusy", "put"} => rid[h] \notin Range(accepted)
  /\ Range(runQueue) \subseteq Range(accepted)
  /\ config # NoId => config \in Range(accepted)

(* With one request at a time, one run is pending at most. *)
LEMMA OneRunAtATimeInvariant ==
  ASSUME OneClientAtATime
  PROVE  Spec => []OneRunAtATime
<1>1. Init => OneRunAtATime
  BY DEF Init, OneRunAtATime, FreeMeansIdle, Range
<1>2. Typed /\ OneRunAtATime /\ [Next]_vars => OneRunAtATime'
  <2> SUFFICES ASSUME Typed, OneRunAtATime, [Next]_vars PROVE OneRunAtATime'
    OBVIOUS
  <2> USE DEF OneRunAtATime, FreeMeansIdle, Typed, TypeOK, ctxVars, mainVars,
              handVars, histVars, Goto, Answer
  <2>1. CASE Dequeue
    <3>1. Head(runQueue) \in Range(runQueue) /\ Tail(runQueue) = <<>>
      BY <2>1, SMTT(30) DEF Dequeue, Range
    <3>2. Range(<<>>) = {}
      BY DEF Range
    <3> QED
      BY <2>1, <3>1, <3>2 DEF Dequeue
  <2>2. CASE SetCurrent \/ RunBenchmark \/ StoreResult \/ SetResult \/ Summarize
             \/ ReleaseCurrent
    BY <2>2 DEF SetCurrent, RunBenchmark, StoreResult, SetResult, Summarize,
                ReleaseCurrent
  <2>3. CASE ReleaseBusy
    BY <2>3 DEF ReleaseBusy
  <2>4. ASSUME NEW h \in Handlers, EnqueuePut(h) PROVE OneRunAtATime'
    <3>1. runQueue = <<>> /\ mainPc = "get" /\ rid[h] \in RequestIds
      BY <2>4 DEF EnqueuePut, HandlersHoldIds
    <3>2. runQueue' = <<rid[h]>>
      BY <2>4, <3>1 DEF EnqueuePut
    <3>3. Range(accepted') = Range(accepted) \cup {rid[h]}
      BY <2>4, <3>1, RangeAppend DEF EnqueuePut
    <3>4. Range(<<rid[h]>>) = {rid[h]}
      BY DEF Range
    <3>5. \A g \in Handlers : pc'[g] = "evict"
      BY <2>4, OneClientAtATime DEF EnqueuePut, OneClientAtATime
    <3>6. busy' /\ config' = NoId /\ mainPc' = "get"
      BY <2>4, <3>1 DEF EnqueuePut, MainHoldsRun
    <3> QED
      BY <3>2, <3>3, <3>4, <3>5, <3>6
  <2>5. ASSUME NEW h \in Handlers, EnqueueSetBusy(h) PROVE OneRunAtATime'
    BY <2>5, OneClientAtATime DEF EnqueueSetBusy, OneClientAtATime
  <2>6. ASSUME NEW h \in Handlers, StartBusyCheck(h) PROVE OneRunAtATime'
    BY <2>6 DEF StartBusyCheck
  <2>7. ASSUME NEW h \in Handlers, StartRun(h) PROVE OneRunAtATime'
    BY <2>7 DEF StartRun
  <2>8. ASSUME NEW h \in Handlers,
               \/ EnqueueRaises(h) \/ EnqueueLenCheck(h) \/ EnqueuePop(h)
               \/ EnqueueEvict(h) \/ EnqueueAppend(h) \/ Return(h)
        PROVE  OneRunAtATime'
    BY <2>8 DEF EnqueueRaises, EnqueueLenCheck, EnqueuePop, EnqueueEvict,
                EnqueueAppend, Return
  <2>9. ASSUME NEW h \in Handlers,
               \/ GetResult(h) \/ StatusOfBusy(h) \/ StatusOfCurrent(h)
               \/ StatusAnyBusy(h) \/ StatusAnyCurrent(h)
               \/ StatusOf(h) \/ StatusAny(h)
        PROVE  OneRunAtATime'
    <3>1. /\ UNCHANGED <<runQueue, busy, mainPc, config, accepted>>
          /\ \A g \in Handlers :
               \/ pc'[g] = pc[g] /\ rid'[g] = rid[g]
               \/ pc'[g] \notin {"busyCheck", "setBusy", "put"}
      BY <2>9 DEF GetResult, StatusOfBusy, StatusOfCurrent, StatusOfLookup,
         StatusOfLatest, StatusOfSame, StatusOfClear, StatusAnyBusy,
         StatusAnyCurrent, StatusAnyRead, StatusAnyClear, StatusOf, StatusAny
    <3>2. FreeMeansIdle' /\ (mainPc' # "get" => runQueue' = <<>>)
      BY <3>1
    <3>3. \A g \in Handlers :
            /\ pc'[g] = "setBusy" => ~busy'
            /\ pc'[g] = "put" => busy' /\ runQueue' = <<>> /\ mainPc' = "get"
            /\ pc'[g] \in {"busyCheck", "setBusy", "put"}
                 => rid'[g] \notin Range(accepted')
      <4> TAKE g \in Handlers
      <4>1. CASE pc'[g] = pc[g] /\ rid'[g] = rid[g]
        BY <3>1, <4>1
      <4>2. CASE pc'[g] \notin {"busyCheck", "setBusy", "put"}
        BY <4>2
      <4> QED
        BY <3>1, <4>1, <4>2
    <3> QED
      BY <3>1, <3>2, <3>3
  <2>10. CASE UNCHANGED vars
    BY <2>10 DEF vars
  <2> QED
    BY <2>1, <2>2, <2>3, <2>4, <2>5, <2>6, <2>7, <2>8, <2>9, <2>10
       DEF Next, Main, Serve, Request, Enqueue
<1> QED
  BY <1>1, <1>2, Typing, PTL DEF Spec, Typed

(* With one client at a time, a server that says it is free has nothing    *)
(* queued and nothing running (nfvbenchd.py:66-70, 85-88, 140).            *)
THEOREM FreeServerIsIdle ==
  ASSUME OneClientAtATime
  PROVE  Spec => []FreeMeansIdle
<1>1. OneRunAtATime => FreeMeansIdle
  BY DEF OneRunAtATime
<1> QED
  BY <1>1, OneRunAtATimeInvariant, PTL

(* With one client at a time, a server whose main thread died refuses      *)
(* every later run and has none left in its queue.                         *)
THEOREM DeadServerStaysBusy ==
  ASSUME OneClientAtATime
  PROVE  Spec => []DeadServerRefuses
<1>1. Typed /\ OneRunAtATime => DeadServerRefuses
  BY DEF Typed, TypeOK, OneRunAtATime, FreeMeansIdle, DeadServerRefuses
<1> QED
  BY <1>1, OneRunAtATimeInvariant, Typing, PTL DEF Typed

(* A step that changes neither the accepted runs nor which of them are     *)
(* still on their way leaves the documented service where it is.           *)
LEMMA ServiceStutters ==
  ASSUME UNCHANGED <<accepted, runQueue, config>>
  PROVE  UNCHANGED [id \in RequestIds |-> StatusOfRun(id)]
BY DEF StatusOfRun

(* With one client at a time, the server implements the service its user   *)
(* documentation describes (docs/user/server.rst:28-86).                   *)
THEOREM ServerImplementsRunService ==
  ASSUME OneClientAtATime
  PROVE  Spec => ImplementsRunService
<1> DEFINE status == [id \in RequestIds |-> StatusOfRun(id)]
<1>1. Init => Service!Init
  BY DEF Init, Service!Init, StatusOfRun, Range
<1>2. Typed /\ OneRunAtATime /\ [Next]_vars => [Service!Next]_status
  <2> SUFFICES ASSUME Typed, OneRunAtATime, [Next]_vars
               PROVE  [Service!Next]_status
    OBVIOUS
  <2> USE DEF Typed, TypeOK, OneRunAtATime, FreeMeansIdle
  <2>1. CASE Dequeue
    <3>1. Range(runQueue) = {config'} /\ Range(runQueue') = {}
      <4>1. Len(runQueue) = 1 /\ config' = runQueue[1] /\ runQueue' = <<>>
        BY <2>1 DEF Dequeue
      <4>2. DOMAIN runQueue = {1}
        BY <4>1
      <4> QED
        BY <4>1, <4>2 DEF Range
    <3>2. config = NoId /\ accepted' = accepted
      BY <2>1 DEF Dequeue, histVars, MainHoldsRun
    <3>3. \A id \in RequestIds : StatusOfRun(id)' = StatusOfRun(id)
      BY <3>1, <3>2, ServerAssumption DEF StatusOfRun
    <3>4. status' = status
      BY <3>3
    <3> QED
      BY <3>4
  <2>2. CASE ReleaseBusy
    <3>1. config \in RequestIds /\ config' = NoId
      BY <2>2 DEF ReleaseBusy, MainHoldsRun
    <3>2. Range(runQueue) = {} /\ UNCHANGED <<accepted, runQueue>>
      BY <2>2 DEF ReleaseBusy, histVars, Range
    <3>3. config \in Range(accepted)
      BY <3>1, ServerAssumption
    <3>4. status[config] = "pending"
      BY <3>1, <3>3 DEF StatusOfRun
    <3>5. status' = [status EXCEPT ![config] = "completed"]
      BY <3>1, <3>2, <3>3, ServerAssumption DEF StatusOfRun
    <3>6. Service!Complete(config)
      BY <3>4, <3>5 DEF Service!Complete
    <3> QED
      BY <3>1, <3>6 DEF Service!Next
  <2>3. ASSUME NEW h \in Handlers, EnqueuePut(h)
        PROVE  [Service!Next]_status
    <3>1. /\ runQueue = <<>> /\ config = NoId /\ config' = NoId
          /\ rid[h] \in RequestIds /\ rid[h] \notin Range(accepted)
          /\ Range(runQueue) = {}
      BY <2>3 DEF EnqueuePut, HandlersHoldIds, MainHoldsRun, mainVars, Range
    <3>2. runQueue' = <<rid[h]>>
      BY <2>3, <3>1 DEF EnqueuePut
    <3>3. Range(runQueue') = {rid[h]}
      BY <3>2 DEF Range
    <3>4. Range(accepted') = Range(accepted) \cup {rid[h]}
      BY <2>3, <3>1, RangeAppend DEF EnqueuePut
    <3>5. status[rid[h]] = "new"
      BY <3>1 DEF StatusOfRun
    <3>6. \A id \in RequestIds : status[id] # "pending"
      BY <3>1, ServerAssumption DEF StatusOfRun
    <3>7. status' = [status EXCEPT ![rid[h]] = "pending"]
      BY <3>1, <3>3, <3>4, ServerAssumption DEF StatusOfRun
    <3>8. Service!Submit(rid[h])
      BY <3>5, <3>6, <3>7 DEF Service!Submit
    <3> QED
      BY <3>1, <3>8 DEF Service!Next
  <2>4. CASE UNCHANGED <<accepted, runQueue, config>>
    BY <2>4, ServiceStutters
  <2>5. CASE Main
    <3>1. CASE Dequeue \/ ReleaseBusy
      BY <3>1, <2>1, <2>2
    <3>2. CASE ~(Dequeue \/ ReleaseBusy)
      BY <2>4, <2>5, <3>2 DEF Main, SetCurrent, RunBenchmark, StoreResult,
         SetResult, Summarize, ReleaseCurrent, ctxVars, histVars
    <3> QED
      BY <3>1, <3>2
  <2>6. ASSUME NEW h \in Handlers, Serve(h) \/ Request(h)
        PROVE  [Service!Next]_status
    <3>1. CASE EnqueuePut(h)
      BY <3>1, <2>3
    <3>2. CASE ~EnqueuePut(h)
      BY <2>4, <2>6, <3>2
         DEF Serve, Request, Enqueue, GetResult, StartBusyCheck, EnqueueSetBusy,
             EnqueueRaises, EnqueueLenCheck, EnqueuePop, EnqueueEvict, EnqueueAppend,
             StatusOfBusy, StatusOfCurrent, StatusOfLookup, StatusOfLatest,
             StatusOfSame, StatusOfClear, StatusAnyBusy, StatusAnyCurrent,
             StatusAnyRead, StatusAnyClear, Return, StartRun, StatusOf,
             StatusAny, ctxVars, mainVars, histVars
    <3> QED
      BY <3>1, <3>2
  <2> QED
    BY <2>4, <2>5, <2>6 DEF Next, vars, ctxVars, mainVars, histVars
<1> QED
  BY <1>1, <1>2, OneRunAtATimeInvariant, Typing, PTL
     DEF Spec, Typed, ImplementsRunService, Service!Spec

-----------------------------------------------------------------------------
(* Only results of finished runs are handed out, however the polls         *)
(* interleave with each other and with the main thread.                    *)

(* A handler between its lookup and its answer has the result of a         *)
(* finished run, the one whose result the main thread has stored but not   *)
(* yet made the latest is finished, and an answer is only held at the end. *)
ResultsAreReal ==
  /\ ResultIsOfFinishedRun
  /\ mainPc = "setResult" => currentId \in Range(finished)
  /\ \A h \in Handlers :
       /\ pc[h] \in {"idLatest", "idSame", "idClear", "anyClear"}
            => loc[h] \in Range(finished)
       /\ reply[h] = "result" => pc[h] = "answer"

(* Every step keeps results those of finished runs. *)
LEMMA ResultsStep == Typed /\ ResultsAreReal /\ [Next]_vars => ResultsAreReal'
<1> SUFFICES ASSUME Typed, ResultsAreReal, [Next]_vars PROVE ResultsAreReal'
  OBVIOUS
<1> USE DEF ResultsAreReal, ResultIsOfFinishedRun, Typed, TypeOK, ctxVars, mainVars,
            handVars, histVars, Goto, Answer
<1>1. CASE StoreResult
  <2>1. currentId \in RequestIds
    BY <1>1 DEF StoreResult, MainHoldsRun
  <2>2. Range(finished') = Range(finished) \cup {currentId}
    BY <1>1, <2>1, RangeAppend DEF StoreResult
  <2> QED
    BY <1>1, <2>2 DEF StoreResult
<1>2. CASE SetResult
  BY <1>2 DEF SetResult
<1>3. CASE Dequeue \/ SetCurrent \/ RunBenchmark \/ Summarize \/ ReleaseCurrent \/ ReleaseBusy
  BY <1>3 DEF Dequeue, SetCurrent, RunBenchmark, Summarize, ReleaseCurrent, ReleaseBusy
<1>4. ASSUME NEW h \in Handlers, Enqueue(h) PROVE ResultsAreReal'
  <2>1. UNCHANGED <<result, finished, mainPc, currentId>> /\ results' \subseteq results
    BY <1>4 DEF Enqueue, EnqueueSetBusy, EnqueuePut, EnqueueRaises,
                EnqueueLenCheck, EnqueuePop, EnqueueEvict, EnqueueAppend
  <2>2. /\ pc[h] \in {"setBusy", "put", "evict", "popped", "append"}
        /\ pc'[h] \in {"put", "evict", "popped", "append", "answer"}
        /\ reply'[h] \in {reply[h], "accepted", "serverError", "badBody"}
    BY <1>4 DEF Enqueue, EnqueueSetBusy, EnqueuePut, EnqueueRaises,
                EnqueueLenCheck, EnqueuePop, EnqueueEvict, EnqueueAppend
  <2>3. \A k \in Handlers \ {h} : pc'[k] = pc[k] /\ reply'[k] = reply[k] /\ loc'[k] = loc[k]
    BY <1>4 DEF Enqueue, EnqueueSetBusy, EnqueuePut, EnqueueRaises,
                EnqueueLenCheck, EnqueuePop, EnqueueEvict, EnqueueAppend
  <2>4. reply'[h] # "result"
    BY <2>2
  <2> QED
    BY <2>1, <2>2, <2>3, <2>4
<1>5. ASSUME NEW h \in Handlers, GetResult(h) PROVE ResultsAreReal'
  <2>1. CASE StatusOfLookup(h)
    BY <2>1 DEF StatusOfLookup
  <2>2. CASE StatusOfLatest(h)
    BY <2>2 DEF StatusOfLatest
  <2>3. CASE StatusOfSame(h)
    BY <2>3 DEF StatusOfSame
  <2>4. CASE StatusOfClear(h)
    BY <2>4 DEF StatusOfClear
  <2>5. CASE StatusAnyRead(h)
    BY <2>5 DEF StatusAnyRead
  <2>6. CASE StatusAnyClear(h)
    BY <2>6 DEF StatusAnyClear
  <2> QED
    BY <1>5, <2>1, <2>2, <2>3, <2>4, <2>5, <2>6 DEF GetResult
<1>6. ASSUME NEW h \in Handlers, StartBusyCheck(h) PROVE ResultsAreReal'
  BY <1>6 DEF StartBusyCheck
<1>7. ASSUME NEW h \in Handlers, StatusOfBusy(h) \/ StatusOfCurrent(h) PROVE ResultsAreReal'
  BY <1>7 DEF StatusOfBusy, StatusOfCurrent
<1>8. ASSUME NEW h \in Handlers, StatusAnyBusy(h) \/ StatusAnyCurrent(h) PROVE ResultsAreReal'
  BY <1>8 DEF StatusAnyBusy, StatusAnyCurrent
<1>9. ASSUME NEW h \in Handlers, Return(h) PROVE ResultsAreReal'
  BY <1>9 DEF Return
<1>10. ASSUME NEW h \in Handlers, Request(h) PROVE ResultsAreReal'
  BY <1>10 DEF Request, StartRun, StatusOf, StatusAny
<1>11. CASE UNCHANGED vars
  BY <1>11 DEF vars
<1> QED
  BY <1>1, <1>2, <1>3, <1>4, <1>5, <1>6, <1>7, <1>8, <1>9, <1>10, <1>11
     DEF Next, Main, Serve

(* A poll, with an id or without, is never answered with anything but the  *)
(* result of a run that finished (nfvbenchd.py:90-113, 146-156).           *)
THEOREM ResultsOfFinishedRuns == Spec => []ResultIsOfFinishedRun
<1>1. Init => ResultsAreReal
  BY DEF Init, ResultsAreReal, ResultIsOfFinishedRun, Range
<1>2. ResultsAreReal => ResultIsOfFinishedRun
  BY DEF ResultsAreReal
<1> QED
  BY <1>1, <1>2, ResultsStep, Typing, PTL DEF Spec, Typed

-----------------------------------------------------------------------------
(* One client at a time: the results of the server stay within MAXLEN.     *)

(* A sequence holds its head and what its tail holds. *)
LEMMA RangeTail ==
  ASSUME NEW S, NEW s \in Seq(S), s # <<>>
  PROVE  Range(s) = {Head(s)} \cup Range(Tail(s))
<1> DEFINE t == Tail(s)
<1>1. /\ DOMAIN s = 1..Len(s) /\ Len(s) \in Nat \ {0}
      /\ DOMAIN t = 1..(Len(s) - 1)
      /\ \A i \in 1..(Len(s) - 1) : t[i] = s[i + 1]
  BY HeadTailProperties
<1>2. Range(s) \subseteq {Head(s)} \cup Range(t)
  <2> SUFFICES ASSUME NEW i \in 1..Len(s) PROVE s[i] \in {Head(s)} \cup Range(t)
    BY <1>1 DEF Range
  <2>1. CASE i = 1
    BY <2>1
  <2>2. CASE i # 1
    <3>1. i - 1 \in 1..(Len(s) - 1) /\ t[i - 1] = s[i]
      BY <1>1, <2>2
    <3> HIDE DEF t
    <3> QED
      BY <1>1, <3>1 DEF Range
  <2> QED
    BY <2>1, <2>2
<1>3. Head(s) \in Range(s)
  BY <1>1 DEF Range
<1>4. Range(t) \subseteq Range(s)
  <2> SUFFICES ASSUME NEW i \in 1..(Len(s) - 1) PROVE t[i] \in Range(s)
    BY <1>1 DEF Range
  <2>1. i + 1 \in 1..Len(s) /\ t[i] = s[i + 1]
    BY <1>1
  <2> HIDE DEF t
  <2> QED
    BY <1>1, <2>1 DEF Range
<1> QED
  BY <1>2, <1>3, <1>4

(* A sequence has no more different elements than places. *)
LEMMA RangeIsBounded ==
  ASSUME NEW S, NEW s \in Seq(S)
  PROVE  IsFiniteSet(Range(s)) /\ Cardinality(Range(s)) <= Len(s)
<1>1. s \in Surjection(1..Len(s), Range(s))
  BY DEF Surjection, Range
<1>2. IsFiniteSet(1..Len(s)) /\ Cardinality(1..Len(s)) = Len(s)
  <2>1. 1 \in Int /\ Len(s) \in Int /\ Len(s) >= 0
    OBVIOUS
  <2> QED
    BY <2>1, FS_Interval, SMTT(30)
<1>3. Cardinality(Range(s)) <= Cardinality(1..Len(s)) /\ IsFiniteSet(Range(s))
  BY <1>1, <1>2, FS_Surjection
<1> QED
  BY <1>2, <1>3

(* Where a start_run stands whose run is queued and not yet in Ctx.ids.    *)
Enlisting == {"evict", "popped", "append"}

(* Every run that has a result or will have one is in Ctx.ids, or a        *)
(* handler is about to put it there, or to drop its result; that handler   *)
(* has made room first, and its run is the only one on its way.            *)
ResultsAreListed ==
  /\ Len(ids) <= MaxLen
  /\ \A h \in Handlers :
       /\ pc[h] \in {"idle", "busyCheck", "setBusy", "put", "evict", "append"}
            => loc[h] = NoId
       /\ pc[h] = "popped" => (IF loc[h] = NoId THEN ids # <<>> ELSE Len(ids) < MaxLen)
       /\ pc[h] = "append" => Len(ids) < MaxLen
       /\ pc[h] \in Enlisting => Range(runQueue) \cup {config} \subseteq {rid[h], NoId}
  /\ \A id \in Range(runQueue) \cup {config} :
       \/ id = NoId
       \/ id \in Range(ids)
       \/ \E h \in Handlers : pc[h] \in Enlisting /\ id = rid[h]
  /\ \A id \in results :
       \/ id \in Range(ids)
       \/ \E h \in Handlers : pc[h] \in Enlisting /\ id \in {rid[h], loc[h]}

(* Every step keeps results listed in Ctx.ids. *)
LEMMA ListedStep ==
  ASSUME OneClientAtATime
  PROVE  Typed /\ OneRunAtATime /\ ResultsAreListed /\ [Next]_vars => ResultsAreListed'
<1> SUFFICES ASSUME Typed, OneRunAtATime, ResultsAreListed, [Next]_vars
             PROVE  ResultsAreListed'
  OBVIOUS
<1> USE DEF ResultsAreListed, Typed, TypeOK, Enlisting, ctxVars, mainVars, handVars,
            histVars, Goto, Answer
<1>1. CASE Dequeue
  <2>1. Head(runQueue) \in Range(runQueue) /\ Range(runQueue') \subseteq Range(runQueue)
    BY <1>1, RangeTail DEF Dequeue
  <2> QED
    BY <1>1, <2>1 DEF Dequeue
<1>2. CASE StoreResult
  <2>1. currentId = config /\ config \in RequestIds
    BY <1>2 DEF StoreResult, MainHoldsRun
  <2> QED
    BY <1>2, <2>1, ServerAssumption, SMTT(30) DEF StoreResult
<1>3. CASE ReleaseBusy
  BY <1>3 DEF ReleaseBusy
<1>4. CASE SetCurrent \/ RunBenchmark \/ SetResult \/ Summarize \/ ReleaseCurrent
  BY <1>4 DEF SetCurrent, RunBenchmark, SetResult, Summarize, ReleaseCurrent
<1>5. ASSUME NEW h \in Handlers, EnqueueSetBusy(h) PROVE ResultsAreListed'
  BY <1>5, ZenonT(30) DEF EnqueueSetBusy
<1>6. ASSUME NEW h \in Handlers, EnqueuePut(h) PROVE ResultsAreListed'
  <2>1. runQueue = <<>> /\ config = NoId /\ rid[h] \in RequestIds
    BY <1>6 DEF EnqueuePut, OneRunAtATime, MainHoldsRun, HandlersHoldIds
  <2>2. runQueue' = <<rid[h]>> /\ config' = NoId
    BY <1>6, <2>1 DEF EnqueuePut
  <2>3. Range(runQueue') = {rid[h]}
    BY <2>2 DEF Range
  <2>4. \A g \in Handlers : g = h /\ pc'[g] = "evict" /\ pc[g] = "put"
    BY <1>6, OneClientAtATime DEF EnqueuePut, OneClientAtATime
  <2>5. \A id \in results : id \in Range(ids)
    BY <2>4
  <2> QED
    BY <1>6, <2>2, <2>3, <2>4, <2>5 DEF EnqueuePut
<1>7. ASSUME NEW h \in Handlers, EnqueueLenCheck(h) PROVE ResultsAreListed'
  <2>1. \A g \in Handlers : g = h
    BY OneClientAtATime DEF OneClientAtATime
  <2>2. Len(ids) >= MaxLen => ids # <<>>
    BY ServerAssumption
  <2> QED
    BY <1>7, <2>1, <2>2, ServerAssumption DEF EnqueueLenCheck
<1>8. ASSUME NEW h \in Handlers, EnqueuePop(h) PROVE ResultsAreListed'
  <2>1. \A g \in Handlers : g = h
    BY OneClientAtATime DEF OneClientAtATime
  <2>2. ids # <<>> /\ ids' = Tail(ids) /\ loc' = [loc EXCEPT ![h] = Head(ids)]
    BY <1>8 DEF EnqueuePop
  <2>3. Range(ids) = {Head(ids)} \cup Range(ids')
    BY <2>2, RangeTail
  <2>4. Len(ids') < MaxLen /\ Head(ids) \in RequestIds
    BY <2>2, ServerAssumption, HeadTailProperties
  <2>5. UNCHANGED <<pc, rid, runQueue, config, results>> /\ pc[h] = "popped" /\ loc[h] = NoId
    BY <1>8, <2>2 DEF EnqueuePop
  <2>6. loc'[h] = Head(ids) /\ loc'[h] # NoId
    BY <2>2, <2>4, ServerAssumption
  <2>7. \A id \in Range(runQueue) \cup {config} : id \in {rid[h], NoId}
    BY <2>5
  <2>8. \A id \in results : id \in Range(ids') \/ id \in {rid[h], loc'[h]}
    BY <2>1, <2>3, <2>5, <2>6, ServerAssumption
  <2>9. Len(ids') <= MaxLen
    BY <1>8, <2>2, <2>4, ServerAssumption, HeadTailProperties
  <2> QED
    BY <2>1, <2>4, <2>5, <2>6, <2>7, <2>8, <2>9
<1>9. ASSUME NEW h \in Handlers, EnqueueEvict(h) PROVE ResultsAreListed'
  <2>1. \A g \in Handlers : g = h
    BY OneClientAtATime DEF OneClientAtATime
  <2>2. /\ pc[h] = "popped" /\ pc'[h] = "append" /\ loc'[h] = NoId /\ rid' = rid
        /\ Len(ids) < MaxLen /\ UNCHANGED <<ids, runQueue, config>>
    BY <1>9 DEF EnqueueEvict
  <2>3. \A id \in results' : id \in Range(ids) \/ id = rid[h]
    BY <1>9, <2>1 DEF EnqueueEvict
  <2>4. Range(runQueue) \cup {config} \subseteq {rid[h], NoId}
    BY <2>2
  <2> QED
    BY <2>1, <2>2, <2>3, <2>4, ServerAssumption
<1>10. ASSUME NEW h \in Handlers, EnqueueAppend(h) PROVE ResultsAreListed'
  <2>1. \A g \in Handlers : g = h
    BY OneClientAtATime DEF OneClientAtATime
  <2>2. rid[h] \in RequestIds /\ loc[h] = NoId /\ Len(ids) < MaxLen
    BY <1>10 DEF EnqueueAppend, HandlersHoldIds
  <2>3. Range(ids') = Range(ids) \cup {rid[h]} /\ Len(ids') = Len(ids) + 1
    BY <1>10, <2>2, RangeAppend DEF EnqueueAppend
  <2>4. \A id \in results : id \in Range(ids')
    BY <2>1, <2>2, <2>3, ServerAssumption
  <2>5. \A id \in Range(runQueue) \cup {config} : id = NoId \/ id \in Range(ids')
    BY <2>1, <2>3
  <2>6. Len(ids') <= MaxLen
    BY <2>2, <2>3, ServerAssumption
  <2>7. /\ pc'[h] = "answer" /\ UNCHANGED <<results, runQueue, config>>
    BY <1>10 DEF EnqueueAppend
  <2> QED
    BY <2>1, <2>4, <2>5, <2>6, <2>7
<1>11. ASSUME NEW h \in Handlers,
              \/ GetResult(h) \/ StatusOfBusy(h) \/ StatusOfCurrent(h)
              \/ StatusAnyBusy(h) \/ StatusAnyCurrent(h) \/ StatusOf(h) \/ StatusAny(h)
              \/ StartBusyCheck(h) \/ StartRun(h) \/ Return(h) \/ EnqueueRaises(h)
       PROVE  ResultsAreListed'
  <2>1. UNCHANGED <<ids, results, runQueue, config>>
    BY <1>11 DEF GetResult, StatusOfBusy, StatusOfCurrent, StatusOfLookup, StatusOfLatest,
       StatusOfSame, StatusOfClear, StatusAnyBusy, StatusAnyCurrent, StatusAnyRead,
       StatusAnyClear, StatusOf, StatusAny, StartBusyCheck, StartRun, Return, EnqueueRaises
  <2>2. \A g \in Handlers :
          /\ pc[g] \in Enlisting \/ pc'[g] \in Enlisting
               => pc'[g] = pc[g] /\ rid'[g] = rid[g] /\ loc'[g] = loc[g]
          /\ pc'[g] \in {"idle", "busyCheck", "setBusy", "put"} => loc'[g] = NoId
    BY <1>11 DEF GetResult, StatusOfBusy, StatusOfCurrent, StatusOfLookup, StatusOfLatest,
       StatusOfSame, StatusOfClear, StatusAnyBusy, StatusAnyCurrent, StatusAnyRead,
       StatusAnyClear, StatusOf, StatusAny, StartBusyCheck, StartRun, Return, EnqueueRaises
  <2>3. \A g \in Handlers :
          /\ pc'[g] \in {"idle", "busyCheck", "setBusy", "put", "evict", "append"}
               => loc'[g] = NoId
          /\ pc'[g] = "popped" =>
               (IF loc'[g] = NoId THEN ids' # <<>> ELSE Len(ids') < MaxLen)
          /\ pc'[g] = "append" => Len(ids') < MaxLen
    <3> TAKE g \in Handlers
    <3>1. CASE pc'[g] \in Enlisting
      BY <2>1, <2>2, <3>1
    <3>2. CASE pc'[g] \notin Enlisting
      BY <2>2, <3>2
    <3> QED
      BY <3>1, <3>2
  <2>4. \A g \in Handlers :
          pc'[g] \in Enlisting
            => Range(runQueue') \cup {config'} \subseteq {rid'[g], NoId}
    BY <2>1, <2>2
  <2>5. \A id \in Range(runQueue') \cup {config'} :
          \/ id = NoId
          \/ id \in Range(ids')
          \/ \E g \in Handlers : pc'[g] \in Enlisting /\ id = rid'[g]
    BY <2>1, <2>2
  <2>6. \A id \in results' :
          \/ id \in Range(ids')
          \/ \E g \in Handlers : pc'[g] \in Enlisting /\ id \in {rid'[g], loc'[g]}
    BY <2>1, <2>2
  <2>7. Len(ids') <= MaxLen
    BY <2>1
  <2> QED
    BY <2>3, <2>4, <2>5, <2>6, <2>7
<1>12. CASE UNCHANGED vars
  BY <1>12 DEF vars
<1> QED
  BY <1>1, <1>2, <1>3, <1>4, <1>5, <1>6, <1>7, <1>8, <1>9, <1>10, <1>11, <1>12
     DEF Next, Main, Serve, Request, Enqueue

(* With one client at a time, the server never keeps more than MAXLEN      *)
(* results once its requests are answered (nfvbenchd.py:58, 72-78).        *)
THEOREM ResultsStayBounded ==
  ASSUME OneClientAtATime
  PROVE  Spec => []ResultsBounded
<1>1. Init => ResultsAreListed
  <2> SUFFICES ASSUME Init PROVE ResultsAreListed
    OBVIOUS
  <2>1. Range(runQueue) = {} /\ config = NoId
    BY DEF Init, Range
  <2>2. Len(ids) <= MaxLen
    BY ServerAssumption DEF Init
  <2> QED
    BY <2>1, <2>2 DEF Init, ResultsAreListed, Enlisting
<1>2. Typed /\ ResultsAreListed => ResultsBounded
  <2> SUFFICES ASSUME Typed, ResultsAreListed, \A h \in Handlers : pc[h] = "idle"
               PROVE  Cardinality(results) <= MaxLen
    BY DEF ResultsBounded
  <2>1. results \subseteq Range(ids)
    BY DEF ResultsAreListed, Enlisting
  <2>2. ids \in Seq(RequestIds)
    BY DEF Typed, TypeOK
  <2>3. IsFiniteSet(Range(ids)) /\ Cardinality(Range(ids)) <= Len(ids)
    BY <2>2, RangeIsBounded
  <2>4. Cardinality(results) <= Cardinality(Range(ids)) /\ IsFiniteSet(results)
    BY <2>1, <2>3, FS_Subset
  <2>5. /\ Cardinality(results) \in Nat /\ Cardinality(Range(ids)) \in Nat
        /\ Len(ids) \in Nat /\ Len(ids) <= MaxLen
    BY <2>2, <2>3, <2>4, FS_CardinalityType DEF ResultsAreListed
  <2> QED
    BY <2>3, <2>4, <2>5, ServerAssumption
<1> QED
  BY <1>1, <1>2, ListedStep, OneRunAtATimeInvariant, Typing, PTL DEF Spec, Typed

-----------------------------------------------------------------------------
(* A poll by id is told "not found" only for a run that has no result or   *)
(* whose id was dropped, whatever the interleaving of evictions.           *)

Starting == {"busyCheck", "setBusy", "put"} \cup Enlisting

(* Ids are fresh: a run is in Ctx.ids at most once, an id that is about to *)
(* be added is in it under no other request, and an id that was taken out  *)
(* of it does not come back.                                               *)
IdsAreFresh ==
  /\ Range(ids) \cup Range(runQueue) \cup Range(finished) \subseteq Range(accepted)
  /\ config # NoId => config \in Range(accepted)
  /\ \A i, j \in 1..Len(ids) : ids[i] = ids[j] => i = j
  /\ \A h \in Handlers :
       /\ pc[h] \in {"idle", "busyCheck", "setBusy", "put", "evict", "append"}
            => loc[h] = NoId
       /\ pc[h] \in {"busyCheck", "setBusy", "put"} => rid[h] \notin Range(accepted)
       /\ pc[h] \in Enlisting => rid[h] \in Range(accepted) \ Range(ids)
       /\ pc[h] = "popped" /\ loc[h] # NoId => loc[h] \in Range(accepted) \ Range(ids)
  /\ \A g, h \in Handlers :
       pc[g] \in Starting /\ pc[h] \in Starting /\ rid[g] = rid[h] => g = h
  /\ \A g, h \in Handlers :
       pc[g] = "popped" /\ pc[h] \in Enlisting => loc[g] # rid[h]

(* A finished run that is in Ctx.ids, or is about to be, has its result.   *)
FinishedAreKept ==
  \A id \in Range(finished) :
    \/ id \in Range(ids)
    \/ \E h \in Handlers : pc[h] \in Enlisting /\ id = rid[h]
    => id \in results

(* Taking the first element of a sequence without repetition takes it out  *)
(* of its range.                                                           *)
LEMMA TailForgets ==
  ASSUME NEW S, NEW s \in Seq(S), s # <<>>,
         \A i, j \in 1..Len(s) : s[i] = s[j] => i = j
  PROVE  /\ Head(s) \notin Range(Tail(s))
         /\ \A i, j \in 1..Len(Tail(s)) : Tail(s)[i] = Tail(s)[j] => i = j
<1> DEFINE t == Tail(s)
<1>1. /\ Len(s) \in Nat \ {0}
      /\ DOMAIN t = 1..(Len(s) - 1) /\ Len(t) = Len(s) - 1
      /\ \A i \in 1..(Len(s) - 1) : t[i] = s[i + 1]
  BY HeadTailProperties
<1>2. \A i \in 1..(Len(s) - 1) : t[i] # Head(s)
  <2> TAKE i \in 1..(Len(s) - 1)
  <2>1. i + 1 \in 1..Len(s) /\ 1 \in 1..Len(s) /\ t[i] = s[i + 1] /\ i + 1 # 1
    BY <1>1
  <2> HIDE DEF t
  <2> QED
    BY <2>1
<1>3. \A i, j \in 1..(Len(s) - 1) : t[i] = t[j] => i = j
  <2> TAKE i, j \in 1..(Len(s) - 1)
  <2>1. i + 1 \in 1..Len(s) /\ j + 1 \in 1..Len(s) /\ t[i] = s[i + 1] /\ t[j] = s[j + 1]
    BY <1>1
  <2>2. s[i + 1] = s[j + 1] => i + 1 = j + 1
    BY <2>1
  <2>3. i + 1 = j + 1 => i = j
    OBVIOUS
  <2> HIDE DEF t
  <2> QED
    BY <2>1, <2>2, <2>3
<1> HIDE DEF t
<1>4. Head(s) \notin Range(t)
  BY <1>1, <1>2 DEF Range
<1> QED
  BY <1>1, <1>3, <1>4 DEF t

(* Every step keeps each id in one place. *)
LEMMA FreshStep == Typed /\ IdsAreFresh /\ [Next]_vars => IdsAreFresh'
<1> SUFFICES ASSUME Typed, IdsAreFresh, [Next]_vars PROVE IdsAreFresh'
  OBVIOUS
<1> USE DEF IdsAreFresh, Typed, TypeOK, IdOrNone, Enlisting, Starting, ctxVars, mainVars,
            handVars, histVars, Goto, Answer
<1>1. CASE Dequeue
  <2>1. Range(runQueue) = {Head(runQueue)} \cup Range(runQueue')
    BY <1>1, RangeTail DEF Dequeue
  <2> QED
    BY <1>1, <2>1 DEF Dequeue
<1>2. CASE StoreResult
  <2>1. currentId = config /\ config \in RequestIds
    BY <1>2 DEF StoreResult, MainHoldsRun
  <2>2. Range(finished') = Range(finished) \cup {currentId}
    BY <1>2, <2>1, RangeAppend DEF StoreResult
  <2> QED
    BY <1>2, <2>1, <2>2, ServerAssumption DEF StoreResult
<1>3. CASE ReleaseBusy
  BY <1>3 DEF ReleaseBusy
<1>4. CASE SetCurrent \/ RunBenchmark \/ SetResult \/ Summarize \/ ReleaseCurrent
  BY <1>4 DEF SetCurrent, RunBenchmark, SetResult, Summarize, ReleaseCurrent
<1>5. ASSUME NEW h \in Handlers, EnqueueSetBusy(h) PROVE IdsAreFresh'
  BY <1>5 DEF EnqueueSetBusy
<1>6. ASSUME NEW h \in Handlers, EnqueuePut(h) PROVE IdsAreFresh'
  <2>1. pc[h] = "put" /\ rid[h] \in RequestIds /\ rid[h] \notin Range(accepted)
    BY <1>6 DEF EnqueuePut, HandlersHoldIds
  <2>2. /\ Range(accepted') = Range(accepted) \cup {rid[h]}
        /\ Range(runQueue') = Range(runQueue) \cup {rid[h]}
    BY <1>6, <2>1, RangeAppend DEF EnqueuePut
  <2>3. /\ UNCHANGED <<ids, config, finished, rid, loc>>
        /\ pc' = [pc EXCEPT ![h] = "evict"]
    BY <1>6 DEF EnqueuePut
  <2>4. \A k \in Handlers :
          /\ pc'[k] \in {"idle", "busyCheck", "setBusy", "put", "evict", "append"}
               => loc'[k] = NoId
          /\ pc'[k] \in {"busyCheck", "setBusy", "put"} => rid'[k] \notin Range(accepted')
          /\ pc'[k] \in Enlisting => rid'[k] \in Range(accepted') \ Range(ids')
          /\ pc'[k] = "popped" /\ loc'[k] # NoId
               => loc'[k] \in Range(accepted') \ Range(ids')
    BY <2>1, <2>2, <2>3
  <2>5. \A g, k \in Handlers :
          pc'[g] \in Starting /\ pc'[k] \in Starting /\ rid'[g] = rid'[k] => g = k
    BY <2>1, <2>3
  <2>6. \A g, k \in Handlers :
          pc'[g] = "popped" /\ pc'[k] \in Enlisting => loc'[g] # rid'[k]
    BY <2>1, <2>3, ServerAssumption
  <2> QED
    BY <2>2, <2>3, <2>4, <2>5, <2>6
<1>7. ASSUME NEW h \in Handlers, EnqueueLenCheck(h) PROVE IdsAreFresh'
  <2>1. /\ UNCHANGED <<ids, runQueue, finished, accepted, config, rid, loc>>
        /\ pc[h] = "evict" /\ loc[h] = NoId
        /\ \/ pc' = [pc EXCEPT ![h] = "popped"]
           \/ pc' = [pc EXCEPT ![h] = "append"]
    BY <1>7 DEF EnqueueLenCheck
  <2>2. \A k \in Handlers : pc[k] \in Enlisting => rid[k] # NoId
    BY ServerAssumption DEF HandlersHoldIds
  <2>3. \A k \in Handlers :
          /\ pc'[k] \in Enlisting <=> pc[k] \in Enlisting
          /\ pc'[k] \in Starting <=> pc[k] \in Starting
          /\ pc'[k] \in {"busyCheck", "setBusy", "put"} => pc'[k] = pc[k]
          /\ pc'[k] = "popped" => pc[k] = "popped" \/ loc[k] = NoId
          /\ pc'[k] \in {"idle", "evict", "append"} => loc[k] = NoId
    BY <2>1
  <2>4. \A g, k \in Handlers :
          pc'[g] = "popped" /\ pc'[k] \in Enlisting => loc[g] # rid[k]
    BY <2>2, <2>3
  <2>5. \A k \in Handlers :
          /\ pc'[k] \in {"idle", "busyCheck", "setBusy", "put", "evict", "append"}
               => loc[k] = NoId
          /\ pc'[k] = "popped" /\ loc[k] # NoId
               => loc[k] \in Range(accepted) \ Range(ids)
    BY <2>3
  <2> HIDE DEF Enlisting, Starting
  <2> QED
    BY <2>1, <2>3, <2>4, <2>5
<1>8. ASSUME NEW h \in Handlers, EnqueuePop(h) PROVE IdsAreFresh'
  <2>1. CASE ids = <<>>
    BY <1>8, <2>1 DEF EnqueuePop
  <2>2. CASE ids # <<>>
    <3>1. /\ Range(ids) = {Head(ids)} \cup Range(ids')
          /\ Head(ids) \notin Range(ids') /\ Head(ids) \in RequestIds
          /\ \A i, j \in 1..Len(ids') : ids'[i] = ids'[j] => i = j
      <4>1. ids' = Tail(ids) /\ Head(ids) \in RequestIds
        BY <1>8, <2>2, HeadTailProperties DEF EnqueuePop
      <4>2. ids \in Seq(RequestIds) /\ \A i, j \in 1..Len(ids) : ids[i] = ids[j] => i = j
        OBVIOUS
      <4>3. Range(ids) = {Head(ids)} \cup Range(Tail(ids))
        BY <2>2, <4>2, RangeTail
      <4>4. /\ Head(ids) \notin Range(Tail(ids))
            /\ \A i, j \in 1..Len(Tail(ids)) : Tail(ids)[i] = Tail(ids)[j] => i = j
        BY <2>2, <4>2, TailForgets
      <4> QED
        BY <4>1, <4>3, <4>4
    <3>2. /\ UNCHANGED <<runQueue, finished, accepted, config, rid, pc>>
          /\ pc[h] = "popped"
          /\ loc' = [loc EXCEPT ![h] = Head(ids)]
      BY <1>8, <2>2 DEF EnqueuePop
    <3>3. \A g, k \in Handlers :
            pc'[g] = "popped" /\ pc'[k] \in Enlisting => loc'[g] # rid'[k]
      BY <3>1, <3>2
    <3>4. \A k \in Handlers :
            /\ pc'[k] \in Enlisting => rid'[k] \in Range(accepted') \ Range(ids')
            /\ pc'[k] = "popped" /\ loc'[k] # NoId
                 => loc'[k] \in Range(accepted') \ Range(ids')
            /\ pc'[k] \in {"idle", "busyCheck", "setBusy", "put", "evict", "append"}
                 => loc'[k] = NoId
      BY <3>1, <3>2
    <3> QED
      BY <3>1, <3>2, <3>3, <3>4
  <2> QED
    BY <2>1, <2>2
<1>9. ASSUME NEW h \in Handlers, EnqueueEvict(h) PROVE IdsAreFresh'
  BY <1>9 DEF EnqueueEvict
<1>10. ASSUME NEW h \in Handlers, EnqueueAppend(h) PROVE IdsAreFresh'
  <2>1. /\ pc[h] = "append" /\ rid[h] \in RequestIds
        /\ rid[h] \in Range(accepted) \ Range(ids)
        /\ UNCHANGED <<runQueue, finished, accepted, config, rid, loc>>
        /\ pc' = [pc EXCEPT ![h] = "answer"]
        /\ ids' = Append(ids, rid[h])
    BY <1>10 DEF EnqueueAppend, HandlersHoldIds
  <2>2. Range(ids') = Range(ids) \cup {rid[h]}
    BY <2>1, RangeAppend
  <2>3. \A i, j \in 1..Len(ids') : ids'[i] = ids'[j] => i = j
    <3>1. /\ Len(ids') = Len(ids) + 1 /\ ids'[Len(ids) + 1] = rid[h]
          /\ \A i \in 1..Len(ids) : ids'[i] = ids[i] /\ ids[i] # rid[h]
      BY <2>1 DEF Range
    <3>2. Len(ids) \in Nat
      OBVIOUS
    <3> SUFFICES ASSUME NEW i \in 1..(Len(ids) + 1), NEW j \in 1..(Len(ids) + 1),
                        ids'[i] = ids'[j]
                 PROVE  i = j
      BY <3>1
    <3>3. CASE i = Len(ids) + 1 /\ j # Len(ids) + 1
      <4>1. j \in 1..Len(ids)
        BY <3>2, <3>3
      <4> QED
        BY <3>1, <3>3, <4>1
    <3>4. CASE i # Len(ids) + 1 /\ j = Len(ids) + 1
      <4>1. i \in 1..Len(ids)
        BY <3>2, <3>4
      <4> QED
        BY <3>1, <3>4, <4>1
    <3>5. CASE i # Len(ids) + 1 /\ j # Len(ids) + 1
      <4>1. i \in 1..Len(ids) /\ j \in 1..Len(ids)
        BY <3>2, <3>5
      <4> QED
        BY <3>1, <4>1
    <3> QED
      BY <3>3, <3>4, <3>5
  <2>4. \A k \in Handlers \ {h} : pc[k] \in Starting => rid[k] # rid[h]
    BY <2>1
  <2>5. \A g \in Handlers : pc[g] = "popped" => loc[g] # rid[h]
    BY <2>1
  <2> QED
    BY <2>1, <2>2, <2>3, <2>4, <2>5
<1>11. ASSUME NEW h \in Handlers,
              \/ GetResult(h) \/ StatusOfBusy(h) \/ StatusOfCurrent(h)
              \/ StatusAnyBusy(h) \/ StatusAnyCurrent(h) \/ StatusOf(h) \/ StatusAny(h)
              \/ Return(h) \/ EnqueueRaises(h)
       PROVE  IdsAreFresh'
  <2>1. UNCHANGED <<ids, runQueue, finished, accepted, config>>
    BY <1>11 DEF GetResult, StatusOfBusy, StatusOfCurrent, StatusOfLookup, StatusOfLatest,
       StatusOfSame, StatusOfClear, StatusAnyBusy, StatusAnyCurrent, StatusAnyRead,
       StatusAnyClear, StatusOf, StatusAny, Return, EnqueueRaises
  <2>2. \A g \in Handlers :
          /\ pc'[g] \in Starting => pc'[g] = pc[g] /\ rid'[g] = rid[g] /\ loc'[g] = loc[g]
          /\ pc'[g] = "idle" => loc'[g] = NoId
    BY <1>11 DEF GetResult, StatusOfBusy, StatusOfCurrent, StatusOfLookup, StatusOfLatest,
       StatusOfSame, StatusOfClear, StatusAnyBusy, StatusAnyCurrent, StatusAnyRead,
       StatusAnyClear, StatusOf, StatusAny, Return, EnqueueRaises
  <2> QED
    BY <2>1, <2>2
<1>12. ASSUME NEW h \in Handlers, StartBusyCheck(h) PROVE IdsAreFresh'
  <2>1. /\ UNCHANGED <<ids, runQueue, finished, accepted, config, rid, loc>>
        /\ pc[h] = "busyCheck" /\ pc'[h] \in {"answer", "setBusy"}
        /\ \A k \in Handlers \ {h} : pc'[k] = pc[k]
    BY <1>12 DEF StartBusyCheck
  <2>2. \A k \in Handlers :
          /\ pc'[k] \in Enlisting \/ pc'[k] = "popped" => pc'[k] = pc[k]
          /\ pc'[k] \in Starting => pc[k] \in Starting
          /\ pc'[k] \in {"busyCheck", "setBusy", "put"}
               => pc[k] \in {"busyCheck", "setBusy", "put"}
          /\ pc'[k] \in {"idle", "busyCheck", "setBusy", "put", "evict", "append"}
               => loc[k] = NoId
    BY <2>1
  <2> HIDE DEF Enlisting, Starting
  <2> QED
    BY <2>1, <2>2
<1>13. ASSUME NEW h \in Handlers, StartRun(h) PROVE IdsAreFresh'
  <2>1. PICK id \in RequestIds :
          id \notin Range(accepted) \cup Range(rid) /\ rid' = [rid EXCEPT ![h] = id]
    BY <1>13 DEF StartRun
  <2>2. /\ UNCHANGED <<ids, runQueue, finished, accepted, config, loc>>
        /\ pc[h] = "idle" /\ pc' = [pc EXCEPT ![h] = "busyCheck"]
    BY <1>13 DEF StartRun
  <2>3. \A k \in Handlers : rid[k] # id
    BY <2>1 DEF Range
  <2> QED
    BY <2>1, <2>2, <2>3
<1>14. CASE UNCHANGED vars
  BY <1>14 DEF vars
<1> QED
  BY <1>1, <1>2, <1>3, <1>4, <1>5, <1>6, <1>7, <1>8, <1>9, <1>10, <1>11, <1>12, <1>13,
     <1>14 DEF Next, Main, Serve, Request, Enqueue

(* Every step keeps the results of the finished runs that are listed. *)
LEMMA KeptStep ==
  Typed /\ IdsAreFresh /\ FinishedAreKept /\ [Next]_vars => FinishedAreKept'
<1> SUFFICES ASSUME Typed, IdsAreFresh, FinishedAreKept, [Next]_vars PROVE FinishedAreKept'
  OBVIOUS
<1> USE DEF FinishedAreKept, Typed, TypeOK, Enlisting, ctxVars, mainVars, handVars,
            histVars, Goto, Answer
<1>1. CASE StoreResult
  <2>1. currentId \in RequestIds
    BY <1>1 DEF StoreResult, MainHoldsRun
  <2>2. Range(finished') = Range(finished) \cup {currentId}
    BY <1>1, <2>1, RangeAppend DEF StoreResult
  <2> QED
    BY <1>1, <2>2 DEF StoreResult
<1>2. CASE \/ Dequeue \/ SetCurrent \/ RunBenchmark \/ SetResult \/ Summarize
           \/ ReleaseCurrent \/ ReleaseBusy
  BY <1>2 DEF Dequeue, SetCurrent, RunBenchmark, SetResult, Summarize, ReleaseCurrent,
              ReleaseBusy
<1>3. ASSUME NEW h \in Handlers, EnqueuePut(h) PROVE FinishedAreKept'
  <2>1. rid[h] \notin Range(finished)
    BY <1>3 DEF EnqueuePut, IdsAreFresh
  <2> QED
    BY <1>3, <2>1 DEF EnqueuePut
<1>4. ASSUME NEW h \in Handlers, EnqueuePop(h) PROVE FinishedAreKept'
  <2>1. Range(ids') \subseteq Range(ids)
    <3>1. CASE ids = <<>>
      BY <1>4, <3>1 DEF EnqueuePop
    <3>2. CASE ids # <<>>
      BY <1>4, <3>2, RangeTail DEF EnqueuePop
    <3> QED
      BY <3>1, <3>2
  <2>2. UNCHANGED <<finished, results, rid>> /\ \A k \in Handlers :
          pc'[k] \in Enlisting => pc[k] \in Enlisting
    BY <1>4 DEF EnqueuePop
  <2> QED
    BY <2>1, <2>2
<1>5. ASSUME NEW h \in Handlers, EnqueueEvict(h) PROVE FinishedAreKept'
  <2>1. loc[h] \notin Range(ids) /\ \A k \in Handlers : pc[k] \in Enlisting => loc[h] # rid[k]
    BY <1>5 DEF EnqueueEvict, IdsAreFresh
  <2> QED
    BY <1>5, <2>1 DEF EnqueueEvict
<1>6. ASSUME NEW h \in Handlers, EnqueueAppend(h) PROVE FinishedAreKept'
  <2>1. Range(ids') = Range(ids) \cup {rid[h]} /\ pc[h] = "append"
    BY <1>6, RangeAppend DEF EnqueueAppend, HandlersHoldIds
  <2> QED
    BY <1>6, <2>1 DEF EnqueueAppend
<1>7. ASSUME NEW h \in Handlers, EnqueueSetBusy(h) \/ EnqueueLenCheck(h)
      PROVE  FinishedAreKept'
  BY <1>7 DEF EnqueueSetBusy, EnqueueLenCheck
<1>8. ASSUME NEW h \in Handlers,
             \/ GetResult(h) \/ StatusOfBusy(h) \/ StatusOfCurrent(h)
             \/ StatusAnyBusy(h) \/ StatusAnyCurrent(h) \/ Request(h)
             \/ Return(h) \/ StartBusyCheck(h) \/ EnqueueRaises(h)
      PROVE  FinishedAreKept'
  <2>1. UNCHANGED <<ids, finished, results>>
    BY <1>8 DEF GetResult, StatusOfBusy, StatusOfCurrent, StatusOfLookup, StatusOfLatest,
       StatusOfSame, StatusOfClear, StatusAnyBusy, StatusAnyCurrent, StatusAnyRead,
       StatusAnyClear, Request, StartRun, StatusOf, StatusAny, Return, StartBusyCheck,
       EnqueueRaises
  <2>2. \A g \in Handlers : pc'[g] \in Enlisting => pc'[g] = pc[g] /\ rid'[g] = rid[g]
    BY <1>8 DEF GetResult, StatusOfBusy, StatusOfCurrent, StatusOfLookup, StatusOfLatest,
       StatusOfSame, StatusOfClear, StatusAnyBusy, StatusAnyCurrent, StatusAnyRead,
       StatusAnyClear, Request, StartRun, StatusOf, StatusAny, Return, StartBusyCheck,
       EnqueueRaises
  <2> QED
    BY <2>1, <2>2
<1>9. CASE UNCHANGED vars
  BY <1>9 DEF vars
<1> QED
  BY <1>1, <1>2, <1>3, <1>4, <1>5, <1>6, <1>7, <1>8, <1>9
     DEF Next, Main, Serve, Enqueue

(* With any number of concurrent submissions and polls, "not found" is     *)
(* only said of a run without a result or one whose id has been dropped    *)
(* (nfvbenchd.py:66-113).                                                  *)
THEOREM NotFoundIsTrue == Spec => NotFoundIsHonest
<1> DEFINE Honest == \A h \in Handlers : Answers(h, "notFound") =>
                       rid[h] \notin Range(finished) \/ rid[h] \notin Range(ids)
<1>1. Init => IdsAreFresh /\ FinishedAreKept
  <2> SUFFICES ASSUME Init PROVE IdsAreFresh /\ FinishedAreKept
    OBVIOUS
  <2>1. Range(<<>>) = {} /\ 1..Len(<<>>) = {}
    BY DEF Range
  <2> QED
    BY <2>1 DEF Init, IdsAreFresh, FinishedAreKept, Enlisting, Starting
<1>2. Typed /\ FinishedAreKept /\ [Next]_vars => [Honest]_vars
  <2> SUFFICES ASSUME Typed, FinishedAreKept, [Next]_vars,
                      NEW h \in Handlers, Answers(h, "notFound")
               PROVE  rid[h] \notin results
    BY DEF FinishedAreKept
  <2> USE DEF Typed, TypeOK, Answers, Goto, Answer, handVars
  <2>1. ASSUME NEW g \in Handlers, StatusOfLookup(g) PROVE rid[h] \notin results
    BY <2>1 DEF StatusOfLookup
  <2>2. ASSUME NEW g \in Handlers, Serve(g) \/ Request(g), ~StatusOfLookup(g)
        PROVE  FALSE
    BY <2>2 DEF Serve, Request, Enqueue, GetResult, StartBusyCheck, EnqueueSetBusy,
       EnqueuePut, EnqueueRaises, EnqueueLenCheck, EnqueuePop, EnqueueEvict,
       EnqueueAppend, StatusOfBusy, StatusOfCurrent, StatusOfLatest, StatusOfSame, StatusOfClear,
       StatusAnyBusy, StatusAnyCurrent, StatusAnyRead, StatusAnyClear, Return,
       StartRun, StatusOf, StatusAny
  <2>3. CASE Main
    BY <2>3 DEF Main, Dequeue, SetCurrent, RunBenchmark, StoreResult, SetResult,
       Summarize, ReleaseCurrent, ReleaseBusy
  <2>4. CASE UNCHANGED vars
    BY <2>4 DEF vars
  <2> QED
    BY <2>1, <2>2, <2>3, <2>4 DEF Next
<1> QED
  BY <1>1, <1>2, FreshStep, KeptStep, Typing, PTL DEF Spec, Typed, NotFoundIsHonest

-----------------------------------------------------------------------------
(* Which start_run can leave the server busy with nothing to do.           *)

(* A handler has an answer only when it is about to give it.               *)
AnswersComeLast ==
  \A h \in Handlers : pc[h] # "answer" => reply[h] = "none"

(* A handler has no answer while it is still at work on the request. *)
LEMMA AnswersLast == Spec => []AnswersComeLast
<1>1. Init => AnswersComeLast
  BY DEF Init, AnswersComeLast
<1>2. Typed /\ AnswersComeLast /\ [Next]_vars => AnswersComeLast'
  <2> SUFFICES ASSUME Typed, AnswersComeLast, [Next]_vars PROVE AnswersComeLast'
    OBVIOUS
  <2> USE DEF AnswersComeLast, Typed, TypeOK, handVars, Goto, Answer
  <2>1. CASE Main
    BY <2>1 DEF Main, Dequeue, SetCurrent, RunBenchmark, StoreResult, SetResult,
       Summarize, ReleaseCurrent, ReleaseBusy
  <2>2. ASSUME NEW h \in Handlers, Serve(h) \/ Request(h) PROVE AnswersComeLast'
    <3>1. /\ \A k \in Handlers \ {h} : pc'[k] = pc[k] /\ reply'[k] = reply[k]
          /\ \/ pc'[h] = "answer"
             \/ reply'[h] = reply[h] /\ pc[h] # "answer"
             \/ reply'[h] = "none"
      BY <2>2 DEF Serve, Request, Enqueue, GetResult, StartBusyCheck, EnqueueSetBusy,
         EnqueuePut, EnqueueRaises, EnqueueLenCheck, EnqueuePop, EnqueueEvict,
         EnqueueAppend, StatusOfBusy, StatusOfCurrent, StatusOfLookup, StatusOfLatest,
         StatusOfSame, StatusOfClear, StatusAnyBusy, StatusAnyCurrent, StatusAnyRead,
         StatusAnyClear, Return, StartRun, StatusOf, StatusAny
    <3> QED
      BY <3>1
  <2>3. CASE UNCHANGED vars
    BY <2>3 DEF vars
  <2> QED
    BY <2>1, <2>2, <2>3 DEF Next
<1> QED
  BY <1>1, <1>2, Typing, PTL DEF Spec, Typed

(* Whatever the threads do and however the main thread ends, the clients   *)
(* are only locked out, the server busy with no run on its way, by a       *)
(* start_run whose body is no object (nfvbenchd.py:66-70, 85-88, 191-221). *)
THEOREM LockOutsComeFromBodies == Spec => OnlyBadBodiesLockOut
<1>1. Typed /\ AnswersComeLast /\ [Next]_vars
        => [~LockedOut /\ LockedOut' => \E h \in Handlers : Answers(h, "badBody")]_vars
  <2> SUFFICES ASSUME Typed, AnswersComeLast, [Next]_vars, ~LockedOut, LockedOut'
               PROVE  \E h \in Handlers : Answers(h, "badBody")
    OBVIOUS
  <2> USE DEF LockedOut, Typed, TypeOK, ctxVars, mainVars, handVars, histVars, Goto,
              Answer
  <2>1. CASE Main
    <3>1. CASE Dequeue \/ ReleaseBusy
      BY <3>1 DEF Dequeue, ReleaseBusy
    <3>2. CASE \/ SetCurrent \/ RunBenchmark \/ StoreResult \/ SetResult
               \/ Summarize \/ ReleaseCurrent
      BY <3>2 DEF SetCurrent, RunBenchmark, StoreResult, SetResult, Summarize,
                  ReleaseCurrent
    <3> QED
      BY <2>1, <3>1, <3>2 DEF Main
  <2>2. ASSUME NEW h \in Handlers, EnqueueRaises(h) PROVE Answers(h, "badBody")
    BY <2>2 DEF EnqueueRaises, Answers, AnswersComeLast
  <2>3. ASSUME NEW h \in Handlers, EnqueueSetBusy(h) PROVE FALSE
    <3>1. pc'[h] = "put"
      BY <2>3 DEF EnqueueSetBusy
    <3> QED
      BY <3>1
  <2>4. ASSUME NEW h \in Handlers, EnqueuePut(h) PROVE FALSE
    <3>1. rid[h] \in RequestIds /\ runQueue' = Append(runQueue, rid[h])
      BY <2>4 DEF EnqueuePut, HandlersHoldIds
    <3>2. runQueue' # <<>>
      BY <3>1, AppendProperties, SMTT(30)
    <3>3. runQueue' = <<>>
      BY DEF LockedOut
    <3> QED
      BY <3>2, <3>3
  <2>5. ASSUME NEW h \in Handlers, Serve(h) \/ Request(h),
               ~EnqueueSetBusy(h), ~EnqueuePut(h), ~EnqueueRaises(h)
        PROVE  FALSE
    <3>1. /\ UNCHANGED <<runQueue, busy, mainPc>>
          /\ \A k \in Handlers : pc[k] = "put" => pc'[k] = "put"
      BY <2>5 DEF Serve, Request, Enqueue, GetResult, StartBusyCheck, EnqueueLenCheck,
         EnqueuePop, EnqueueEvict, EnqueueAppend, StatusOfBusy, StatusOfCurrent,
         StatusOfLookup, StatusOfLatest, StatusOfSame, StatusOfClear, StatusAnyBusy,
         StatusAnyCurrent, StatusAnyRead, StatusAnyClear, Return, StartRun, StatusOf,
         StatusAny
    <3> QED
      BY <3>1
  <2>6. CASE UNCHANGED vars
    BY <2>6 DEF vars
  <2> QED
    BY <2>1, <2>2, <2>3, <2>4, <2>5, <2>6 DEF Next
<1> QED
  BY <1>1, AnswersLast, Typing, PTL DEF Spec, Typed, OnlyBadBodiesLockOut
=============================================================================
