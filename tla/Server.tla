------------------------------- MODULE Server -------------------------------
(***************************************************************************)
(* The REST server of nfvbench (nfvbench/nfvbenchd.py).                    *)
(*                                                                         *)
(* Flask answers every HTTP request in a thread of its own; the main       *)
(* thread takes the accepted runs off a queue and executes them one at a   *)
(* time, because the TRex client library must be driven by the main        *)
(* thread.  All threads share the class attributes of Ctx and take no      *)
(* lock, so every read or write of one attribute is a step of its own      *)
(* (the interpreter lock makes each of them atomic, and nothing more).     *)
(*                                                                         *)
(* A request is a run to be or, when its body is no JSON object, an error  *)
(* that enqueue() meets halfway.                                           *)
(*                                                                         *)
(* A run, its result and its request id are identified: the id is a fresh  *)
(* uuid (nfvbenchd.py:53), the result carries it (nfvbenchd.py:92).        *)
(***************************************************************************)
EXTENDS Naturals, Sequences, FiniteSets, Functions

CONSTANTS
  Handlers,    (* the threads Flask answers requests in                      *)
  RequestIds,  (* the uuids get_uuid() can draw: a bound on the runs         *)
  MaxLen,      (* Ctx.MAXLEN, the results kept for later fetching            *)
  NoId,        (* None, as a request id or as a result                       *)
  MainMayDie   (* whether an exception may escape the loop of the main thread *)

ASSUME ServerAssumption ==
  /\ NoId \notin RequestIds
  /\ MaxLen \in Nat \ {0}
  /\ MainMayDie \in BOOLEAN

VARIABLES
  (* the attributes of Ctx *)
  runQueue,   (* Ctx.run_queue *)
  busy,       (* Ctx.busy *)
  result,     (* Ctx.result: the run whose result it is, or NoId *)
  results,    (* Ctx.results: the ids that are keys of the dict *)
  ids,        (* Ctx.ids *)
  currentId,  (* Ctx.current_id *)
  (* the main thread *)
  mainPc,     (* where WebServer.run stands *)
  config,     (* the request id in the config it holds, or NoId *)
  (* the handler threads *)
  pc,         (* where each handler stands *)
  rid,        (* the request id each handler works for, or NoId for /status *)
  reply,      (* what it is about to answer *)
  loc,        (* its local: the id popped from Ctx.ids, or the result it read *)
  (* history, never read by the program *)
  accepted,   (* the ids in the order they were put on the queue *)
  finished,   (* the ids whose result was stored, in that order *)
  known       (* the ids a start_run has answered, which clients may poll *)

ctxVars  == <<runQueue, busy, result, results, ids, currentId>>
mainVars == <<mainPc, config>>
handVars == <<pc, rid, reply, loc>>
histVars == <<accepted, finished, known>>
vars == <<ctxVars, mainVars, handVars, histVars>>

IdOrNone == RequestIds \cup {NoId}

MainPcs == {"get", "setCurrent", "run", "storeResult", "setResult",
            "summarize", "clearCurrent", "clearBusy", "dead"}

HandlerPcs == {"idle",
               "busyCheck", "setBusy", "put", "evict", "popped", "append",
               "idBusy", "idCurrent", "idLookup", "idLatest", "idSame", "idClear",
               "anyBusy", "anyCurrent", "anyRead", "anyClear",
               "answer"}

Replies == {"none", "accepted", "busy", "pending", "result", "notFound",
            "notPending", "serverError", "badBody"}

-----------------------------------------------------------------------------
Init ==
  /\ runQueue = <<>>
  /\ busy = FALSE
  /\ result = NoId
  /\ results = {}
  /\ ids = <<>>
  /\ currentId = NoId
  /\ mainPc = "get"
  /\ config = NoId
  /\ pc = [h \in Handlers |-> "idle"]
  /\ rid = [h \in Handlers |-> NoId]
  /\ reply = [h \in Handlers |-> "none"]
  /\ loc = [h \in Handlers |-> NoId]
  /\ accepted = <<>>
  /\ finished = <<>>
  /\ known = {}

Goto(h, l) == pc' = [pc EXCEPT ![h] = l]

(* A handler that has its answer; it still has to return to the idle pool. *)
Answer(h, r) ==
  /\ Goto(h, "answer")
  /\ reply' = [reply EXCEPT ![h] = r]

-----------------------------------------------------------------------------
(* Seeded faults.  Each is one of the steps below with a plausible slip;   *)
(* substituted for that step it must make a property fail.                 *)

(* The busy check forgotten. *)
StartBusyCheckDropped(h) ==
  /\ pc[h] = "busyCheck"
  /\ Goto(h, "setBusy")
  /\ UNCHANGED <<ctxVars, mainVars, rid, reply, loc, histVars>>

(* `Ctx.busy = True` forgotten. *)
EnqueueSetBusyDropped(h) ==
  /\ pc[h] = "setBusy"
  /\ Goto(h, "put")
  /\ UNCHANGED <<ctxVars, mainVars, rid, reply, loc, histVars>>

(* queue.LifoQueue instead of queue.Queue. *)
EnqueuePutLifo(h) ==
  /\ pc[h] = "put"
  /\ runQueue' = <<rid[h]>> \o runQueue
  /\ accepted' = Append(accepted, rid[h])
  /\ Goto(h, "evict")
  /\ UNCHANGED <<busy, result, results, ids, currentId, mainVars, rid, reply,
                 loc, finished, known>>

(* `>` instead of `>=`. *)
EnqueueLenCheckOffByOne(h) ==
  /\ pc[h] = "evict"
  /\ Goto(h, IF Len(ids) > MaxLen THEN "popped" ELSE "append")
  /\ UNCHANGED <<ctxVars, mainVars, rid, reply, loc, histVars>>

(* Ctx.ids[0] instead of Ctx.ids.pop(0). *)
EnqueuePopPeeks(h) ==
  /\ pc[h] = "popped"
  /\ loc[h] = NoId
  /\ ids # <<>>
  /\ loc' = [loc EXCEPT ![h] = Head(ids)]
  /\ UNCHANGED <<ctxVars, mainVars, pc, rid, reply, histVars>>

(* An error of the run skips set_result. *)
RunBenchmarkErrorSkips ==
  /\ mainPc = "run"
  /\ mainPc' \in {"storeResult", "clearCurrent"}
  /\ UNCHANGED <<ctxVars, config, handVars, histVars>>

(* Ctx.result assigned before Ctx.results. *)
StoreResultSwapped ==
  /\ mainPc = "storeResult"
  /\ result' = currentId
  /\ mainPc' = "setResult"
  /\ UNCHANGED <<runQueue, busy, results, ids, currentId, config, handVars,
                 histVars>>

(* An error of the summary goes straight to the next run, past release(). *)
SummarizeErrorSkips ==
  /\ mainPc = "summarize"
  /\ mainPc' \in {"clearCurrent", "get"}
  /\ UNCHANGED <<ctxVars, config, handVars, histVars>>

-----------------------------------------------------------------------------
(* POST /start_run: setup_flask._start_run and Ctx.enqueue.                *)

(* The uuid of get_uuid(), fresh whenever it is drawn, is drawn when the   *)
(* request arrives: with no id left no start_run comes (the model's bound  *)
(* on the runs).                                                           *)
StartRun(h) ==
  /\ pc[h] = "idle"
  /\ \E id \in RequestIds :
       /\ id \notin Range(accepted) \cup Range(rid)
       /\ rid' = [rid EXCEPT ![h] = id]
  /\ Goto(h, "busyCheck")
  /\ UNCHANGED <<ctxVars, mainVars, reply, loc, histVars>>

(* `if Ctx.is_busy(): return jsonify(busy_json)`. *)
StartBusyCheck(h) ==
  /\ pc[h] = "busyCheck"
  /\ \/ /\ busy
        /\ Answer(h, "busy")
     \/ /\ ~busy
        /\ Goto(h, "setBusy")
        /\ UNCHANGED reply
  /\ UNCHANGED <<ctxVars, mainVars, rid, loc, histVars>>

EnqueueSetBusy(h) ==
  /\ pc[h] = "setBusy"
  /\ busy' = TRUE
  /\ Goto(h, "put")
  /\ UNCHANGED <<runQueue, result, results, ids, currentId, mainVars, rid,
                 reply, loc, histVars>>

EnqueuePut(h) ==
  /\ pc[h] = "put"
  /\ runQueue' = Append(runQueue, rid[h])
  /\ accepted' = Append(accepted, rid[h])
  /\ Goto(h, "evict")
  /\ UNCHANGED <<busy, result, results, ids, currentId, mainVars, rid, reply,
                 loc, finished, known>>

(* `config['request_id'] = request_id` raises TypeError when the body was  *)
(* JSON, not empty and no object (a list, say): _start_run passes it on as *)
(* it is.  Flask answers 500, nothing is queued, and Ctx.busy, set one     *)
(* statement before, stays set.  Which body a request carries is chosen    *)
(* here, where it first matters.                                           *)
EnqueueRaises(h) ==
  /\ pc[h] = "put"
  /\ Answer(h, "badBody")
  /\ UNCHANGED <<ctxVars, mainVars, rid, loc, histVars>>

(* `if len(Ctx.ids) >= Ctx.MAXLEN`, then the pop of its own bytecode.  Two *)
(* threads may both see a full list: popping an empty one raises           *)
(* IndexError, which is not caught.                                        *)
EnqueueLenCheck(h) ==
  /\ pc[h] = "evict"
  /\ Goto(h, IF Len(ids) >= MaxLen THEN "popped" ELSE "append")
  /\ UNCHANGED <<ctxVars, mainVars, rid, reply, loc, histVars>>

EnqueuePop(h) ==
  /\ pc[h] = "popped"
  /\ loc[h] = NoId
  /\ \/ /\ ids = <<>>
        /\ Answer(h, "serverError")
        /\ UNCHANGED <<ids, loc>>
     \/ /\ ids # <<>>
        /\ ids' = Tail(ids)
        /\ loc' = [loc EXCEPT ![h] = Head(ids)]
        /\ UNCHANGED <<pc, reply>>
  /\ UNCHANGED <<runQueue, busy, result, results, currentId, mainVars, rid,
                 histVars>>

(* `del Ctx.results[...]`, whose KeyError is swallowed when that run has   *)
(* no result yet.                                                          *)
EnqueueEvict(h) ==
  /\ pc[h] = "popped"
  /\ loc[h] # NoId
  /\ results' = results \ {loc[h]}
  /\ loc' = [loc EXCEPT ![h] = NoId]
  /\ Goto(h, "append")
  /\ UNCHANGED <<runQueue, busy, result, ids, currentId, mainVars, rid, reply,
                 histVars>>

EnqueueAppend(h) ==
  /\ pc[h] = "append"
  /\ ids' = Append(ids, rid[h])
  /\ Answer(h, "accepted")
  /\ UNCHANGED <<runQueue, busy, result, results, currentId, mainVars, rid,
                 loc, histVars>>

-----------------------------------------------------------------------------
(* GET /status/<request_id>: setup_flask._get_status and Ctx.get_result.   *)

StatusOf(h) ==
  /\ pc[h] = "idle"
  /\ \E id \in known : rid' = [rid EXCEPT ![h] = id]
  /\ Goto(h, "idBusy")
  /\ UNCHANGED <<ctxVars, mainVars, reply, loc, histVars>>

(* The left operand of `Ctx.is_busy() and request_id == current id`. *)
StatusOfBusy(h) ==
  /\ pc[h] = "idBusy"
  /\ Goto(h, IF busy THEN "idCurrent" ELSE "idLookup")
  /\ UNCHANGED <<ctxVars, mainVars, rid, reply, loc, histVars>>

(* The right operand. *)
StatusOfCurrent(h) ==
  /\ pc[h] = "idCurrent"
  /\ \/ /\ currentId = rid[h]
        /\ Answer(h, "pending")
     \/ /\ currentId # rid[h]
        /\ Goto(h, "idLookup")
        /\ UNCHANGED reply
  /\ UNCHANGED <<ctxVars, mainVars, rid, loc, histVars>>

StatusOfLookup(h) ==
  /\ pc[h] = "idLookup"
  /\ \/ /\ rid[h] \in results
        /\ loc' = [loc EXCEPT ![h] = rid[h]]
        /\ Goto(h, "idLatest")
        /\ UNCHANGED reply
     \/ /\ rid[h] \notin results
        /\ Answer(h, "notFound")
        /\ UNCHANGED loc
  /\ UNCHANGED <<ctxVars, mainVars, rid, histVars>>

(* `if Ctx.result and ...`: the first read of Ctx.result. *)
StatusOfLatest(h) ==
  /\ pc[h] = "idLatest"
  /\ \/ /\ result # NoId
        /\ Goto(h, "idSame")
        /\ UNCHANGED reply
     \/ /\ result = NoId
        /\ Answer(h, "result")
  /\ UNCHANGED <<ctxVars, mainVars, rid, loc, histVars>>

(* `... request_id == Ctx.result['request_id']`: the second read.  None    *)
(* is not subscriptable: the TypeError ends the request with a 500.        *)
StatusOfSame(h) ==
  /\ pc[h] = "idSame"
  /\ \/ /\ result = NoId
        /\ Answer(h, "serverError")
     \/ /\ result = rid[h]
        /\ Goto(h, "idClear")
        /\ UNCHANGED reply
     \/ /\ result \notin {NoId, rid[h]}
        /\ Answer(h, "result")
  /\ UNCHANGED <<ctxVars, mainVars, rid, loc, histVars>>

(* `Ctx.result = None`. *)
StatusOfClear(h) ==
  /\ pc[h] = "idClear"
  /\ result' = NoId
  /\ Answer(h, "result")
  /\ UNCHANGED <<runQueue, busy, results, ids, currentId, mainVars, rid, loc,
                 histVars>>

-----------------------------------------------------------------------------
(* GET /status: the latest result, which the first poll takes away.        *)

StatusAny(h) ==
  /\ pc[h] = "idle"
  /\ Goto(h, "anyBusy")
  /\ UNCHANGED <<ctxVars, mainVars, rid, reply, loc, histVars>>

StatusAnyBusy(h) ==
  /\ pc[h] = "anyBusy"
  /\ Goto(h, IF busy THEN "anyCurrent" ELSE "anyRead")
  /\ UNCHANGED <<ctxVars, mainVars, rid, reply, loc, histVars>>

(* The pending reply carries the id of the current run, None when there is *)
(* none at this instant.                                                   *)
StatusAnyCurrent(h) ==
  /\ pc[h] = "anyCurrent"
  /\ loc' = [loc EXCEPT ![h] = currentId]
  /\ Answer(h, "pending")
  /\ UNCHANGED <<ctxVars, mainVars, rid, histVars>>

StatusAnyRead(h) ==
  /\ pc[h] = "anyRead"
  /\ loc' = [loc EXCEPT ![h] = result]
  /\ \/ /\ result = NoId
        /\ Answer(h, "notPending")
     \/ /\ result # NoId
        /\ Goto(h, "anyClear")
        /\ UNCHANGED reply
  /\ UNCHANGED <<ctxVars, mainVars, rid, histVars>>

StatusAnyClear(h) ==
  /\ pc[h] = "anyClear"
  /\ result' = NoId
  /\ Answer(h, "result")
  /\ UNCHANGED <<runQueue, busy, results, ids, currentId, mainVars, rid, loc,
                 histVars>>

-----------------------------------------------------------------------------
(* The response is sent and the thread returns to Flask's pool.            *)
Return(h) ==
  /\ pc[h] = "answer"
  /\ known' = IF reply[h] = "accepted" THEN known \cup {rid[h]} ELSE known
  /\ Goto(h, "idle")
  /\ rid' = [rid EXCEPT ![h] = NoId]
  /\ reply' = [reply EXCEPT ![h] = "none"]
  /\ loc' = [loc EXCEPT ![h] = NoId]
  /\ UNCHANGED <<ctxVars, mainVars, accepted, finished>>

-----------------------------------------------------------------------------
(* The main thread: WebServer.run with Ctx.dequeue, set_result, release.   *)

Dequeue ==
  /\ mainPc = "get"
  /\ runQueue # <<>>
  /\ runQueue' = Tail(runQueue)
  /\ config' = Head(runQueue)
  /\ mainPc' = "setCurrent"
  /\ UNCHANGED <<busy, result, results, ids, currentId, handVars, histVars>>

SetCurrent ==
  /\ mainPc = "setCurrent"
  /\ currentId' = config
  /\ mainPc' = "run"
  /\ UNCHANGED <<runQueue, busy, result, results, ids, config, handVars,
                 histVars>>

(* The run itself, under the RunLock.  Whatever Exception it raises, a     *)
(* result dict comes out of it; SystemExit (traffic_client.py:1311,        *)
(* trex_gen.py:833) is not an Exception and ends the main thread.          *)
RunBenchmark ==
  /\ mainPc = "run"
  /\ mainPc' \in {"storeResult"} \cup (IF MainMayDie THEN {"dead"} ELSE {})
  /\ UNCHANGED <<ctxVars, config, handVars, histVars>>

StoreResult ==
  /\ mainPc = "storeResult"
  /\ results' = results \cup {currentId}
  /\ finished' = Append(finished, currentId)
  /\ mainPc' = "setResult"
  /\ UNCHANGED <<runQueue, busy, result, ids, currentId, config, handVars,
                 accepted, known>>

SetResult ==
  /\ mainPc = "setResult"
  /\ result' = currentId
  /\ mainPc' = "summarize"
  /\ UNCHANGED <<runQueue, busy, results, ids, currentId, config, handVars,
                 histVars>>

(* The summary and the optional save to a JSON file; only KeyError is      *)
(* caught here, any other exception ends the main thread.                  *)
Summarize ==
  /\ mainPc = "summarize"
  /\ mainPc' \in {"clearCurrent"} \cup (IF MainMayDie THEN {"dead"} ELSE {})
  /\ UNCHANGED <<ctxVars, config, handVars, histVars>>

ReleaseCurrent ==
  /\ mainPc = "clearCurrent"
  /\ currentId' = NoId
  /\ mainPc' = "clearBusy"
  /\ UNCHANGED <<runQueue, busy, result, results, ids, config, handVars,
                 histVars>>

ReleaseBusy ==
  /\ mainPc = "clearBusy"
  /\ busy' = FALSE
  /\ config' = NoId
  /\ mainPc' = "get"
  /\ UNCHANGED <<runQueue, result, results, ids, currentId, handVars, histVars>>

Main ==
  \/ Dequeue
  \/ SetCurrent
  \/ RunBenchmark
  \/ StoreResult
  \/ SetResult
  \/ Summarize
  \/ ReleaseCurrent
  \/ ReleaseBusy

Enqueue(h) ==
  \/ EnqueueSetBusy(h)
  \/ EnqueuePut(h)
  \/ EnqueueRaises(h)
  \/ EnqueueLenCheck(h)
  \/ EnqueuePop(h)
  \/ EnqueueEvict(h)
  \/ EnqueueAppend(h)

GetResult(h) ==
  \/ StatusOfLookup(h)
  \/ StatusOfLatest(h)
  \/ StatusOfSame(h)
  \/ StatusOfClear(h)
  \/ StatusAnyRead(h)
  \/ StatusAnyClear(h)

(* The steps of a handler that has a request to answer. *)
Serve(h) ==
  \/ StartBusyCheck(h)
  \/ Enqueue(h)
  \/ StatusOfBusy(h)
  \/ StatusOfCurrent(h)
  \/ StatusAnyBusy(h)
  \/ StatusAnyCurrent(h)
  \/ GetResult(h)
  \/ Return(h)

Request(h) ==
  \/ StartRun(h)
  \/ StatusOf(h)
  \/ StatusAny(h)

Next ==
  \/ Main
  \/ \E h \in Handlers : Serve(h) \/ Request(h)

Spec == Init /\ [][Next]_vars

(* The operating system schedules every thread; no client has to ask.  *)
Fairness ==
  /\ WF_vars(Main)
  /\ \A h \in Handlers : WF_vars(Serve(h))

FairSpec == Spec /\ Fairness

-----------------------------------------------------------------------------
TypeOK ==
  /\ runQueue \in Seq(RequestIds)
  /\ busy \in BOOLEAN
  /\ result \in IdOrNone
  /\ results \subseteq RequestIds
  /\ ids \in Seq(RequestIds)
  /\ currentId \in IdOrNone
  /\ mainPc \in MainPcs
  /\ config \in IdOrNone
  /\ pc \in [Handlers -> HandlerPcs]
  /\ rid \in [Handlers -> IdOrNone]
  /\ reply \in [Handlers -> Replies]
  /\ loc \in [Handlers -> IdOrNone]
  /\ accepted \in Seq(RequestIds)
  /\ finished \in Seq(RequestIds)
  /\ known \subseteq RequestIds

(* The run the main thread has taken but whose result it has not stored.   *)
InHand ==
  IF mainPc \in {"setCurrent", "run", "storeResult"} THEN <<config>> ELSE <<>>

(* Handlers that are giving the answer r in this step. *)
Answers(h, r) == reply[h] # r /\ reply'[h] = r

(* However requests interleave with the main thread, no accepted run is    *)
(* lost, executed twice or overtaken: the accepted runs are those with a   *)
(* result, then the one in hand, then those still queued.                  *)
RunsExactlyOnceInOrder ==
  mainPc # "dead" => accepted = finished \o InHand \o runQueue

(* Only a run that is over and not evicted yet can be fetched by its id:   *)
(* a poll by id is told "not found" only for a run that has no result yet  *)
(* or whose id has left Ctx.ids (nfvbenchd.py:72-77).                      *)
NotFoundIsHonest ==
  [][\A h \in Handlers : Answers(h, "notFound") =>
        rid[h] \notin Range(finished) \/ rid[h] \notin Range(ids)]_vars

(* Ctx.result and Ctx.results hold results of finished runs only, and so   *)
(* does every answer to a poll, also one read before a concurrent poll     *)
(* cleared it (nfvbenchd.py:90-113).                                       *)
ResultIsOfFinishedRun ==
  /\ result # NoId => result \in Range(finished)
  /\ results \subseteq Range(finished)
  /\ \A h \in Handlers : reply[h] = "result" => loc[h] \in Range(finished)

(* The clients never have two requests in flight. *)
OneClientAtATime == \A g, h \in Handlers : g = h

(* With one client at a time a server that says it is free is free:        *)
(* nothing is queued and the main thread waits, so the busy check          *)
(* (nfvbenchd.py:140) does exclude a second run.                           *)
FreeMeansIdle ==
  ~busy => runQueue = <<>> /\ mainPc = "get"

(* One client at a time never leaves the server with more than MAXLEN      *)
(* results (nfvbenchd.py:58, 72) once its requests are answered.           *)
ResultsBounded ==
  (\A h \in Handlers : pc[h] = "idle") => Cardinality(results) <= MaxLen

(* A main thread that died (an exception the loop does not catch) leaves   *)
(* the server busy: every later start_run is refused, none is queued for   *)
(* a thread that will never take it.                                       *)
DeadServerRefuses == mainPc = "dead" => busy /\ runQueue = <<>>

(* Every accepted run gets a result, as long as the main thread lives.     *)
EveryAcceptedRunFinishes ==
  \A id \in RequestIds :
    id \in Range(accepted) ~> id \in Range(finished)

(* The server is busy, and nothing that is on its way will ever clear the  *)
(* flag: no run is queued or about to be, and the main thread waits.       *)
LockedOut ==
  /\ busy
  /\ runQueue = <<>>
  /\ mainPc = "get"
  /\ \A h \in Handlers : pc[h] # "put"

(* Only a body that is no object locks the clients out (nfvbenchd.py:68-69 *)
(* leaves the flag set and returns): no interleaving of submissions with   *)
(* release() and no error of a run does.                                   *)
OnlyBadBodiesLockOut ==
  [][~LockedOut /\ LockedOut' => \E h \in Handlers : Answers(h, "badBody")]_vars

(* As long as the main thread lives and no request has a body of the wrong *)
(* shape, the server becomes free again and again: no interleaving of      *)
(* concurrent submissions with release() leaves the busy flag set for      *)
(* ever.  After such a body it is free or locked out again and again, that *)
(* is, busy for ever at worst with no run on its way.                      *)
ServerBecomesFree ==
  /\ []<>(~busy \/ LockedOut)
  /\ []<>~busy \/ <>(\E h \in Handlers : reply[h] = "badBody")

-----------------------------------------------------------------------------
(* A run is pending from the moment it is queued until the server is free  *)
(* again, and completed from then on.                                      *)
StatusOfRun(id) ==
  IF id \notin Range(accepted) THEN "new"
  ELSE IF id \in Range(runQueue) \/ id = config THEN "pending"
  ELSE "completed"

Service == INSTANCE RunService
             WITH status <- [id \in RequestIds |-> StatusOfRun(id)]

(* One client at a time sees the documented service: a run is accepted     *)
(* only when none is pending, and every run completes once.                *)
ImplementsRunService == Service!Spec
=============================================================================
