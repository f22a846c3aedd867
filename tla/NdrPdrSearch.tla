---------------------------- MODULE NdrPdrSearch ----------------------------
(***************************************************************************)
(* The NDR/PDR search (TrafficClient.get_ndr_and_pdr, __range_search and   *)
(* __run_search_iteration in nfvbench/traffic_client.py): one binary       *)
(* search over the load finds, for each target drop rate, the highest load *)
(* whose drop rate does not exceed it.                                     *)
(*                                                                         *)
(* __range_search is recursive; each call has a range and the targets      *)
(* still to be found in it, and searches the lower half before the upper   *)
(* one.  Every target is in exactly one pending call at any time, so the   *)
(* model keeps the range of each target instead of the call stack; the     *)
(* call that runs next is the one with the lowest range.                   *)
(*                                                                         *)
(* Loads are counted in a unit that divides 100% of line rate into Line    *)
(* steps; the code halves floats, exactly, so Line is a power of two and   *)
(* the ranges the search visits have integer bounds.                       *)
(***************************************************************************)
EXTENDS Integers, Sequences

CONSTANTS
  Tags,     (* the targets searched: 'ndr', 'pdr' *)
  Target,   (* the highest drop rate each of them tolerates *)
  Line,     (* 100% of line rate per direction, in load units *)
  Epsilon,  (* config.measurement.load_epsilon, in load units *)
  Curves,   (* for each load, the drop rates a measurement at it may give *)
  Faults,   (* what may go wrong with an iteration, see Fault *)
  None      (* no load yet *)

Loads == 0..(2 * Line)

Fault == {"stlIdle",     (* STLError before traffic runs *)
          "stlRunning",  (* STLError while it runs, which nobody stops *)
          "noTx",        (* nothing transmitted: log_stats exits *)
          "lowTx"}       (* the generator sends less than requested *)

ASSUME SearchAssumption ==
  /\ Line \in Nat \ {0}
  /\ Epsilon \in Nat /\ Epsilon >= 2 /\ Epsilon <= 2 * Line
  /\ Target \in [Tags -> Nat]
  /\ Curves \subseteq [Loads -> SUBSET Nat]
  /\ Faults \subseteq Fault
  /\ None \notin Int

VARIABLES
  curve,    (* how the system under test drops, chosen once *)
  lo, hi,   (* left and right of the pending call each target is in *)
  best,     (* results[tag]['load_percent_per_direction'], None if absent *)
  found,    (* the load announced for each target, None while searching *)
  log,      (* iteration_collector.stats: the iterations so far *)
  runner,   (* whether the TrafficRunner believes traffic is running *)
  status,   (* of the whole search *)
  raised    (* history: an iteration raised STLError *)

vars == <<curve, lo, hi, best, found, log, runner, status, raised>>

Searching == {tag \in Tags : found[tag] = None}

(* The load of the next iteration. *)
Middle(tag) == (lo[tag] + hi[tag]) \div 2

(* The targets of the call that runs next. *)
Current ==
  {tag \in Searching : \A other \in Searching : lo[tag] <= lo[other]}

Init ==
  /\ curve \in Curves
  /\ lo = [tag \in Tags |-> 0]
  /\ hi = [tag \in Tags |-> 2 * Line]
  /\ best = [tag \in Tags |-> None]
  /\ found = [tag \in Tags |-> None]
  /\ log = <<>>
  /\ runner = FALSE
  /\ status = "searching"
  /\ raised = FALSE

(* The range of this target cannot be narrowed further: it is smaller than *)
(* load_epsilon, or it is the upper half of the first range, above 100%.   *)
RangeIsFinal(tag) == hi[tag] - lo[tag] < Epsilon \/ lo[tag] >= Line

(* A range is left to narrow: the code runs an iteration at its middle.    *)
CanIterate == status = "searching" /\ \E tag \in Current : ~RangeIsFinal(tag)

-----------------------------------------------------------------------------
(* Seeded faults: the steps below with a plausible slip. *)

(* The middle is announced instead of the left bound. *)
TargetsFoundMiddle ==
  /\ found' = [tag \in Tags |->
                 IF tag \in Current THEN Middle(tag) ELSE found[tag]]
  /\ UNCHANGED status

(* A failing drop rate also becomes the recorded result. *)
SplitRecordsFailure(tag, load, drop) ==
  [lo |-> IF drop <= Target[tag] THEN load ELSE lo[tag],
   hi |-> IF drop <= Target[tag] THEN hi[tag] ELSE load,
   best |-> load]

(* The comparison the wrong way round. *)
SplitReversed(tag, load, drop) ==
  IF drop <= Target[tag]
  THEN [lo |-> lo[tag], hi |-> load, best |-> lo[tag]]
  ELSE [lo |-> load, hi |-> hi[tag], best |-> load]

(* The range keeps its lower bound when the load passes. *)
SplitKeepsLeft(tag, load, drop) ==
  IF drop <= Target[tag]
  THEN [lo |-> lo[tag], hi |-> hi[tag], best |-> load]
  ELSE [lo |-> lo[tag], hi |-> load,
        best |-> IF best[tag] = None THEN 0 ELSE best[tag]]

(* The upper half is as wide as the whole range was. *)
SplitKeepsWidth(tag, load, drop) ==
  IF drop <= Target[tag]
  THEN [lo |-> load, hi |-> load + (hi[tag] - lo[tag]), best |-> load]
  ELSE [lo |-> lo[tag], hi |-> load,
        best |-> IF best[tag] = None THEN 0 ELSE best[tag]]

(* A load that drops exactly the target rate fails. *)
SplitStrict(tag, load, drop) ==
  IF drop < Target[tag]
  THEN [lo |-> load, hi |-> hi[tag], best |-> load]
  ELSE [lo |-> lo[tag], hi |-> load,
        best |-> IF best[tag] = None THEN 0 ELSE best[tag]]

(* The iteration waits for the running traffic, which nobody stops. *)
IterationBlockedWaits ==
  /\ CanIterate /\ runner
  /\ UNCHANGED vars

-----------------------------------------------------------------------------
(* __targets_found: announce the left bound of the range of each target of *)
(* this call.  With no iteration behind it there are no statistics to tag: *)
(* IndexError ends the search.                                             *)
TargetsFound ==
  \/ /\ log # <<>>
     /\ found' = [tag \in Tags |-> IF tag \in Current THEN lo[tag] ELSE found[tag]]
     /\ UNCHANGED status
  \/ /\ log = <<>>
     /\ status' = "failed"
     /\ UNCHANGED found

(* How a measured drop rate narrows the range of a target and what it      *)
(* records for it; the first failure records a result of all zeros.        *)
Split(tag, load, drop) ==
  IF drop <= Target[tag]
  THEN [lo |-> load, hi |-> hi[tag], best |-> load]
  ELSE [lo |-> lo[tag], hi |-> load,
        best |-> IF best[tag] = None THEN 0 ELSE best[tag]]

EndRange ==
  /\ status = "searching"
  /\ \E tag \in Current : RangeIsFinal(tag)
  /\ TargetsFound
  /\ UNCHANGED <<curve, lo, hi, best, log, runner, raised>>

(* One iteration at the middle load that completes, and the split of the   *)
(* targets by its average drop rate.  The warning compare_tx_rates gives   *)
(* when the generator sent less than requested is recorded and that is all.*)
Iterate ==
  /\ CanIterate /\ ~runner
  /\ \E tag \in Current :
       LET load == Middle(tag)
       IN \E drop \in curve[load],
             warning \in {FALSE} \cup (IF "lowTx" \in Faults THEN {TRUE} ELSE {}) :
            /\ log' = Append(log, [load |-> load, drop |-> drop,
                                   warning |-> warning])
            /\ lo' = [t \in Tags |-> IF t \in Current THEN Split(t, load, drop).lo
                                                      ELSE lo[t]]
            /\ hi' = [t \in Tags |-> IF t \in Current THEN Split(t, load, drop).hi
                                                      ELSE hi[t]]
            /\ best' = [t \in Tags |-> IF t \in Current
                                       THEN Split(t, load, drop).best
                                       ELSE best[t]]
  /\ UNCHANGED <<curve, found, runner, status, raised>>

(* An STLError of the traffic generator: the targets of this call are      *)
(* announced at its left bound.  Raised while traffic runs, it leaves      *)
(* runner.start_time set.                                                  *)
IterationRaises ==
  /\ CanIterate /\ ~runner
  /\ \/ /\ "stlIdle" \in Faults
        /\ UNCHANGED runner
     \/ /\ "stlRunning" \in Faults
        /\ runner' = TRUE
  /\ raised' = TRUE
  /\ TargetsFound
  /\ UNCHANGED <<curve, lo, hi, best, log>>

(* With a runner that believes it is running, run() returns None and       *)
(* log_stats(None) raises TypeError, which nothing catches.                *)
IterationBlocked ==
  /\ CanIterate /\ runner
  /\ status' = "failed"
  /\ UNCHANGED <<curve, lo, hi, best, found, log, runner, raised>>

(* log_stats sees no packet transmitted since its last reading: sys.exit. *)
NoTransmission ==
  /\ CanIterate /\ ~runner
  /\ "noTx" \in Faults
  /\ runner' = TRUE
  /\ status' = "exited"
  /\ UNCHANGED <<curve, lo, hi, best, found, log, raised>>

(* get_ndr_and_pdr returns the results. *)
Report ==
  /\ status = "searching"
  /\ Searching = {}
  /\ status' = "done"
  /\ UNCHANGED <<curve, lo, hi, best, found, log, runner, raised>>

Next ==
  \/ EndRange
  \/ Iterate
  \/ IterationRaises
  \/ IterationBlocked
  \/ NoTransmission
  \/ Report

Spec == Init /\ [][Next]_vars

(* The search runs in one thread that nothing blocks. *)
FairSpec == Spec /\ WF_vars(Next)

-----------------------------------------------------------------------------
TypeOK ==
  /\ curve \in Curves
  /\ lo \in [Tags -> Loads]
  /\ hi \in [Tags -> Loads]
  /\ best \in [Tags -> Loads \cup {None}]
  /\ found \in [Tags -> Loads \cup {None}]
  /\ log \in Seq([load : Loads, drop : Nat, warning : BOOLEAN])
  /\ runner \in BOOLEAN
  /\ status \in {"searching", "done", "failed", "exited"}
  /\ raised \in BOOLEAN

(* The load announced for a target, to the log, the interval and the       *)
(* iteration statistics (traffic_client.py:1145-1149, 1183-1187), is the   *)
(* one the returned result carries, though the two are written apart.      *)
AnnouncedIsRecorded ==
  \A tag \in Tags : found[tag] # None => found[tag] = best[tag]

(* A returned load other than 0 was really measured, and dropped no more   *)
(* than the target tolerates.                                              *)
RecordedIsMeasured ==
  \A tag \in Tags :
    best[tag] \in {None, 0} \/
    \E i \in DOMAIN log :
      log[i].load = best[tag] /\ log[i].drop <= Target[tag]

(* However noisy the measurements and wherever the generator fails, a      *)
(* stricter target never gets a higher load: NDR <= PDR.                   *)
StricterIsLower ==
  \A s, t \in Tags :
    /\ Target[s] <= Target[t]
    /\ found[s] # None /\ found[t] # None
    => found[s] <= found[t]

(* Searching all targets in one pass never runs the same load twice        *)
(* (docs/developer/design/ndrpdr.rst:48-51, the point of the algorithm).   *)
NoLoadMeasuredTwice ==
  \A i, j \in DOMAIN log : log[i].load = log[j].load => i = j

(* The drop rate is a function of the load that never decreases. *)
Monotone(c) ==
  \A l, m \in Loads : l <= m => \A d \in c[l], e \in c[m] : d <= e

(* docs/developer/design/ndrpdr.rst:33: with a monotone drop curve (line   *)
(* 48) and no error of the generator, the result is within load_epsilon of *)
(* the actual rate: every load up to line rate that is load_epsilon higher *)
(* drops too much.                                                         *)
WithinEpsilon ==
  ~raised /\ Monotone(curve) =>
    \A tag \in Tags :
      found[tag] # None =>
        \A l \in (found[tag] + Epsilon)..Line :
          \A d \in curve[l] : d > Target[tag]

(* The search ends, one way or another. *)
SearchEnds == <>(status # "searching")
=============================================================================
