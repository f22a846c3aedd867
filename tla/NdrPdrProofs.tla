---------------------------- MODULE NdrPdrProofs ----------------------------
(***************************************************************************)
(* Theorems about the NDR/PDR search, for any number of targets, any line  *)
(* rate and load_epsilon, and any drop curve, noisy or not.                *)
(***************************************************************************)
EXTENDS NdrPdrSearch, TLAPS

(* Every range is a proper one. *)
RangesProper == \A tag \in Tags : lo[tag] < hi[tag]

(* The two targets are in the same call. *)
SameRange(s, t) == lo[s] = lo[t] /\ hi[s] = hi[t]

(* A stricter target is in the same call as a laxer one, or in a lower one. *)
RangesOrdered ==
  \A s, t \in Tags :
    Target[s] <= Target[t] => SameRange(s, t) \/ hi[s] <= lo[t]

(* The targets of one call are announced together. *)
CallsEndTogether ==
  \A s, t \in Tags : lo[s] = lo[t] => (found[s] = None <=> found[t] = None)

(* The recorded and the announced load are the left bound of the range. *)
LeftIsBest ==
  \A tag \in Tags :
    /\ best[tag] # None => best[tag] = lo[tag]
    /\ found[tag] # None => found[tag] = lo[tag]

(* The first iteration measures for all targets. *)
FirstIterationIsShared ==
  /\ log # <<>> => \A tag \in Tags : best[tag] # None
  /\ log = <<>> => \A tag \in Tags : /\ lo[tag] = 0
                                     /\ hi[tag] = 2 * Line
                                     /\ found[tag] = None

(* No load inside a range still searched was measured yet. *)
RangesUnmeasured ==
  \A i \in DOMAIN log : \A tag \in Tags :
    log[i].load <= lo[tag] \/ log[i].load >= hi[tag]

Inv ==
  /\ TypeOK
  /\ RangesProper
  /\ RangesOrdered
  /\ CallsEndTogether
  /\ LeftIsBest
  /\ FirstIterationIsShared

(* The middle of a range that is not final lies strictly inside it. *)
LEMMA MiddleInside ==
  ASSUME TypeOK, NEW tag \in Tags, ~RangeIsFinal(tag)
  PROVE  /\ Middle(tag) \in Loads
         /\ lo[tag] < Middle(tag)
         /\ Middle(tag) < hi[tag]
<1>1. lo[tag] \in Loads /\ hi[tag] \in Loads
  BY DEF TypeOK
<1>2. hi[tag] - lo[tag] >= 2
  BY <1>1, SearchAssumption DEF RangeIsFinal, Loads
<1> QED
  BY <1>1, <1>2, SearchAssumption DEF Middle, Loads

(* The value that stands for an absent result is not a load. *)
LEMMA NoneIsNoLoad == None \notin Loads
BY SearchAssumption DEF Loads

(* Targets in the call that runs next share its range. *)
LEMMA CurrentShareRange ==
  ASSUME Inv, NEW s \in Current, NEW t \in Current
  PROVE  SameRange(s, t)
<1>1. lo[s] = lo[t] /\ s \in Tags /\ t \in Tags
  BY DEF Current, Searching, Inv, TypeOK, Loads
<1>2. Target[s] <= Target[t] \/ Target[t] <= Target[s]
  BY <1>1, SearchAssumption
<1> QED
  BY <1>1, <1>2 DEF Inv, TypeOK, RangesProper, RangesOrdered, SameRange, Loads

(* A target in another call than the one that runs next is out of its      *)
(* range, below or above.                                                  *)
LEMMA OthersApart ==
  ASSUME Inv, NEW s \in Current, NEW t \in Tags, t \notin Current
  PROVE  hi[t] <= lo[s] \/ hi[s] <= lo[t]
<1>1. s \in Tags /\ found[s] = None
  BY DEF Current, Searching
<1>2. ~SameRange(s, t)
  <2> SUFFICES ASSUME SameRange(s, t) PROVE FALSE
    OBVIOUS
  <2>1. found[t] = None
    BY <1>1 DEF SameRange, Inv, CallsEndTogether
  <2>2. t \in Current
    BY <1>1, <2>1 DEF SameRange, Current, Searching
  <2> QED
    BY <2>2
<1>3. Target[s] <= Target[t] \/ Target[t] <= Target[s]
  BY <1>1, SearchAssumption
<1> QED
  BY <1>1, <1>2, <1>3 DEF Inv, RangesOrdered, SameRange

-----------------------------------------------------------------------------
(* What one iteration does to the ranges. *)
Narrowed(load, drop) ==
  /\ \A t \in Current :
       \/ /\ drop <= Target[t]
          /\ lo'[t] = load /\ hi'[t] = hi[t] /\ best'[t] = load
       \/ /\ drop > Target[t]
          /\ lo'[t] = lo[t] /\ hi'[t] = load
          /\ best'[t] = IF best[t] = None THEN 0 ELSE best[t]
  /\ \A t \in Tags \ Current :
       lo'[t] = lo[t] /\ hi'[t] = hi[t] /\ best'[t] = best[t]

(* What one iteration at the middle of this target's range writes.         *)
IterationDone(tag, drop, warning) ==
  /\ log' = Append(log, [load |-> Middle(tag), drop |-> drop,
                         warning |-> warning])
  /\ lo' = [t \in Tags |-> IF t \in Current
                           THEN Split(t, Middle(tag), drop).lo ELSE lo[t]]
  /\ hi' = [t \in Tags |-> IF t \in Current
                           THEN Split(t, Middle(tag), drop).hi ELSE hi[t]]
  /\ best' = [t \in Tags |-> IF t \in Current
                             THEN Split(t, Middle(tag), drop).best
                             ELSE best[t]]

(* An iteration measures inside the range of the call that runs, narrows   *)
(* that range only, and leaves every variable in its type.                 *)
LEMMA IterateNarrows ==
  ASSUME Inv, Iterate
  PROVE  \E tag \in Current, drop \in Nat, warning \in BOOLEAN :
           /\ ~RangeIsFinal(tag)
           /\ drop \in curve[Middle(tag)]
           /\ log' = Append(log, [load |-> Middle(tag), drop |-> drop,
                                  warning |-> warning])
           /\ Narrowed(Middle(tag), drop)
           /\ UNCHANGED <<curve, found, runner, status, raised>>
           /\ lo' \in [Tags -> Loads]
           /\ hi' \in [Tags -> Loads]
           /\ best' \in [Tags -> Loads \cup {None}]
<1>1. PICK final \in Current : ~RangeIsFinal(final)
  BY DEF Iterate, CanIterate
<1>2. PICK tag \in Current :
        \E drop \in curve[Middle(tag)],
           warning \in {FALSE} \cup (IF "lowTx" \in Faults THEN {TRUE} ELSE {}) :
          IterationDone(tag, drop, warning)
  BY DEF Iterate, IterationDone
<1>3. tag \in Tags /\ final \in Tags /\ Current \subseteq Tags
  BY DEF Current, Searching
<1>4. ~RangeIsFinal(tag)
  BY <1>1, <1>3, CurrentShareRange DEF SameRange, RangeIsFinal
<1>5. Middle(tag) \in Loads
  BY <1>3, <1>4, MiddleInside DEF Inv
<1>6. PICK drop \in curve[Middle(tag)], warning \in BOOLEAN :
        IterationDone(tag, drop, warning)
  BY <1>2
<1>11. drop \in Nat
  BY <1>5, SearchAssumption DEF Inv, TypeOK
<1>7. \A t \in Current :
        Split(t, Middle(tag), drop) =
          IF drop <= Target[t]
          THEN [lo |-> Middle(tag), hi |-> hi[t], best |-> Middle(tag)]
          ELSE [lo |-> lo[t], hi |-> Middle(tag),
                best |-> IF best[t] = None THEN 0 ELSE best[t]]
  BY DEF Split
<1>8. Narrowed(Middle(tag), drop)
  BY <1>3, <1>6, <1>7, <1>11, SearchAssumption DEF IterationDone, Narrowed
<1>9. 0 \in Loads
  BY SearchAssumption DEF Loads
<1>10. /\ lo' \in [Tags -> Loads]
       /\ hi' \in [Tags -> Loads]
       /\ best' \in [Tags -> Loads \cup {None}]
  <2>1. lo \in [Tags -> Loads] /\ hi \in [Tags -> Loads]
        /\ best \in [Tags -> Loads \cup {None}]
    BY DEF Inv, TypeOK
  <2>2. \A t \in Current : /\ Split(t, Middle(tag), drop).lo \in Loads
                            /\ Split(t, Middle(tag), drop).hi \in Loads
                            /\ Split(t, Middle(tag), drop).best \in Loads \cup {None}
    BY <1>3, <1>5, <1>7, <1>9, <2>1
  <2> QED
    BY <1>6, <2>1, <2>2 DEF IterationDone
<1> QED
  BY <1>4, <1>6, <1>8, <1>10, <1>11 DEF Iterate, IterationDone

-----------------------------------------------------------------------------
(* An iteration keeps the inductive invariant: the targets of the call     *)
(* stay together or part at the measured load, the stricter ones below.    *)
LEMMA IterateKeepsInv == Inv /\ Iterate => Inv'
<1> SUFFICES ASSUME Inv, Iterate PROVE Inv'
  OBVIOUS
<1>1. PICK tag \in Current, drop \in Nat, warning \in BOOLEAN :
        /\ ~RangeIsFinal(tag)
        /\ drop \in curve[Middle(tag)]
        /\ log' = Append(log, [load |-> Middle(tag), drop |-> drop,
                               warning |-> warning])
        /\ Narrowed(Middle(tag), drop)
        /\ UNCHANGED <<curve, found, runner, status, raised>>
        /\ lo' \in [Tags -> Loads]
        /\ hi' \in [Tags -> Loads]
        /\ best' \in [Tags -> Loads \cup {None}]
  BY IterateNarrows
<1> DEFINE mid == Middle(tag)
<1>2. tag \in Tags /\ Current \subseteq Tags
  BY DEF Current, Searching
<1>3. mid \in Loads /\ lo[tag] < mid /\ mid < hi[tag]
  BY <1>1, <1>2, MiddleInside DEF Inv
<1>4. \A t \in Current : lo[t] = lo[tag] /\ hi[t] = hi[tag]
  BY CurrentShareRange DEF SameRange
<1>5. \A t \in Tags \ Current : hi[t] <= lo[tag] \/ hi[tag] <= lo[t]
  BY OthersApart
<1>6. \A t \in Tags : /\ lo[t] \in Loads /\ hi[t] \in Loads
                      /\ lo'[t] \in Loads /\ hi'[t] \in Loads
                      /\ Target[t] \in Nat
                      /\ lo[t] < hi[t]
  BY <1>1, SearchAssumption DEF Inv, TypeOK, RangesProper
<1> HIDE DEF mid
<1>7. /\ \A t \in Current :
           \/ /\ drop <= Target[t]
              /\ lo'[t] = mid /\ hi'[t] = hi[t] /\ best'[t] = mid
           \/ /\ drop > Target[t]
              /\ lo'[t] = lo[t] /\ hi'[t] = mid
              /\ best'[t] = IF best[t] = None THEN 0 ELSE best[t]
      /\ \A t \in Tags \ Current :
           lo'[t] = lo[t] /\ hi'[t] = hi[t] /\ best'[t] = best[t]
  BY <1>1 DEF Narrowed, mid
<1>8. TypeOK'
  <2>1. log' \in Seq([load : Loads, drop : Nat, warning : BOOLEAN])
    BY <1>1, <1>3 DEF Inv, TypeOK, mid
  <2> QED
    BY <1>1, <2>1 DEF Inv, TypeOK
<1>9. RangesProper'
  BY <1>2, <1>3, <1>4, <1>6, <1>7 DEF RangesProper, Loads
<1>10. RangesOrdered'
  <2> SUFFICES ASSUME NEW s \in Tags, NEW t \in Tags, Target[s] <= Target[t]
               PROVE  SameRange(s, t)' \/ hi'[s] <= lo'[t]
    BY DEF RangesOrdered
  <2>1. SameRange(s, t) \/ hi[s] <= lo[t]
    BY DEF Inv, RangesOrdered
  <2>2. CASE s \in Current /\ t \in Current
    BY <1>2, <1>3, <1>4, <1>6, <1>7, <2>2 DEF SameRange, Loads
  <2>3. CASE s \in Current /\ t \notin Current
    BY <1>2, <1>3, <1>4, <1>5, <1>6, <1>7, <2>1, <2>3 DEF SameRange, Loads
  <2>4. CASE s \notin Current /\ t \in Current
    BY <1>2, <1>3, <1>4, <1>5, <1>6, <1>7, <2>1, <2>4 DEF SameRange, Loads
  <2>5. CASE s \notin Current /\ t \notin Current
    BY <1>7, <2>1, <2>5 DEF SameRange
  <2> QED
    BY <2>2, <2>3, <2>4, <2>5
<1>11. CallsEndTogether'
  <2> SUFFICES ASSUME NEW s \in Tags, NEW t \in Tags, lo'[s] = lo'[t]
               PROVE  found[s] = None <=> found[t] = None
    BY <1>1 DEF CallsEndTogether
  <2>1. CASE s \in Current /\ t \in Current
    BY <2>1 DEF Current, Searching
  <2>2. CASE s \in Current <=> t \notin Current
    BY <1>2, <1>3, <1>4, <1>5, <1>6, <1>7, <2>2 DEF Loads
  <2>3. CASE s \notin Current /\ t \notin Current
    BY <1>7, <2>3 DEF Inv, CallsEndTogether
  <2> QED
    BY <2>1, <2>2, <2>3
<1>12. LeftIsBest' /\ FirstIterationIsShared'
  <2>1. \A t \in Current : found[t] = None
    BY DEF Current, Searching
  <2>2. log' # <<>>
    BY <1>1 DEF Inv, TypeOK
  <2>3. log = <<>> => Current = Tags
    BY <1>6 DEF Inv, FirstIterationIsShared, Current, Searching, Loads
  <2>4. \A t \in Current : best[t] = None => lo[t] = 0
    BY <1>2 DEF Inv, FirstIterationIsShared
  <2>5. mid # None /\ 0 # None
    BY <1>3, NoneIsNoLoad, SearchAssumption DEF Loads
  <2>6. LeftIsBest'
    BY <1>1, <1>2, <1>7, <2>1, <2>4, <2>5 DEF Inv, LeftIsBest
  <2>7. \A t \in Tags : best'[t] # None
    BY <1>7, <2>3, <2>5 DEF Inv, FirstIterationIsShared
  <2> QED
    BY <2>2, <2>6, <2>7 DEF FirstIterationIsShared
<1> QED
  BY <1>8, <1>9, <1>10, <1>11, <1>12 DEF Inv

(* The initial state satisfies the inductive invariant. *)
LEMMA InitGivesInv == Init => Inv
<1> SUFFICES ASSUME Init PROVE Inv
  OBVIOUS
<1>1. 0 \in Loads /\ 2 * Line \in Loads /\ 0 < 2 * Line
  BY SearchAssumption DEF Loads
<1>2. /\ \A t \in Tags : /\ lo[t] = 0 /\ hi[t] = 2 * Line
                         /\ best[t] = None /\ found[t] = None
      /\ log = <<>>
  BY DEF Init
<1>3. TypeOK
  <2>1. lo \in [Tags -> Loads] /\ hi \in [Tags -> Loads]
    BY <1>1 DEF Init
  <2>2. best \in [Tags -> Loads \cup {None}] /\ found \in [Tags -> Loads \cup {None}]
    BY DEF Init
  <2>3. log \in Seq([load : Loads, drop : Nat, warning : BOOLEAN])
    BY DEF Init
  <2> QED
    BY <2>1, <2>2, <2>3 DEF Init, TypeOK
<1>4. RangesProper /\ RangesOrdered /\ CallsEndTogether
  BY <1>1, <1>2 DEF RangesProper, RangesOrdered, SameRange, CallsEndTogether
<1>5. LeftIsBest /\ FirstIterationIsShared
  BY <1>2 DEF LeftIsBest, FirstIterationIsShared
<1> QED
  BY <1>3, <1>4, <1>5 DEF Inv

(* Announcing the targets of the call that runs, at the end of its range   *)
(* or after an STLError, keeps the inductive invariant.                    *)
LEMMA TargetsFoundKeepsInv ==
  ASSUME Inv, TargetsFound, status = "searching",
         UNCHANGED <<curve, lo, hi, best, log>>,
         runner' \in BOOLEAN, raised' \in BOOLEAN
  PROVE  Inv'
<1>1. CASE log = <<>> /\ status' = "failed" /\ UNCHANGED found
  BY <1>1 DEF Inv, TypeOK, RangesProper, RangesOrdered, SameRange,
              CallsEndTogether, LeftIsBest, FirstIterationIsShared
<1>2. CASE /\ log # <<>>
           /\ found' = [tag \in Tags |-> IF tag \in Current THEN lo[tag]
                                                         ELSE found[tag]]
           /\ UNCHANGED status
  <2>1. /\ \A t \in Current : t \in Tags /\ found'[t] = lo[t] /\ found[t] = None
        /\ \A t \in Tags \ Current : found'[t] = found[t]
    BY <1>2 DEF Current, Searching
  <2>2. TypeOK'
    <3>1. found' \in [Tags -> Loads \cup {None}]
      BY <1>2 DEF Inv, TypeOK
    <3> QED
      BY <1>2, <3>1 DEF Inv, TypeOK
  <2>3. \A t \in Tags : lo[t] # None
    BY NoneIsNoLoad DEF Inv, TypeOK
  <2>4. CallsEndTogether'
    <3> SUFFICES ASSUME NEW s \in Tags, NEW t \in Tags, lo[s] = lo[t]
                 PROVE  found'[s] = None <=> found'[t] = None
      BY DEF CallsEndTogether
    <3>1. found[s] = None <=> found[t] = None
      BY DEF Inv, CallsEndTogether
    <3>2. s \in Current <=> t \in Current
      BY <3>1 DEF Current, Searching
    <3> QED
      BY <2>1, <2>3, <3>1, <3>2
  <2>5. LeftIsBest'
    BY <2>1 DEF Inv, LeftIsBest
  <2>6. RangesProper' /\ RangesOrdered' /\ FirstIterationIsShared'
    BY <1>2 DEF Inv, RangesProper, RangesOrdered, SameRange,
                FirstIterationIsShared
  <2> QED
    BY <2>2, <2>4, <2>5, <2>6 DEF Inv
<1> QED
  BY <1>1, <1>2 DEF TargetsFound

(* Every step of the search keeps the inductive invariant. *)
LEMMA InvInductive == Inv /\ [Next]_vars => Inv'
<1> SUFFICES ASSUME Inv, [Next]_vars PROVE Inv'
  OBVIOUS
<1> USE DEF Inv, TypeOK, RangesProper, RangesOrdered, SameRange,
            CallsEndTogether, LeftIsBest, FirstIterationIsShared
<1>1. CASE EndRange
  BY <1>1, TargetsFoundKeepsInv DEF EndRange
<1>2. CASE Iterate
  BY <1>2, IterateKeepsInv
<1>3. CASE IterationRaises
  BY <1>3, TargetsFoundKeepsInv DEF IterationRaises, CanIterate
<1>4. CASE IterationBlocked
  BY <1>4 DEF IterationBlocked
<1>5. CASE NoTransmission
  BY <1>5 DEF NoTransmission
<1>6. CASE Report
  BY <1>6 DEF Report
<1>7. CASE UNCHANGED vars
  BY <1>7 DEF vars
<1> QED
  BY <1>1, <1>2, <1>3, <1>4, <1>5, <1>6, <1>7 DEF Next

(* The inductive invariant holds throughout the search. *)
LEMMA Invariance == Spec => []Inv
BY InitGivesInv, InvInductive, PTL DEF Spec

-----------------------------------------------------------------------------
(* The variables stay in their types: in particular every load the search  *)
(* reaches is between 0 and twice line rate.                               *)
THEOREM SearchTyping == Spec => []TypeOK
<1>1. Inv => TypeOK
  BY DEF Inv
<1> QED
  BY <1>1, Invariance, PTL

(* The load that __targets_found announces for a target is the one the     *)
(* returned result carries, though __range_search and its caller write     *)
(* them apart: neither ever leaves the left bound of the range.            *)
THEOREM AnnouncedLoadIsRecorded == Spec => []AnnouncedIsRecorded
<1>1. Inv => AnnouncedIsRecorded
  BY DEF Inv, LeftIsBest, FirstIterationIsShared, AnnouncedIsRecorded
<1> QED
  BY <1>1, Invariance, PTL

(* NDR <= PDR whatever the measurements give and wherever the generator    *)
(* raises: the target ranges part in the order of the target drop rates.   *)
THEOREM StricterTargetIsLower == Spec => []StricterIsLower
<1>1. Inv => StricterIsLower
  <2> SUFFICES ASSUME Inv, NEW s \in Tags, NEW t \in Tags,
                      Target[s] <= Target[t],
                      found[s] # None, found[t] # None
               PROVE  found[s] <= found[t]
    BY DEF StricterIsLower
  <2>1. found[s] = lo[s] /\ found[t] = lo[t]
    BY DEF Inv, LeftIsBest
  <2>2. SameRange(s, t) \/ hi[s] <= lo[t]
    BY DEF Inv, RangesOrdered
  <2>3. /\ lo[s] \in Int /\ hi[s] \in Int /\ lo[t] \in Int
        /\ lo[s] < hi[s]
    BY DEF Inv, TypeOK, RangesProper, Loads
  <2> QED
    BY <2>1, <2>2, <2>3 DEF SameRange
<1> QED
  BY <1>1, Invariance, PTL

-----------------------------------------------------------------------------
(* The inductive invariant with what it says of the loads measured so far. *)
FullInv == Inv /\ RangesUnmeasured /\ NoLoadMeasuredTwice

(* The load of an iteration is inside the range of the call that runs: no  *)
(* earlier iteration measured it, and after the split it is a bound of the *)
(* range of every target that was in that call.                            *)
LEMMA IterateMeasuresAfresh ==
  ASSUME FullInv, Iterate
  PROVE  (RangesUnmeasured /\ NoLoadMeasuredTwice)'
<1>0. Inv
  BY DEF FullInv
<1>1. PICK tag \in Current, drop \in Nat, warning \in BOOLEAN :
        /\ ~RangeIsFinal(tag)
        /\ drop \in curve[Middle(tag)]
        /\ log' = Append(log, [load |-> Middle(tag), drop |-> drop,
                               warning |-> warning])
        /\ Narrowed(Middle(tag), drop)
        /\ UNCHANGED <<curve, found, runner, status, raised>>
        /\ lo' \in [Tags -> Loads]
        /\ hi' \in [Tags -> Loads]
        /\ best' \in [Tags -> Loads \cup {None}]
  BY <1>0, IterateNarrows
<1> DEFINE mid == Middle(tag)
<1>2. tag \in Tags /\ Current \subseteq Tags
  BY DEF Current, Searching
<1>3. mid \in Int /\ lo[tag] < mid /\ mid < hi[tag]
  BY <1>0, <1>1, <1>2, MiddleInside DEF Inv, Loads
<1>4. \A t \in Current : lo[t] = lo[tag] /\ hi[t] = hi[tag]
  BY <1>0, CurrentShareRange DEF SameRange
<1>5. \A t \in Tags \ Current : hi[t] <= lo[tag] \/ hi[tag] <= lo[t]
  BY <1>0, OthersApart
<1>6. \A t \in Tags : lo[t] \in Int /\ hi[t] \in Int /\ lo[t] < hi[t]
  BY <1>0 DEF Inv, TypeOK, RangesProper, Loads
<1>8. log \in Seq([load : Loads, drop : Nat, warning : BOOLEAN])
  BY <1>0 DEF Inv, TypeOK
<1>7. \A i \in DOMAIN log : log[i].load \in Int
  <2> DEFINE Entry == [load : Loads, drop : Nat, warning : BOOLEAN]
  <2>0. \A e \in Entry : e.load \in Loads
    OBVIOUS
  <2>3. log \in Seq(Entry)
    BY <1>8
  <2> HIDE DEF Entry
  <2>1. \A i \in DOMAIN log : log[i].load \in Loads
    BY <2>0, <2>3
  <2>2. Loads \subseteq Int
    BY DEF Loads
  <2> QED
    BY <2>1, <2>2
<1> HIDE DEF mid
<1>9. /\ \A t \in Current : \/ lo'[t] = mid /\ hi'[t] = hi[t]
                            \/ lo'[t] = lo[t] /\ hi'[t] = mid
      /\ \A t \in Tags \ Current : lo'[t] = lo[t] /\ hi'[t] = hi[t]
  BY <1>1 DEF Narrowed, mid
<1>10. /\ DOMAIN log' = DOMAIN log \cup {Len(log) + 1}
       /\ Len(log) + 1 \notin DOMAIN log
       /\ \A i \in DOMAIN log : log'[i] = log[i]
       /\ log'[Len(log) + 1].load = mid
  BY <1>1, <1>8 DEF mid
<1>11. \A i \in DOMAIN log : log[i].load # mid
  BY <1>2, <1>3, <1>6, <1>7 DEF FullInv, RangesUnmeasured
<1>12. NoLoadMeasuredTwice'
  BY <1>10, <1>11 DEF FullInv, NoLoadMeasuredTwice
<1>13. RangesUnmeasured'
  <2> SUFFICES ASSUME NEW i \in DOMAIN log', NEW t \in Tags
               PROVE  log'[i].load <= lo'[t] \/ log'[i].load >= hi'[t]
    BY DEF RangesUnmeasured
  <2>1. CASE i \in DOMAIN log
    <3>1. log[i].load <= lo[t] \/ log[i].load >= hi[t]
      BY <2>1 DEF FullInv, RangesUnmeasured
    <3>2. lo[t] <= lo'[t] /\ hi'[t] <= hi[t] /\ lo'[t] \in Int /\ hi'[t] \in Int
      BY <1>2, <1>3, <1>4, <1>6, <1>9
    <3> QED
      BY <1>6, <1>7, <1>10, <2>1, <3>1, <3>2
  <2>2. CASE i = Len(log) + 1
    <3>1. mid <= lo'[t] \/ mid >= hi'[t]
      BY <1>2, <1>3, <1>4, <1>5, <1>6, <1>9
    <3> QED
      BY <1>10, <2>2, <3>1
  <2> QED
    BY <1>10, <2>1, <2>2
<1> QED
  BY <1>12, <1>13

(* A search for several targets at once never runs the same load twice,    *)
(* for any number of targets: a measured load bounds every open range.     *)
THEOREM LoadsAreMeasuredOnce == Spec => []NoLoadMeasuredTwice
<1>1. Init => FullInv
  BY InitGivesInv DEF Init, FullInv, RangesUnmeasured, NoLoadMeasuredTwice
<1>2. FullInv /\ [Next]_vars => FullInv'
  <2> SUFFICES ASSUME FullInv, [Next]_vars PROVE FullInv'
    OBVIOUS
  <2>1. Inv'
    BY InvInductive DEF FullInv
  <2>2. CASE Iterate
    BY <2>1, <2>2, IterateMeasuresAfresh DEF FullInv
  <2>3. CASE UNCHANGED <<lo, hi, log>>
    BY <2>1, <2>3 DEF FullInv, RangesUnmeasured, NoLoadMeasuredTwice
  <2> QED
    BY <2>2, <2>3 DEF Next, EndRange, IterationRaises, IterationBlocked,
                      NoTransmission, Report, vars
<1> QED
  BY <1>1, <1>2, PTL DEF Spec, FullInv

-----------------------------------------------------------------------------
(* Every result other than 0 rests on an iteration in the log: the         *)
(* iteration that records it is appended in the same step, and nothing     *)
(* ever leaves the log.                                                    *)
THEOREM ResultsAreMeasured == Spec => []RecordedIsMeasured
<1>1. Init => RecordedIsMeasured
  BY DEF Init, RecordedIsMeasured
<1>2. Inv /\ RecordedIsMeasured /\ [Next]_vars => RecordedIsMeasured'
  <2> SUFFICES ASSUME Inv, RecordedIsMeasured, [Next]_vars
               PROVE  RecordedIsMeasured'
    OBVIOUS
  <2>1. CASE Iterate
    <3>1. PICK tag \in Current, drop \in Nat, warning \in BOOLEAN :
            /\ log' = Append(log, [load |-> Middle(tag), drop |-> drop,
                                   warning |-> warning])
            /\ Narrowed(Middle(tag), drop)
      BY <2>1, IterateNarrows
    <3> DEFINE mid == Middle(tag)
    <3>2. /\ DOMAIN log' = DOMAIN log \cup {Len(log) + 1}
          /\ \A i \in DOMAIN log : log'[i] = log[i]
          /\ log'[Len(log) + 1].load = mid
          /\ log'[Len(log) + 1].drop = drop
      BY <3>1 DEF Inv, TypeOK
    <3>3. \A t \in Tags : \/ best'[t] = mid /\ drop <= Target[t]
                          \/ best'[t] = 0
                          \/ best'[t] = best[t]
      BY <3>1 DEF Narrowed
    <3> HIDE DEF mid
    <3>4. SUFFICES ASSUME NEW t \in Tags
                   PROVE  \/ best'[t] \in {None, 0}
                          \/ \E i \in DOMAIN log' :
                               /\ log'[i].load = best'[t]
                               /\ log'[i].drop <= Target[t]
      BY DEF RecordedIsMeasured
    <3>5. CASE best'[t] = mid /\ drop <= Target[t]
      BY <3>2, <3>5
    <3>6. CASE best'[t] = best[t]
      BY <3>2, <3>6 DEF RecordedIsMeasured
    <3> QED
      BY <3>3, <3>5, <3>6
  <2>2. CASE UNCHANGED <<best, log>>
    BY <2>2 DEF RecordedIsMeasured
  <2> QED
    BY <2>1, <2>2 DEF Next, EndRange, IterationRaises, IterationBlocked,
                      NoTransmission, Report, vars
<1> QED
  BY <1>1, <1>2, Invariance, PTL DEF Spec

-----------------------------------------------------------------------------
(* The right bound of a range was measured to drop too much, unless it is  *)
(* still the bound the search began with.                                  *)
RightBoundFails ==
  \A tag \in Tags :
    hi[tag] = 2 * Line \/ \E d \in curve[hi[tag]] : d > Target[tag]

(* Without an STLError, a target is announced only when its range cannot   *)
(* be narrowed further.                                                    *)
AnnouncedWhenFinal ==
  ~raised => \A tag \in Tags : found[tag] # None => RangeIsFinal(tag)

(* The accuracy the design document promises (ndrpdr.rst:33), for every    *)
(* line rate, load_epsilon and set of targets: a load up to line rate that *)
(* is load_epsilon above the announced one lies beyond a measured failure. *)
THEOREM ResultIsWithinEpsilon == Spec => []WithinEpsilon
<1>1. Init => RightBoundFails /\ AnnouncedWhenFinal
  BY DEF Init, RightBoundFails, AnnouncedWhenFinal
<1>2. ASSUME Inv, Inv', RightBoundFails, AnnouncedWhenFinal, [Next]_vars
      PROVE  (RightBoundFails /\ AnnouncedWhenFinal)'
  <2>1. CASE Iterate
    <3>1. PICK tag \in Current, drop \in Nat, warning \in BOOLEAN :
            /\ drop \in curve[Middle(tag)]
            /\ Narrowed(Middle(tag), drop)
            /\ UNCHANGED <<curve, found, runner, status, raised>>
      BY <1>2, <2>1, IterateNarrows
    <3>2. \A t \in Tags :
            \/ hi'[t] = hi[t]
            \/ hi'[t] = Middle(tag) /\ drop > Target[t]
      BY <3>1 DEF Narrowed
    <3>3. RightBoundFails'
      BY <1>2, <3>1, <3>2 DEF RightBoundFails
    <3>4. \A t \in Tags : found[t] # None => lo'[t] = lo[t] /\ hi'[t] = hi[t]
      BY <3>1 DEF Narrowed, Current, Searching
    <3>5. AnnouncedWhenFinal'
      BY <1>2, <3>1, <3>4 DEF AnnouncedWhenFinal, RangeIsFinal
    <3> QED
      BY <3>3, <3>5
  <2>2. CASE EndRange
    <3>1. \A t \in Current : RangeIsFinal(t)
      BY <1>2, <2>2, CurrentShareRange DEF EndRange, RangeIsFinal, SameRange
    <3>2. \A t \in Tags : found'[t] = found[t] \/ t \in Current
      BY <2>2 DEF EndRange, TargetsFound
    <3> QED
      BY <1>2, <2>2, <3>1, <3>2
      DEF EndRange, RightBoundFails, AnnouncedWhenFinal, RangeIsFinal
  <2>3. CASE IterationRaises
    BY <1>2, <2>3 DEF IterationRaises, RightBoundFails, AnnouncedWhenFinal
  <2>4. CASE UNCHANGED <<curve, lo, hi, found, raised>>
    BY <1>2, <2>4 DEF RightBoundFails, AnnouncedWhenFinal, RangeIsFinal
  <2> QED
    BY <1>2, <2>1, <2>2, <2>3, <2>4
    DEF Next, IterationBlocked, NoTransmission, Report, vars
<1>3. Inv /\ RightBoundFails /\ AnnouncedWhenFinal => WithinEpsilon
  <2> SUFFICES ASSUME Inv, RightBoundFails, AnnouncedWhenFinal, ~raised,
                      Monotone(curve), NEW tag \in Tags, found[tag] # None,
                      NEW l \in (found[tag] + Epsilon)..Line,
                      NEW d \in curve[l]
               PROVE  d > Target[tag]
    BY DEF WithinEpsilon
  <2>1. found[tag] = lo[tag] /\ RangeIsFinal(tag)
    BY DEF Inv, LeftIsBest, AnnouncedWhenFinal
  <2>2. /\ lo[tag] \in Loads /\ hi[tag] \in Loads /\ Target[tag] \in Nat
    BY SearchAssumption DEF Inv, TypeOK
  <2>3. /\ l \in Loads /\ l <= Line /\ lo[tag] + Epsilon <= l
    BY <2>1, <2>2, SearchAssumption DEF Loads
  <2>4. hi[tag] <= l /\ hi[tag] # 2 * Line
    BY <2>1, <2>2, <2>3, SearchAssumption DEF RangeIsFinal, Loads
  <2>5. PICK e \in curve[hi[tag]] : e > Target[tag]
    BY <2>4 DEF RightBoundFails
  <2>6. e <= d
    BY <2>2, <2>3, <2>4, <2>5 DEF Monotone
  <2>7. curve[l] \subseteq Nat /\ curve[hi[tag]] \subseteq Nat
    BY <2>2, <2>3, SearchAssumption DEF Inv, TypeOK
  <2> QED
    BY <2>2, <2>5, <2>6, <2>7
<1> QED
  BY <1>1, <1>2, <1>3, Invariance, PTL DEF Spec
=============================================================================
