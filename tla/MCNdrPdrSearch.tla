-------------------------- MODULE MCNdrPdrSearch --------------------------
(* NdrPdrSearch for an NDR and a PDR target on small curves.  Drop rates   *)
(* are 0 (within both), 1 (within PDR only) and 2 (within none).           *)
EXTENDS NdrPdrSearch

MCTags == {"ndr", "pdr"}
MCTarget == [tag \in MCTags |-> IF tag = "ndr" THEN 0 ELSE 1]
MCDrops == 0..2

(* Measurements that say anything: the curve is no curve at all. *)
NoisyCurves == {[l \in Loads |-> MCDrops]}

(* Every curve that never decreases, given by the loads at which the drop  *)
(* rate leaves 0 and 1.                                                    *)
MonotoneCurves ==
  {[l \in Loads |-> {IF l < a THEN 0 ELSE IF l < b THEN 1 ELSE 2}] :
     <<a, b>> \in {p \in (0..Line + 1) \X (0..Line + 1) : p[1] <= p[2]}}

MCCurves == NoisyCurves \cup MonotoneCurves
=============================================================================
