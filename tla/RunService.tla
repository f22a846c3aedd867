----------------------------- MODULE RunService -----------------------------
(***************************************************************************)
(* What the nfvbench server does for one client at a time, seen from       *)
(* outside (nfvbenchd.py:135-144, 189-221): it executes one run at a time, *)
(* refuses a run while one is pending, and a completed run stays so.       *)
(***************************************************************************)
CONSTANT RequestIds

VARIABLE status   (* what became of each request id *)

Statuses == {"new", "pending", "completed"}

Init == status = [id \in RequestIds |-> "new"]

Submit(id) ==
  /\ status[id] = "new"
  /\ \A other \in RequestIds : status[other] # "pending"
  /\ status' = [status EXCEPT ![id] = "pending"]

Complete(id) ==
  /\ status[id] = "pending"
  /\ status' = [status EXCEPT ![id] = "completed"]

Next == \E id \in RequestIds : Submit(id) \/ Complete(id)

Spec == Init /\ [][Next]_status
=============================================================================
