----------------------------- MODULE MCCleanup -----------------------------
(* Cleanup of what a PVVP run, a furnished PVP run and a routed run leave, *)
(* or of parts of it.                                                      *)
EXTENDS Cleanup

Base == [type |-> "PVP", chains |-> 1, shared |-> FALSE, idle |-> 0,
         mgmt |-> FALSE, fip |-> FALSE, l3 |-> FALSE, keep |-> FALSE,
         az |-> "", hyp |-> "", admin |-> TRUE, stated |-> <<"", "">>]

Furnished == [Base EXCEPT !.idle = 1, !.mgmt = TRUE, !.fip = TRUE]
Routed == [Base EXCEPT !.l3 = TRUE]
TwoVnfs == [Base EXCEPT !.type = "PVVP"]

All(c) == Resources(Plan(c))
NoVms(c) == {r \in All(c) : r.kind # "vm"}

MCLeftovers ==
  {[g |-> c, left |-> S] : c \in {Furnished}, S \in {All(Furnished)}}
  \cup {[g |-> c, left |-> S] : c \in {TwoVnfs}, S \in {All(TwoVnfs), NoVms(TwoVnfs)}}
  \cup {[g |-> c, left |-> S] : c \in {Routed}, S \in {All(Routed), NoVms(Routed)}}

Word(first, letters, complete, want) ==
  [first |-> first, letters |-> letters, complete |-> complete, wanted |-> want]

(* Yes or all; nothing; each kind by its letter; the three names that hold *)
(* letters of other kinds; two letters at once.                            *)
MCAnswers ==
  {Word("y", {}, FALSE, Codes), Word("q", {}, FALSE, {})}
  \cup {Word(c, {c}, FALSE, {c}) : c \in Codes}
  \cup {Word("i", {"i", "n"}, TRUE, {"i"}), Word("f", {"f", "r"}, TRUE, {"f"}),
        Word("n", {"n", "r", "i", "f"}, TRUE, {"n"}), Word("r", {"r"}, TRUE, {"r"})}
  \cup {Word("f", {"f", "r"}, FALSE, {"f", "r"})}
=============================================================================
