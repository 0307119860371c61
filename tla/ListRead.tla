------------------------------ MODULE ListRead ------------------------------
(***************************************************************************)
(* What a data-source read of a UniFi collection promises its caller: one  *)
(* answer, and when the answer is a list, that list is the collection as   *)
(* it stood at some instant between the call and the answer.  While the    *)
(* read runs the collection may only grow at its end, so "some instant"    *)
(* is any prefix that holds the rows of the moment of the call.            *)
(*                                                                         *)
(* Pagination.tla refines this module: there the list is assembled from    *)
(* many GETs.                                                              *)
(***************************************************************************)
EXTENDS Integers, Sequences

VARIABLES
  coll,     \* the collection the controller holds
  present,  \* how many rows it held when the read was called
  answer    \* "none", "deferred", "error", or the rows returned

vars == <<coll, present, answer>>

NoAnswer == [kind |-> "none", data |-> <<>>]
Failure  == [kind |-> "error", data |-> <<>>]
Deferral == [kind |-> "deferred", data |-> <<>>]
List(rows) == [kind |-> "ok", data |-> rows]

\* The collection as it stood when it held n rows.
AsOf(n) == SubSeq(coll, 1, n)

Init ==
  /\ coll \in Seq(Nat)
  /\ present = Len(coll)
  /\ answer = NoAnswer

Grow ==
  /\ coll' \in Seq(Nat)
  /\ Len(coll') = Len(coll) + 1
  /\ SubSeq(coll', 1, Len(coll)) = coll
  /\ UNCHANGED <<present, answer>>

\* The read fails, or hands the body it was given back to its caller.
GiveUp ==
  /\ answer = NoAnswer
  /\ answer' \in {Failure, Deferral}
  /\ UNCHANGED <<coll, present>>

Return ==
  /\ answer = NoAnswer
  /\ \E n \in present..Len(coll) : answer' = List(AsOf(n))
  /\ UNCHANGED <<coll, present>>

Next == Grow \/ GiveUp \/ Return

Spec == Init /\ [][Next]_vars
=============================================================================
