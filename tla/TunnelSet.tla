------------------------------ MODULE TunnelSet ------------------------------
(* What a tunnel_set_s promises its users (spec 2 and 3): an ordered       *)
(* collection of distinct tunnel pointers. Insert appends, delete removes  *)
(* one entry and keeps the order of the others, and replace puts a new     *)
(* pointer in the place of an entry. tunnel_get's walk depends on the      *)
(* order, so the order is part of the promise.                             *)
EXTENDS Sequences, SequencesExt

CONSTANT Elems      \* the tunnel pointers

VARIABLE set        \* the entries, in order

Init == set = <<>>

Insert(t) ==
  /\ t \notin ToSet(set)
  /\ set' = Append(set, t)

Delete(i) == set' = RemoveAt(set, i)

Replace(i, t) ==
  /\ t \notin ToSet(set)
  /\ set' = [set EXCEPT ![i] = t]

Next ==
  \/ \E t \in Elems : Insert(t)
  \/ \E i \in 1..Len(set) : Delete(i)
  \/ \E i \in 1..Len(set), t \in Elems : Replace(i, t)

Spec == Init /\ [][Next]_set
=============================================================================
