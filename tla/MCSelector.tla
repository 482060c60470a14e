----------------------------- MODULE MCSelector -----------------------------
(* Instance of Selector for TLC; the constants are given in the .cfg files. *)
(* Records are interchangeable heap cells (ids are data they hold), so a    *)
(* permutation of them maps behaviours to behaviours.                       *)
EXTENDS Selector, TLC

RecSymmetry == Permutations(Recs)
====
