----------------------------- MODULE Countdown -----------------------------
(***************************************************************************)
(* The order in which a call comes nearer to its end: tuples of d numbers, *)
(* of which an earlier one outweighs all later ones. Nothing descends in   *)
(* it for ever, so a call each of whose steps descends must end.           *)
(***************************************************************************)
EXTENDS WellFoundedInduction, Integers

Countdowns(d) == [1..d -> Nat]
Descent(d)    == LexProductOrdering(OpToRel(<, Nat), Nat, d)

(* The countdown m is nearer to the end than n. *)
Nearer(d, m, n) == <<m, n>> \in Descent(d)
=============================================================================
