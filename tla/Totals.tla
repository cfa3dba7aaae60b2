------------------------------- MODULE Totals -------------------------------
(***************************************************************************)
(* Sums of finitely many counts.  A count of n stands for n units, and the *)
(* sum is the number of units: this needs no recursion.                    *)
(***************************************************************************)
EXTENDS Naturals, FiniteSets

(* The units of the counts f[x].                                           *)
Units(f) == UNION {{x} \X (1 .. f[x]) : x \in DOMAIN f}

Total(f) == Cardinality(Units(f))
=============================================================================
