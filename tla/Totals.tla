------------------------------- MODULE Totals -------------------------------
(* Sums over finite sets, without recursion, so that they can be reasoned  *)
(* about: a row of f[x] cells for each x in S, and all the cells together. *)
EXTENDS Integers, FiniteSets

Cells(f, S) == UNION {{x} \X (1 .. f[x]) : x \in S}

\* The sum of the natural numbers f[x] over the x in S.
Total(f, S) == Cardinality(Cells(f, S))

=============================================================================
