-------------------------------- MODULE Sums --------------------------------
(***************************************************************************)
(* Sums of sequences of numbers, which the properties about health use.    *)
(***************************************************************************)
EXTENDS Integers

\* The sum of the first n elements of a sequence of numbers.
Sum(w, n) == LET upTo[i \in 0..n] == IF i = 0 THEN 0 ELSE upTo[i - 1] + w[i]
             IN  upTo[n]
=============================================================================
