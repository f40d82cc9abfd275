-------------------------------- MODULE Sums --------------------------------
(***************************************************************************)
(* The sum of a column over table rows 1..n: what the SQL aggregate SUM    *)
(* returns for the balance and the refund total.  It is a recursive        *)
(* function rather than a RECURSIVE operator so that the facts about it    *)
(* can be proved, on the way to the theorems about its users.              *)
(***************************************************************************)
EXTENDS Integers

\* f[1] + ... + f[n]
SumTo(f, n) ==
    LET partial[i \in 0..n] == IF i = 0 THEN 0 ELSE partial[i-1] + f[i]
    IN  partial[n]
=============================================================================
