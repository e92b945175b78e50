-------------------------------- MODULE Sums --------------------------------
(***************************************************************************)
(* Sums of integer functions over 1 .. n, written as the recursive         *)
(* function of their partial sums so that TLC evaluates them and the       *)
(* proofs can reason about them.                                           *)
(***************************************************************************)
EXTENDS Integers

\* The partial sums f[1], f[1] + f[2], ... with PartialSums(f, n)[0] = 0.
PartialSums(f, n) ==
    LET s[i \in 0 .. n] == IF i = 0 THEN 0 ELSE s[i - 1] + f[i] IN s

\* f[1] + ... + f[n]
SumTo(f, n) == PartialSums(f, n)[n]
=============================================================================
