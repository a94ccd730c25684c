-------------------------------- MODULE Sums --------------------------------
(***************************************************************************)
(* Sums of an integer-valued function over an initial segment of its       *)
(* domain, written as a recursive function so that it can be reasoned      *)
(* about.                                                                  *)
(***************************************************************************)
EXTENDS Integers

(* f[0] + ... + f[n-1] *)
PrefixSum(f, n) ==
    LET s[k \in Nat] == IF k = 0 THEN 0 ELSE s[k - 1] + f[k - 1] IN s[n]

=============================================================================
