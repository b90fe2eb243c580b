------------------------------- MODULE Primes -------------------------------
(***************************************************************************)
(* The arithmetic behind the sieves.                                       *)
(***************************************************************************)
EXTENDS Integers

\* a divides k and is neither 1 (the callers' a is at least 2) nor k.
ProperlyDivides(a, k) == \E b \in 2 .. k : k = a * b

IsComposite(k) == \E a \in 2 .. k : ProperlyDivides(a, k)

PrimesBelow(n) == {k \in 2 .. n - 1 : ~IsComposite(k)}

\* The integer square root that (unsigned long long)sqrt(n) computes.
SquareRoot(n) == CHOOSE s \in 0 .. n : s * s <= n /\ (s + 1) * (s + 1) > n

=============================================================================
