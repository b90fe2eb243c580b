----------------------------- MODULE PrimeSieve -----------------------------
(***************************************************************************)
(* What every sieve of Eratosthenes promises: only composite numbers are   *)
(* ever crossed off, and what it reports, once, is what is left when all   *)
(* composites below the limit are.                                         *)
(***************************************************************************)
EXTENDS Primes

CONSTANT N          \* the numbers are 2 .. N - 1

VARIABLES
  crossed,          \* the numbers crossed off
  finished,         \* the result has been reported
  reported          \* ... and is this

vars == <<crossed, finished, reported>>

Composites == {k \in 2 .. N - 1 : IsComposite(k)}

Init == crossed = {} /\ finished = FALSE /\ reported = {}

CrossOff(k) ==
  /\ ~finished
  /\ crossed' = crossed \cup {k}
  /\ UNCHANGED <<finished, reported>>

Report ==
  /\ ~finished
  /\ Composites \subseteq crossed
  /\ finished' = TRUE
  /\ reported' = (2 .. N - 1) \ crossed
  /\ UNCHANGED crossed

Next == (\E k \in Composites : CrossOff(k)) \/ Report

Spec == Init /\ [][Next]_vars

=============================================================================
