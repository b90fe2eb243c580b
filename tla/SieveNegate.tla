----------------------------- MODULE SieveNegate -----------------------------
(***************************************************************************)
(* The multithreaded sieve of 504/mikushkin.marat/06/sieve_multith.cpp.    *)
(*                                                                         *)
(* Every thread walks over all numbers.  It claims a number by negating    *)
(* it in place and then zeroes the multiples; a number that is negative or *)
(* zero is not worked on again.  Nothing is protected: numbers is a plain  *)
(* vector, and the negation, which the unoptimised build of the Makefile   *)
(* compiles to a load and a store, races with the zeroing of others.       *)
(***************************************************************************)
EXTENDS Primes

CONSTANTS
  N,    \* numbers.size()
  M     \* threads.size()

\* For N < 2 the first turn of the loop already reads behind the vector.
ASSUME SizeAssumption == N \in Nat /\ N >= 2

ASSUME ThreadAssumption == M \in Nat \ {0}

Threads == 0 .. M - 1

VARIABLES
  numbers,    \* numbers[k] is k + 1, its negation, or 0
  pc,         \* per thread: the code that runs next
  i, prime,   \* per thread: the index, and the number read there
  negated,    \* per thread: the negation between its load and its store
  k,          \* per thread: the next index to be zeroed
  started,    \* how many threads main has created
  main,       \* what main does: start, wait and then print
  printed     \* the numbers it has printed

locals == <<i, prime, negated, k>>
mainVars == <<started, main, printed>>
vars == <<numbers, pc, locals, mainVars>>

Init ==
  /\ numbers = [x \in 0 .. N - 1 |-> IF x = 0 THEN 0 ELSE x + 1]
  /\ pc = [t \in Threads |-> "none"]
  /\ i = [t \in Threads |-> 0]
  /\ prime = [t \in Threads |-> 0]
  /\ negated = [t \in Threads |-> 0]
  /\ k = [t \in Threads |-> 0]
  /\ started = 0
  /\ main = "start"
  /\ printed = {}

-----------------------------------------------------------------------------
(***************************************************************************)
(* zero_multiples                                                          *)
(***************************************************************************)

GoTo(t, label) == pc' = [pc EXCEPT ![t] = label]

Looping(t) == i[t] * i[t] <= N

Claimable(n) == n > 0

\* The number is read, and claimed if it is positive.
Read(t) ==
  /\ pc[t] = "read"
  /\ Looping(t)
  /\ prime' = [prime EXCEPT ![t] = numbers[i[t]]]
  /\ IF Claimable(numbers[i[t]])
     THEN GoTo(t, "load") /\ UNCHANGED i
     ELSE i' = [i EXCEPT ![t] = @ + 1] /\ UNCHANGED pc
  /\ UNCHANGED <<numbers, negated, k, mainVars>>

\* numbers[prime_ind] = -numbers[prime_ind]
LoadNegated(t) ==
  /\ pc[t] = "load"
  /\ negated' = [negated EXCEPT ![t] = -numbers[i[t]]]
  /\ GoTo(t, "store")
  /\ UNCHANGED <<numbers, i, prime, k, mainVars>>

\* Mutant: the zeroing starts with the number itself.
FirstMultiple_Itself(x, p) == x

FirstMultiple(x, p) == x + p

StoreNegated(t) ==
  /\ pc[t] = "store"
  /\ numbers' = [numbers EXCEPT ![i[t]] = negated[t]]
  /\ k' = [k EXCEPT ![t] = FirstMultiple(i[t], prime[t])]
  /\ GoTo(t, "zero")
  /\ UNCHANGED <<i, prime, negated, mainVars>>

InVector(x) == x < N

\* Mutant: the loop does not move on.
Zero_Stuck(t) ==
  /\ pc[t] = "zero"
  /\ InVector(k[t])
  /\ numbers' = [numbers EXCEPT ![k[t]] = 0]
  /\ UNCHANGED <<pc, locals, mainVars>>

Zero(t) ==
  /\ pc[t] = "zero"
  /\ InVector(k[t])
  /\ numbers' = [numbers EXCEPT ![k[t]] = 0]
  /\ k' = [k EXCEPT ![t] = @ + prime[t]]
  /\ UNCHANGED <<pc, i, prime, negated, mainVars>>

NextNumber(t) ==
  /\ pc[t] = "zero"
  /\ ~InVector(k[t])
  /\ i' = [i EXCEPT ![t] = @ + 1]
  /\ GoTo(t, "read")
  /\ UNCHANGED <<numbers, prime, negated, k, mainVars>>

\* thread_is_done[threadid] = 1
Done(t) ==
  /\ pc[t] = "read"
  /\ ~Looping(t)
  /\ GoTo(t, "done")
  /\ UNCHANGED <<numbers, locals, mainVars>>

Thread(t) == \/ Read(t) \/ LoadNegated(t) \/ StoreNegated(t) \/ Zero(t)
             \/ NextNumber(t) \/ Done(t)

-----------------------------------------------------------------------------
(***************************************************************************)
(* main                                                                    *)
(***************************************************************************)

StartThread ==
  /\ main = "start"
  /\ started < M
  /\ GoTo(started, "read")
  /\ started' = started + 1
  /\ UNCHANGED <<numbers, locals, main, printed>>

AllStarted ==
  /\ main = "start"
  /\ started = M
  /\ main' = "wait"
  /\ UNCHANGED <<numbers, pc, locals, started, printed>>

\* Mutant: main waits for one thread only.
AllDone_Some == \E t \in Threads : pc[t] = "done"

\* The sum of thread_is_done has reached the number of threads.  The flags are
\* read one by one, but a flag that is set stays set.
AllDone == \A t \in Threads : pc[t] = "done"

StopWaiting ==
  /\ main = "wait"
  /\ AllDone
  /\ main' = "print"
  /\ UNCHANGED <<numbers, pc, locals, started, printed>>

Abs(n) == IF n < 0 THEN -n ELSE n

PrintPrimes ==
  /\ main = "print"
  /\ printed' = {Abs(numbers[x]) : x \in {y \in 0 .. N - 1 : numbers[y] # 0}}
  /\ main' = "exit"
  /\ UNCHANGED <<numbers, pc, locals, started>>

Main == StartThread \/ AllStarted \/ StopWaiting \/ PrintPrimes

Terminating == main = "exit" /\ UNCHANGED vars

Next == Main \/ (\E t \in Threads : Thread(t)) \/ Terminating

\* The operating system runs every thread; main's polling loop ends when the
\* flags are set.
Spec == Init /\ [][Next]_vars /\ WF_vars(Main)
             /\ \A t \in Threads : WF_vars(Thread(t))

-----------------------------------------------------------------------------
(***************************************************************************)
(* Properties                                                              *)
(***************************************************************************)

\* Whatever the threads do to each other's numbers, no prime gets lost.
NoPrimeZeroed ==
  \A x \in 1 .. N - 1 : numbers[x] = 0 => IsComposite(x + 1)

\* A composite that is printed was brought back by a negation that began
\* before it was zeroed: it is one of the indices the threads walk over.
OnlyWalkedOverComeBack ==
  main = "exit" =>
    \A n \in printed : IsComposite(n) => (n - 1) * (n - 1) <= N

\* print_usage: "-p <-- print finded primes".
PrintsPrimes == main = "exit" => printed = PrimesBelow(N + 1)

\* The program ends, whatever the schedule.
Finishes == <>(main = "exit")

=============================================================================
