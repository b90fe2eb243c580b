----------------------------- MODULE SieveMutex -----------------------------
(***************************************************************************)
(* The multithreaded sieve of 504/sergeev.pavel/06/src/sieve_multith.c.    *)
(*                                                                         *)
(* A mutex protects next_prime, the next number to be handed out.  The     *)
(* flags primes[] are not protected: a thread crosses off multiples while  *)
(* others read the same flags to choose and to test their next number, so  *)
(* a number may be handed out before a smaller one has crossed it off.     *)
(* Each access to a shared flag is an action of its own.                   *)
(***************************************************************************)
EXTENDS Primes, FiniteSets

CONSTANTS
  N,        \* n, the limit of the sieve
  M,        \* m, the number of threads
  NoThread  \* the mutex is free

ASSUME LimitAssumption == N \in Nat /\ N >= 2

ASSUME ThreadAssumption == M \in Nat \ {0} /\ NoThread \notin 0 .. M - 1

Threads == 0 .. M - 1

VARIABLES
  primes,           \* primes[k]: k has not been crossed off
  next_prime,
  next_prime_lock,  \* the thread that holds the mutex
  pc,               \* per thread: the code that runs next
  i, j,             \* per thread: the number it crosses off multiples of,
                    \*   and the next multiple
  main,             \* what main does: start, join and then report
  started, joined,  \* how many threads it has created, and joined
  reported          \* the numbers it has printed

shared == <<primes, next_prime, next_prime_lock>>
mainVars == <<main, started, joined, reported>>
vars == <<shared, pc, i, j, mainVars>>

sqrt_n == SquareRoot(N)

TypeOK ==
  /\ primes \in [0 .. N -> BOOLEAN]
  /\ next_prime \in 2 .. sqrt_n + 1
  /\ next_prime_lock \in Threads \cup {NoThread}
  /\ pc \in [Threads -> {"none", "lock", "scan", "unlock", "test", "cross",
                        "returned"}]
  /\ i \in [Threads -> 0 .. sqrt_n]
  /\ j \in [Threads -> Nat]
  /\ main \in {"start", "join", "report", "done"}
  /\ started \in 0 .. M
  /\ joined \in 0 .. M
  /\ reported \subseteq 0 .. N

\* eratosthenes_sieve() before it starts the threads.
Init ==
  /\ primes = [k \in 0 .. N |-> k >= 2]
  /\ next_prime = 2
  /\ next_prime_lock = NoThread
  /\ pc = [t \in Threads |-> "none"]
  /\ i = [t \in Threads |-> 0]
  /\ j = [t \in Threads |-> 0]
  /\ main = "start"
  /\ started = 0
  /\ joined = 0
  /\ reported = {}

-----------------------------------------------------------------------------
(***************************************************************************)
(* thread_function                                                         *)
(***************************************************************************)

GoTo(t, label) == pc' = [pc EXCEPT ![t] = label]

\* Mutant: no mutual exclusion.
Lock_NoMutex(t) ==
  /\ pc[t] = "lock"
  /\ next_prime_lock' = t
  /\ GoTo(t, "scan")
  /\ UNCHANGED <<primes, next_prime, i, j, mainVars>>

Lock(t) ==
  /\ pc[t] = "lock"
  /\ next_prime_lock = NoThread
  /\ next_prime_lock' = t
  /\ GoTo(t, "scan")
  /\ UNCHANGED <<primes, next_prime, i, j, mainVars>>

\* A number that may be handed out, by the while loop's condition.
\* Mutants: the range is one number too long, one too short.
InRange_OneMore(k) == k <= sqrt_n + 1
InRange_OneLess(k) == k < sqrt_n

InRange(k) == k <= sqrt_n

\* Mutant: the loop does not move on.
Skip_Stuck(t) ==
  /\ pc[t] = "scan"
  /\ ~primes[next_prime] /\ InRange(next_prime)
  /\ UNCHANGED vars

\* One turn of the while loop, under the mutex.
Skip(t) ==
  /\ pc[t] = "scan"
  /\ ~primes[next_prime] /\ InRange(next_prime)
  /\ next_prime' = next_prime + 1
  /\ UNCHANGED <<primes, next_prime_lock, pc, i, j, mainVars>>

\* No number is left: the thread releases the mutex and returns.
NothingLeft(t) ==
  /\ pc[t] = "scan"
  /\ ~InRange(next_prime)
  /\ next_prime_lock' = NoThread
  /\ GoTo(t, "returned")
  /\ UNCHANGED <<primes, next_prime, i, j, mainVars>>

\* The thread takes the number, ...
Take(t) ==
  /\ pc[t] = "scan"
  /\ primes[next_prime] /\ InRange(next_prime)
  /\ i' = [i EXCEPT ![t] = next_prime]
  /\ GoTo(t, "unlock")
  /\ UNCHANGED <<shared, j, mainVars>>

\* ... makes the next thread take another one and releases the mutex.
Unlock(t) ==
  /\ pc[t] = "unlock"
  /\ next_prime' = next_prime + 1
  /\ next_prime_lock' = NoThread
  /\ GoTo(t, "test")
  /\ UNCHANGED <<primes, i, j, mainVars>>

\* Mutants: the number itself is crossed off, its square is not.
FirstMultiple_Itself(k) == k
FirstMultiple_AfterSquare(k) == k * k + k

FirstMultiple(k) == k * k

\* The flag is read again without the mutex.
Test(t) ==
  /\ pc[t] = "test"
  /\ IF primes[i[t]]
     THEN j' = [j EXCEPT ![t] = FirstMultiple(i[t])] /\ GoTo(t, "cross")
     ELSE GoTo(t, "lock") /\ UNCHANGED j
  /\ UNCHANGED <<shared, i, mainVars>>

\* One turn of the for loop.
Cross(t) ==
  /\ pc[t] = "cross"
  /\ j[t] < N
  /\ primes' = [primes EXCEPT ![j[t]] = FALSE]
  /\ j' = [j EXCEPT ![t] = @ + i[t]]
  /\ UNCHANGED <<next_prime, next_prime_lock, pc, i, mainVars>>

AllCrossed(t) ==
  /\ pc[t] = "cross"
  /\ j[t] >= N
  /\ GoTo(t, "lock")
  /\ UNCHANGED <<shared, i, j, mainVars>>

Thread(t) == \/ Lock(t) \/ Skip(t) \/ NothingLeft(t) \/ Take(t)
             \/ Unlock(t) \/ Test(t) \/ Cross(t) \/ AllCrossed(t)

-----------------------------------------------------------------------------
(***************************************************************************)
(* main                                                                    *)
(***************************************************************************)

\* start_threads(): the threads run from here on, one after the other.
StartThread ==
  /\ main = "start"
  /\ started < M
  /\ GoTo(started, "lock")
  /\ started' = started + 1
  /\ UNCHANGED <<shared, i, j, main, joined, reported>>

AllStarted ==
  /\ main = "start"
  /\ started = M
  /\ main' = "join"
  /\ UNCHANGED <<shared, pc, i, j, started, joined, reported>>

\* Mutant: main does not wait for the thread.
JoinThread_NoWait ==
  /\ main = "join"
  /\ joined < M
  /\ joined' = joined + 1
  /\ UNCHANGED <<shared, pc, i, j, main, started, reported>>

\* join_threads(): pthread_join blocks until the thread has returned.
JoinThread ==
  /\ main = "join"
  /\ joined < M
  /\ pc[joined] = "returned"
  /\ joined' = joined + 1
  /\ UNCHANGED <<shared, pc, i, j, main, started, reported>>

AllJoined ==
  /\ main = "join"
  /\ joined = M
  /\ main' = "report"
  /\ UNCHANGED <<shared, pc, i, j, started, joined, reported>>

\* main prints what is left, all other threads being gone.
Report ==
  /\ main = "report"
  /\ reported' = {k \in 2 .. N - 1 : primes[k]}
  /\ main' = "done"
  /\ UNCHANGED <<shared, pc, i, j, started, joined>>

Main == StartThread \/ AllStarted \/ JoinThread \/ AllJoined \/ Report

Terminating == main = "done" /\ UNCHANGED vars

Next == Main \/ (\E t \in Threads : Thread(t)) \/ Terminating

\* The operating system runs every thread that can run.
Spec == Init /\ [][Next]_vars /\ WF_vars(Main)
             /\ \A t \in Threads : WF_vars(Thread(t))

-----------------------------------------------------------------------------
(***************************************************************************)
(* Properties                                                              *)
(***************************************************************************)

\* No race on the flags ever makes a prime look crossed off.
NoPrimeCrossed == \A k \in 2 .. N : ~primes[k] => IsComposite(k)

\* No two threads cross off multiples of the same number at the same time.
NoSharedNumber ==
  \A t, u \in Threads : t # u /\ pc[t] \in {"test", "cross"}
                              /\ pc[u] \in {"test", "cross"} => i[t] # i[u]

\* Thread t has a divisor of k and has not passed k.
WillCross(t, k) ==
  /\ ProperlyDivides(i[t], k)
  /\ pc[t] = "test" \/ (pc[t] = "cross" /\ j[t] <= k)

\* However the threads read each other's flags, nothing is forgotten: once a
\* divisor a of k has been handed out or skipped, k is crossed off or a thread
\* with a divisor that is not above a will still cross it off.
NothingForgotten ==
  \A k \in 2 .. N - 1, a \in 2 .. next_prime - 1 :
    primes[k] /\ ProperlyDivides(a, k)
      => \E t \in Threads : i[t] <= a /\ WillCross(t, k)

\* The printed numbers are the primes below the limit.
ReportsPrimes == main = "done" => reported = PrimesBelow(N)

\* The program prints its result, whatever the schedule.
Finishes == <>(main = "done")

Sieve == INSTANCE PrimeSieve
           WITH crossed  <- {k \in 2 .. N - 1 : ~primes[k]},
                finished <- main = "done"

\* Every step crosses off one composite, prints the result or does neither.
RefinesSieve == Sieve!Spec

=============================================================================
