-------------------------- MODULE SieveMutex_proofs --------------------------
(***************************************************************************)
(* The multithreaded sieve prints exactly the primes, for every limit and  *)
(* every number of threads: proofs about SieveMutex.                       *)
(*                                                                         *)
(* The argument.  The threads read flags that others are changing, so a    *)
(* thread may cross off multiples of a number that turns out composite,    *)
(* and may see a number crossed off whose own multiples nobody has begun.  *)
(* The invariant NothingForgotten says why that is harmless: a composite   *)
(* k that is still unmarked and has a divisor that was handed out or       *)
(* skipped is waited for by a thread with a divisor not above that one.    *)
(* When a thread drops its number c because c is crossed off, c has a      *)
(* smaller divisor, and the invariant for that one names another thread.   *)
(* When all threads have returned nobody is left to wait for.              *)
(***************************************************************************)
EXTENDS SieveMutex, WellFoundedInduction, FiniteSetTheorems, TLAPS

-----------------------------------------------------------------------------
(***************************************************************************)
(* Facts about numbers                                                     *)
(***************************************************************************)

\* Every set of naturals that has an element has a least one.
LEMMA LeastNat ==
  ASSUME NEW S \in SUBSET Nat, NEW n \in S
  PROVE  \E s \in S : \A m \in S : s <= m
<1> DEFINE R == OpToRel(<, Nat)
<1>1. PICK s \in S : \A m \in S : <<m, s>> \notin R
  BY NatLessThanWellFounded, WFMin
<1>2. \A m \in S : <<m, s>> \notin R => s <= m
  <2>1. R = {r \in Nat \X Nat : r[1] < r[2]}
    BY DEF OpToRel
  <2> HIDE DEF R
  <2>2. QED BY <2>1
<1>3. QED BY <1>1, <1>2

\* SquareRoot(n) is the integer square root of n: there is one.
LEMMA SquareRootIsRoot ==
  ASSUME NEW n \in Nat
  PROVE  /\ SquareRoot(n) \in 0 .. n
         /\ SquareRoot(n) * SquareRoot(n) <= n
         /\ n < (SquareRoot(n) + 1) * (SquareRoot(n) + 1)
<1> DEFINE S == {k \in Nat : (k + 1) * (k + 1) > n}
<1>1. n \in S
  OBVIOUS
<1>2. PICK s \in S : \A m \in S : s <= m
  <2> HIDE DEF S
  <2>1. S \in SUBSET Nat
    BY DEF S
  <2>2. QED BY <1>1, <2>1, LeastNat
<1>3. s * s <= n
  <2>1. CASE s = 0
    BY <2>1
  <2>2. CASE s > 0
    <3>1. s - 1 \notin S
      BY <1>2, <2>2
    <3>2. s - 1 \in Nat /\ (s - 1) + 1 = s
      BY <1>2, <2>2
    <3>3. QED BY <3>1, <3>2, <1>2
  <2>3. QED BY <1>2, <2>1, <2>2
<1>4. s \in 0 .. n
  BY <1>1, <1>2
<1>5. n < (s + 1) * (s + 1)
  BY <1>2
<1>6. QED BY <1>3, <1>4, <1>5 DEF SquareRoot

\* Squares order the naturals as the naturals themselves are ordered.
LEMMA SquareOrder ==
  ASSUME NEW a \in Nat, NEW s \in Nat, a * a < (s + 1) * (s + 1)
  PROVE  a <= s
OBVIOUS

LEMMA ProductGrows ==
  ASSUME NEW a \in Nat, NEW b \in Nat, NEW c \in Nat, a >= 1, b <= c
  PROVE  a * b \in Nat /\ a * b <= a * c /\ b <= a * b
OBVIOUS

\* Multiples of a are at least a apart.
LEMMA NextMultiple ==
  ASSUME NEW a \in Nat, NEW b \in Nat, NEW c \in Nat, a * b < a * c
  PROVE  a * b + a <= a * c
OBVIOUS

\* A proper divisor of a proper divisor is one.
LEMMA DivisorOfDivisor ==
  ASSUME NEW n \in Nat, NEW a \in Nat, NEW c \in Nat, a >= 2, c >= 2,
         ProperlyDivides(c, a), ProperlyDivides(a, n)
  PROVE  ProperlyDivides(c, n)
<1>1. PICK b \in 2 .. n : n = a * b
  BY DEF ProperlyDivides
<1>2. PICK d \in 2 .. a : a = c * d
  BY DEF ProperlyDivides
<1>3. n = c * (d * b)
  BY <1>1, <1>2
<1>4. d * b \in Nat /\ d * b >= 2 /\ d * b <= c * (d * b)
  <2>1. d * b \in Nat /\ b <= d * b
    BY ProductGrows
  <2>2. QED BY <2>1, ProductGrows
<1>5. d * b \in 2 .. n
  BY <1>3, <1>4
<1>6. QED BY <1>3, <1>5 DEF ProperlyDivides

\* A composite number below n has a divisor up to the square root of n.
LEMMA SmallDivisor ==
  ASSUME NEW n \in Nat, NEW k \in 2 .. n - 1, IsComposite(k)
  PROVE  \E a \in 2 .. SquareRoot(n) : ProperlyDivides(a, k)
<1> DEFINE s == SquareRoot(n)
<1>1. s \in Nat /\ n < (s + 1) * (s + 1)
  <2>1. s \in 0 .. n /\ n < (s + 1) * (s + 1)
    BY SquareRootIsRoot
  <2> HIDE DEF s
  <2>2. QED BY <2>1
<1> HIDE DEF s
<1>2. PICK a \in 2 .. k, b \in 2 .. k : k = a * b
  BY DEF IsComposite, ProperlyDivides
<1>3. CASE a <= b
  <2>1. a * a <= k
    BY <1>2, <1>3, ProductGrows
  <2>2. a <= s
    <3>1. a * a \in Nat /\ (s + 1) * (s + 1) \in Nat
      BY <1>1
    <3>2. QED BY <1>1, <2>1, <3>1, SquareOrder
  <2>3. QED BY <1>1, <1>2, <2>2 DEF ProperlyDivides, s
<1>4. CASE b <= a
  <2>1. b * b <= k /\ k = b * a
    <3>1. b * b <= b * a
      BY <1>4, ProductGrows
    <3>2. QED BY <1>2, <3>1
  <2>2. b <= s
    <3>1. b * b \in Nat /\ (s + 1) * (s + 1) \in Nat
      BY <1>1
    <3>2. QED BY <1>1, <2>1, <3>1, SquareOrder
  <2>3. QED BY <1>1, <2>1, <2>2 DEF ProperlyDivides, s
<1>5. QED BY <1>3, <1>4

-----------------------------------------------------------------------------
(***************************************************************************)
(* The inductive invariant                                                 *)
(***************************************************************************)

\* The mutex: who is between lock and unlock holds it, and next_prime stands
\* still between the test and the increment.
LockInv ==
  \A t \in Threads :
    /\ pc[t] \in {"scan", "unlock"} => next_prime_lock = t
    /\ pc[t] = "unlock" => i[t] = next_prime /\ next_prime <= sqrt_n

\* A number that is being worked on was handed out, and the next multiple is
\* a multiple, from the square on.
WorkInv ==
  \A t \in Threads :
    /\ pc[t] \in {"test", "cross"} => 2 <= i[t] /\ i[t] < next_prime
    /\ pc[t] = "cross" => \E b \in Nat : b >= i[t] /\ j[t] = i[t] * b

\* main has created the threads before it joins any, has joined them all
\* before it reports, and reports what is left.
MainInv ==
  /\ \A t \in Threads :
       /\ t >= started => pc[t] = "none"
       /\ t < joined => pc[t] = "returned"
       /\ pc[t] = "returned" => next_prime > sqrt_n
  /\ main # "start" => started = M
  /\ main \in {"report", "done"} => joined = M
  /\ main # "start" \/ joined = 0
  /\ main = "done" => reported = {k \in 2 .. N - 1 : primes[k]}

IInv == /\ TypeOK
        /\ LockInv
        /\ WorkInv
        /\ MainInv
        /\ NoSharedNumber
        /\ NoPrimeCrossed
        /\ NothingForgotten

LEMMA Root == sqrt_n \in Nat /\ sqrt_n >= 1 /\ sqrt_n + 1 <= N
              /\ N < (sqrt_n + 1) * (sqrt_n + 1)
<1> DEFINE s == SquareRoot(N)
<1>1. s \in 0 .. N /\ s * s <= N /\ N < (s + 1) * (s + 1)
  BY LimitAssumption, SquareRootIsRoot
<1> HIDE DEF s
<1>2. s \in Nat /\ s >= 1
  <2>1. s # 0
    BY <1>1, LimitAssumption
  <2>2. QED BY <1>1, <2>1
<1>3. s + 1 <= N
  <2>1. CASE s = 1
    BY <2>1, LimitAssumption
  <2>2. CASE s >= 2
    <3>1. 2 * s <= s * s
      BY <1>2, <2>2
    <3>2. QED BY <1>1, <1>2, <3>1, <2>2, LimitAssumption
  <2>3. QED BY <1>2, <2>1, <2>2
<1>4. QED BY <1>1, <1>2, <1>3 DEF s, sqrt_n

LEMMA InitIInv == Init => IInv
<1> SUFFICES ASSUME Init PROVE IInv
  OBVIOUS
<1>1. sqrt_n \in Nat /\ sqrt_n >= 1
  BY Root
<1>2. M \in Nat
  BY ThreadAssumption
<1>3. TypeOK
  BY <1>1, <1>2, LimitAssumption DEF Init, TypeOK
<1>4. LockInv /\ WorkInv /\ NoSharedNumber
  BY DEF Init, LockInv, WorkInv, NoSharedNumber
<1>5. MainInv
  BY <1>2 DEF Init, MainInv, Threads
<1>6. NoPrimeCrossed
  <2>1. ASSUME NEW k \in 2 .. N PROVE primes[k]
    <3>1. k \in 0 .. N /\ k >= 2
      BY LimitAssumption
    <3>2. primes[k] = (k >= 2)
      BY <3>1 DEF Init
    <3>3. QED BY <3>1, <3>2
  <2>2. QED BY <2>1 DEF NoPrimeCrossed
<1>7. NothingForgotten
  BY LimitAssumption DEF Init, NothingForgotten
<1>8. QED BY <1>3, <1>4, <1>5, <1>6, <1>7 DEF IInv

\* Every step keeps the types: the range of next_prime needs the mutex, and
\* that of the flags that are written needs that they are multiples.
LEMMA TypeNext == IInv /\ [Next]_vars => TypeOK'
<1> SUFFICES ASSUME IInv, [Next]_vars PROVE TypeOK'
  OBVIOUS
<1> USE DEF GoTo
<1>r. sqrt_n \in Nat /\ sqrt_n >= 1 /\ sqrt_n + 1 <= N /\ N \in Nat /\ M \in Nat
  BY Root, LimitAssumption, ThreadAssumption
<1>t. TypeOK
  BY DEF IInv
<1>1. ASSUME NEW t \in Threads, Lock(t) PROVE TypeOK'
  BY <1>t, <1>1 DEF Lock, TypeOK, mainVars
<1>2. ASSUME NEW t \in Threads, Skip(t) PROVE TypeOK'
  <2>1. next_prime' \in 2 .. sqrt_n + 1
    BY <1>r, <1>t, <1>2 DEF Skip, InRange, TypeOK
  <2>2. QED BY <1>t, <1>2, <2>1 DEF Skip, TypeOK, mainVars
<1>3. ASSUME NEW t \in Threads, NothingLeft(t) PROVE TypeOK'
  BY <1>t, <1>3 DEF NothingLeft, TypeOK, mainVars
<1>4. ASSUME NEW t \in Threads, Take(t) PROVE TypeOK'
  <2>1. next_prime \in 0 .. sqrt_n
    BY <1>r, <1>t, <1>4 DEF Take, InRange, TypeOK
  <2>2. i' \in [Threads -> 0 .. sqrt_n]
    BY <1>t, <1>4, <2>1 DEF Take, TypeOK
  <2>3. QED BY <1>t, <1>4, <2>2 DEF Take, TypeOK, shared, mainVars
<1>5. ASSUME NEW t \in Threads, Unlock(t) PROVE TypeOK'
  <2>1. next_prime <= sqrt_n
    BY <1>5 DEF Unlock, IInv, LockInv
  <2>2. next_prime' \in 2 .. sqrt_n + 1
    BY <1>r, <1>t, <1>5, <2>1 DEF Unlock, TypeOK
  <2>3. QED BY <1>t, <1>5, <2>2 DEF Unlock, TypeOK, mainVars
<1>6. ASSUME NEW t \in Threads, Test(t) PROVE TypeOK'
  <2>1. i[t] \in Nat /\ i[t] * i[t] \in Nat
    <3>1. i[t] \in Nat
      BY <1>r, <1>t DEF TypeOK
    <3>2. QED BY <3>1
  <2>2. j' \in [Threads -> Nat]
    BY <1>t, <1>6, <2>1 DEF Test, TypeOK, FirstMultiple
  <2>3. pc' \in [Threads -> {"none", "lock", "scan", "unlock", "test",
                            "cross", "returned"}]
    BY <1>t, <1>6 DEF Test, TypeOK
  <2>4. QED BY <1>t, <1>6, <2>2, <2>3 DEF Test, TypeOK, shared, mainVars
<1>7. ASSUME NEW t \in Threads, Cross(t) PROVE TypeOK'
  <2>1. primes' \in [0 .. N -> BOOLEAN]
    BY <1>t, <1>7 DEF Cross, TypeOK
  <2>2. j' \in [Threads -> Nat]
    <3>1. i[t] \in Nat /\ j[t] \in Nat
      BY <1>r, <1>t DEF TypeOK
    <3>2. QED BY <1>t, <1>7, <3>1 DEF Cross, TypeOK
  <2>3. QED BY <1>t, <1>7, <2>1, <2>2 DEF Cross, TypeOK, mainVars
<1>8. ASSUME NEW t \in Threads, AllCrossed(t) PROVE TypeOK'
  BY <1>t, <1>8 DEF AllCrossed, TypeOK, shared, mainVars
<1>9. CASE StartThread
  <2>1. started' \in 0 .. M
    BY <1>r, <1>t, <1>9 DEF StartThread, TypeOK
  <2>2. QED BY <1>t, <1>9, <2>1 DEF StartThread, TypeOK, shared
<1>10. CASE AllStarted \/ AllJoined
  BY <1>t, <1>10 DEF AllStarted, AllJoined, TypeOK, shared
<1>11. CASE JoinThread
  <2>1. joined' \in 0 .. M
    BY <1>r, <1>t, <1>11 DEF JoinThread, TypeOK
  <2>2. QED BY <1>t, <1>11, <2>1 DEF JoinThread, TypeOK, shared
<1>12. CASE Report
  <2>1. reported' \subseteq 0 .. N
    BY <1>r, <1>12 DEF Report
  <2>2. QED BY <1>t, <1>12, <2>1 DEF Report, TypeOK, shared
<1>13. CASE UNCHANGED vars
  BY <1>t, <1>13 DEF TypeOK, vars, shared, mainVars
<1>14. QED
  BY <1>1, <1>2, <1>3, <1>4, <1>5, <1>6, <1>7, <1>8, <1>9, <1>10, <1>11, <1>12,
     <1>13 DEF Next, Main, Thread, Terminating

\* The mutex excludes the others from next_prime.
LEMMA LockNext == IInv /\ [Next]_vars => LockInv'
<1> SUFFICES ASSUME IInv, [Next]_vars, NEW u \in Threads
             PROVE  /\ pc'[u] \in {"scan", "unlock"} => next_prime_lock' = u
                    /\ pc'[u] = "unlock"
                         => i'[u] = next_prime' /\ next_prime' <= sqrt_n
  BY DEF LockInv, sqrt_n
<1> DEFINE Goal == /\ pc'[u] \in {"scan", "unlock"} => next_prime_lock' = u
                   /\ pc'[u] = "unlock"
                        => i'[u] = next_prime' /\ next_prime' <= sqrt_n
<1> USE DEF GoTo
<1>t. /\ pc \in [Threads -> {"none", "lock", "scan", "unlock", "test",
                            "cross", "returned"}]
      /\ i \in [Threads -> 0 .. sqrt_n]
      /\ NoThread \notin Threads
  BY ThreadAssumption DEF IInv, TypeOK, Threads
<1>l. /\ \A t \in Threads : pc[t] \in {"scan", "unlock"} => next_prime_lock = t
      /\ pc[u] = "unlock" => i[u] = next_prime /\ next_prime <= sqrt_n
  BY DEF IInv, LockInv
<1>1. ASSUME NEW t \in Threads, Lock(t) PROVE Goal
  BY <1>t, <1>l, <1>1 DEF Lock
<1>2. ASSUME NEW t \in Threads, Skip(t) PROVE Goal
  BY <1>t, <1>l, <1>2 DEF Skip
<1>3. ASSUME NEW t \in Threads, NothingLeft(t) PROVE Goal
  BY <1>t, <1>l, <1>3 DEF NothingLeft
<1>4. ASSUME NEW t \in Threads, Take(t) PROVE Goal
  BY <1>t, <1>l, <1>4 DEF Take, InRange, shared
<1>5. ASSUME NEW t \in Threads, Unlock(t) PROVE Goal
  BY <1>t, <1>l, <1>5 DEF Unlock
<1>6. ASSUME NEW t \in Threads, Test(t) PROVE Goal
  BY <1>t, <1>l, <1>6 DEF Test, shared
<1>7. ASSUME NEW t \in Threads, Cross(t) \/ AllCrossed(t) PROVE Goal
  BY <1>t, <1>l, <1>7 DEF Cross, AllCrossed, shared
<1>8. CASE Main
  BY <1>t, <1>l, <1>8 DEF Main, StartThread, AllStarted, JoinThread, AllJoined,
                         Report, shared
<1>9. CASE UNCHANGED vars
  BY <1>l, <1>9 DEF vars, shared
<1>10. QED
  BY <1>1, <1>2, <1>3, <1>4, <1>5, <1>6, <1>7, <1>8, <1>9
  DEF Next, Thread, Terminating

\* Only Unlock lets a thread begin to work on a number, which next_prime then
\* leaves behind, and j moves from one multiple to the next.
LEMMA WorkNext == IInv /\ [Next]_vars => WorkInv'
<1> SUFFICES ASSUME IInv, [Next]_vars, NEW u \in Threads
             PROVE  /\ pc'[u] \in {"test", "cross"}
                         => 2 <= i'[u] /\ i'[u] < next_prime'
                    /\ pc'[u] = "cross"
                         => \E b \in Nat : b >= i'[u] /\ j'[u] = i'[u] * b
  BY DEF WorkInv
<1> DEFINE Goal == /\ pc'[u] \in {"test", "cross"}
                         => 2 <= i'[u] /\ i'[u] < next_prime'
                   /\ pc'[u] = "cross"
                         => \E b \in Nat : b >= i'[u] /\ j'[u] = i'[u] * b
<1> USE DEF GoTo
<1>t. /\ pc \in [Threads -> {"none", "lock", "scan", "unlock", "test",
                            "cross", "returned"}]
      /\ i \in [Threads -> Nat]
      /\ j \in [Threads -> Nat]
      /\ next_prime \in Nat /\ next_prime >= 2
  BY Root DEF IInv, TypeOK
<1>l. /\ pc[u] = "unlock" => i[u] = next_prime
      /\ pc[u] \in {"test", "cross"} => 2 <= i[u] /\ i[u] < next_prime
      /\ pc[u] = "cross" => \E b \in Nat : b >= i[u] /\ j[u] = i[u] * b
  BY DEF IInv, LockInv, WorkInv
<1>1. ASSUME NEW t \in Threads, Lock(t) \/ NothingLeft(t) \/ AllCrossed(t)
      PROVE  Goal
  BY <1>t, <1>l, <1>1 DEF Lock, NothingLeft, AllCrossed, shared
<1>2. ASSUME NEW t \in Threads, Skip(t) PROVE Goal
  BY <1>t, <1>l, <1>2 DEF Skip
<1>3. ASSUME NEW t \in Threads, Take(t) PROVE Goal
  BY <1>t, <1>l, <1>3 DEF Take, shared
<1>4. ASSUME NEW t \in Threads, Unlock(t) PROVE Goal
  BY <1>t, <1>l, <1>4 DEF Unlock
<1>5. ASSUME NEW t \in Threads, Test(t) PROVE Goal
  <2>1. CASE u = t /\ primes[i[t]]
    <3>1. pc'[u] = "cross" /\ j'[u] = i[u] * i[u] /\ i' = i
          /\ next_prime' = next_prime /\ pc[u] = "test"
      BY <1>t, <1>5, <2>1 DEF Test, FirstMultiple, shared
    <3>2. QED BY <1>t, <1>l, <3>1
  <2>2. CASE u = t /\ ~primes[i[t]]
    BY <1>t, <1>5, <2>2 DEF Test
  <2>3. CASE u # t
    <3>1. pc'[u] = pc[u] /\ j'[u] = j[u] /\ i' = i /\ next_prime' = next_prime
      BY <1>t, <1>5, <2>3 DEF Test, shared
    <3>2. QED BY <1>l, <3>1
  <2>4. QED BY <2>1, <2>2, <2>3
<1>6. ASSUME NEW t \in Threads, Cross(t) PROVE Goal
  <2>1. CASE u = t
    <3>1. PICK b \in Nat : b >= i[u] /\ j[u] = i[u] * b
      BY <1>l, <1>6, <2>1 DEF Cross
    <3>2. pc' = pc /\ i' = i /\ next_prime' = next_prime /\ j'[u] = j[u] + i[u]
      BY <1>t, <1>6, <2>1 DEF Cross
    <3>3. j'[u] = i[u] * (b + 1) /\ b + 1 >= i[u] /\ b + 1 \in Nat
      <4>1. i[u] \in Nat
        BY <1>t
      <4>2. QED BY <3>1, <3>2, <4>1
    <3>4. QED BY <1>l, <3>2, <3>3
  <2>2. CASE u # t
    <3>1. pc' = pc /\ j'[u] = j[u] /\ i' = i /\ next_prime' = next_prime
      BY <1>t, <1>6, <2>2 DEF Cross
    <3>2. QED BY <1>l, <3>1
  <2>3. QED BY <2>1, <2>2
<1>7. CASE Main
  BY <1>t, <1>l, <1>7 DEF Main, StartThread, AllStarted, JoinThread, AllJoined,
                         Report, shared
<1>8. CASE UNCHANGED vars
  BY <1>l, <1>8 DEF vars, shared
<1>9. QED
  BY <1>1, <1>2, <1>3, <1>4, <1>5, <1>6, <1>7, <1>8 DEF Next, Thread, Terminating

\* main's bookkeeping: who has returned stays so, and after the last join
\* nobody changes a flag.
LEMMA MainNext == IInv /\ [Next]_vars => MainInv'
<1> SUFFICES ASSUME IInv, [Next]_vars PROVE MainInv'
  OBVIOUS
<1> USE DEF GoTo
<1>r. sqrt_n \in Nat /\ M \in Nat /\ M >= 1 /\ Threads = 0 .. M - 1
  BY Root, ThreadAssumption DEF Threads
<1>t. /\ pc \in [Threads -> {"none", "lock", "scan", "unlock", "test",
                            "cross", "returned"}]
      /\ next_prime \in Nat /\ started \in 0 .. M /\ joined \in 0 .. M
      /\ main \in {"start", "join", "report", "done"}
  BY <1>r DEF IInv, TypeOK
<1>m. MainInv
  BY DEF IInv
<1>1. ASSUME NEW t \in Threads, Lock(t) \/ Skip(t) \/ Take(t) \/ Unlock(t)
                                 \/ Test(t) \/ AllCrossed(t)
      PROVE  MainInv'
  <2>1. /\ pc[t] \notin {"none", "returned"}
        /\ \A u \in Threads \ {t} : pc'[u] = pc[u]
        /\ pc'[t] # "returned"
        /\ next_prime' \in {next_prime, next_prime + 1}
        /\ primes' = primes /\ UNCHANGED mainVars
    BY <1>t, <1>1 DEF Lock, Skip, Take, Unlock, Test, AllCrossed, shared
  <2>2. QED BY <1>r, <1>t, <1>m, <2>1 DEF MainInv, mainVars
<1>2. ASSUME NEW t \in Threads, NothingLeft(t) PROVE MainInv'
  <2>1. /\ pc[t] = "scan" /\ next_prime > sqrt_n
        /\ pc' = [pc EXCEPT ![t] = "returned"]
        /\ UNCHANGED <<primes, next_prime, mainVars>>
    BY <1>r, <1>t, <1>2 DEF NothingLeft, InRange
  <2>2. QED BY <1>r, <1>t, <1>m, <2>1 DEF MainInv, mainVars
<1>3. ASSUME NEW t \in Threads, Cross(t) PROVE MainInv'
  <2>1. pc[t] = "cross" /\ UNCHANGED <<next_prime, pc, mainVars>>
    BY <1>3 DEF Cross
  <2>2. main # "done"
    BY <1>r, <1>m, <2>1 DEF MainInv
  <2>3. QED BY <1>m, <2>1, <2>2 DEF MainInv, mainVars
<1>4. CASE StartThread
  <2>1. joined = 0 /\ main = "start"
    BY <1>m, <1>4 DEF MainInv, StartThread
  <2>2. QED BY <1>r, <1>t, <1>m, <1>4, <2>1 DEF MainInv, StartThread, shared
<1>5. CASE AllStarted \/ AllJoined
  BY <1>t, <1>m, <1>5 DEF MainInv, AllStarted, AllJoined, shared
<1>6. CASE JoinThread
  BY <1>r, <1>t, <1>m, <1>6 DEF MainInv, JoinThread, shared
<1>7. CASE Report
  BY <1>t, <1>m, <1>7 DEF MainInv, Report, shared
<1>8. CASE UNCHANGED vars
  BY <1>m, <1>8 DEF MainInv, vars, shared, mainVars
<1>9. QED
  BY <1>1, <1>2, <1>3, <1>4, <1>5, <1>6, <1>7, <1>8
  DEF Next, Main, Thread, Terminating

\* Only Unlock brings a number into work, and it is above all that are.
LEMMA SharedNext == IInv /\ [Next]_vars => NoSharedNumber'
<1> SUFFICES ASSUME IInv, [Next]_vars PROVE NoSharedNumber'
  OBVIOUS
<1> USE DEF GoTo
<1>t. /\ pc \in [Threads -> {"none", "lock", "scan", "unlock", "test",
                            "cross", "returned"}]
      /\ i \in [Threads -> Nat]
      /\ next_prime \in Nat
  BY Root DEF IInv, TypeOK
<1>s. NoSharedNumber
  BY DEF IInv
<1>1. ASSUME NEW t \in Threads, Unlock(t) PROVE NoSharedNumber'
  <2>1. /\ i[t] = next_prime /\ i' = i
        /\ \A u \in Threads \ {t} : pc'[u] = pc[u]
    BY <1>t, <1>1 DEF Unlock, IInv, LockInv
  <2>2. \A u \in Threads \ {t} : pc[u] \in {"test", "cross"} => i[u] < next_prime
    BY DEF IInv, WorkInv
  <2>3. \A u \in Threads \ {t} : pc[u] \in {"test", "cross"} => i[u] # i[t]
    BY <1>t, <2>1, <2>2
  <2>4. QED BY <1>s, <2>1, <2>3 DEF NoSharedNumber
<1>2. ASSUME NEW t \in Threads, ~Unlock(t), Thread(t) PROVE NoSharedNumber'
  <2>1. /\ \A u \in Threads : pc'[u] \in {"test", "cross"}
                                => pc[u] \in {"test", "cross"}
        /\ \A u \in Threads : pc'[u] \in {"test", "cross"} => i'[u] = i[u]
    BY <1>t, <1>2 DEF Thread, Lock, Skip, NothingLeft, Take, Test, Cross,
                      AllCrossed, shared
  <2>2. QED BY <1>s, <2>1 DEF NoSharedNumber
<1>3. CASE Main
  <2>1. /\ \A u \in Threads : pc'[u] \in {"test", "cross"} => pc'[u] = pc[u]
        /\ i' = i
    BY <1>t, <1>3 DEF Main, StartThread, AllStarted, JoinThread, AllJoined,
                      Report, shared
  <2>2. QED BY <1>s, <2>1 DEF NoSharedNumber
<1>4. CASE UNCHANGED vars
  BY <1>s, <1>4 DEF NoSharedNumber, vars
<1>5. QED BY <1>1, <1>2, <1>3, <1>4 DEF Next, Terminating

\* What a thread crosses off is its number times another that is not smaller.
LEMMA CrossedIsComposite ==
  ASSUME IInv, NEW t \in Threads, Cross(t)
  PROVE  /\ j[t] \in 2 .. N - 1
         /\ ProperlyDivides(i[t], j[t])
         /\ IsComposite(j[t])
<1>1. pc[t] = "cross" /\ j[t] < N
  BY DEF Cross
<1>2. i[t] \in Nat /\ i[t] >= 2
  BY <1>1, Root DEF IInv, TypeOK, WorkInv
<1>3. PICK b \in Nat : b >= i[t] /\ j[t] = i[t] * b
  BY <1>1 DEF IInv, WorkInv
<1>4. b <= j[t] /\ i[t] <= j[t] /\ j[t] \in Nat
  <2>1. b <= i[t] * b /\ i[t] * b \in Nat
    BY <1>2, <1>3, ProductGrows
  <2>2. QED BY <1>2, <1>3, <2>1
<1>5. b \in 2 .. j[t] /\ i[t] \in 2 .. j[t]
  BY <1>2, <1>3, <1>4
<1>6. ProperlyDivides(i[t], j[t])
  BY <1>3, <1>5 DEF ProperlyDivides
<1>7. QED BY <1>1, <1>4, <1>5, <1>6, LimitAssumption DEF IsComposite

LEMMA FlagsNext ==
  ASSUME [Next]_vars
  PROVE  \/ primes' = primes
         \/ \E t \in Threads : Cross(t)
BY DEF Next, Main, Thread, Lock, Skip, NothingLeft, Take, Unlock, Test, AllCrossed,
       StartThread, AllStarted, JoinThread, AllJoined, Report, Terminating,
       vars, shared

LEMMA NoPrimeCrossedNext == IInv /\ [Next]_vars => NoPrimeCrossed'
<1> SUFFICES ASSUME IInv, [Next]_vars, NEW k \in 2 .. N, ~primes'[k]
             PROVE  IsComposite(k)
  BY DEF NoPrimeCrossed
<1>1. primes[k] => IsComposite(k)
  <2>1. CASE primes' = primes
    BY <2>1
  <2>2. ASSUME NEW t \in Threads, Cross(t) PROVE primes[k] => IsComposite(k)
    <3>1. primes' = [primes EXCEPT ![j[t]] = FALSE]
      BY <2>2 DEF Cross
    <3>2. k \in DOMAIN primes
      BY LimitAssumption DEF IInv, TypeOK
    <3>3. primes[k] => k = j[t]
      BY <3>1, <3>2
    <3>4. QED BY <2>2, <3>3, CrossedIsComposite
  <2>3. QED BY <2>1, <2>2, FlagsNext
<1>2. ~primes[k] => IsComposite(k)
  BY DEF IInv, NoPrimeCrossed
<1>3. QED BY <1>1, <1>2

\* A flag that is off has a proper divisor among the smaller numbers.
LEMMA OffHasDivisor ==
  ASSUME IInv, NEW k \in 2 .. N, ~primes[k]
  PROVE  \E c \in 2 .. k - 1 : ProperlyDivides(c, k)
<1>1. PICK a \in 2 .. k, b \in 2 .. k : k = a * b
  BY DEF IInv, NoPrimeCrossed, IsComposite, ProperlyDivides
<1>2. 2 * a <= a * b /\ a * b = b * a
  <2>1. a * 2 <= a * b
    BY <1>1, ProductGrows
  <2>2. QED BY <2>1
<1>3. a < k
  BY <1>1, <1>2
<1>4. QED BY <1>1, <1>3 DEF ProperlyDivides

\* What NothingForgotten says of one composite and one divisor of it.
LEMMA StillWaitedFor ==
  ASSUME IInv, NEW k \in 2 .. N - 1, NEW a \in 2 .. next_prime - 1, primes[k],
         ProperlyDivides(a, k)
  PROVE  \E t \in Threads : i[t] <= a /\ WillCross(t, k)
BY DEF IInv, NothingForgotten

LEMMA NothingForgottenNext == IInv /\ [Next]_vars => NothingForgotten'
<1> SUFFICES ASSUME IInv, [Next]_vars,
                    NEW k \in 2 .. N - 1, NEW a \in 2 .. next_prime' - 1,
                    primes'[k], ProperlyDivides(a, k)
             PROVE  \E u \in Threads : i'[u] <= a /\ WillCross(u, k)'
  BY DEF NothingForgotten, ProperlyDivides
<1> DEFINE Goal == \E u \in Threads : i'[u] <= a /\ WillCross(u, k)'
<1> USE DEF GoTo
<1>t. /\ pc \in [Threads -> {"none", "lock", "scan", "unlock", "test",
                            "cross", "returned"}]
      /\ i \in [Threads -> Nat] /\ j \in [Threads -> Nat]
      /\ next_prime \in Nat /\ next_prime >= 2 /\ next_prime <= N
      /\ primes \in [0 .. N -> BOOLEAN]
      /\ N \in Nat /\ k \in 0 .. N /\ k \in Nat /\ sqrt_n \in Nat
  <2>1. sqrt_n \in Nat /\ sqrt_n + 1 <= N /\ N \in Nat
    BY Root, LimitAssumption
  <2>2. QED BY <2>1 DEF IInv, TypeOK
\* Nothing is handed out, and the threads that wait for k go on doing so.
<1>a. ASSUME /\ primes' = primes /\ next_prime' = next_prime
             /\ \A u \in Threads : WillCross(u, k) => WillCross(u, k)' /\ i'[u] = i[u]
      PROVE  Goal
  <2>1. PICK u \in Threads : i[u] <= a /\ WillCross(u, k)
    <3>1. a \in 2 .. next_prime - 1 /\ primes[k]
      BY <1>a
    <3>2. QED BY <3>1, StillWaitedFor
  <2>2. QED BY <1>a, <2>1
<1>1. ASSUME NEW t \in Threads, Lock(t) \/ NothingLeft(t) \/ Take(t) PROVE Goal
  <2>1. /\ primes' = primes /\ next_prime' = next_prime /\ j' = j
        /\ pc[t] \notin {"test", "cross"}
        /\ \A u \in Threads \ {t} : pc'[u] = pc[u] /\ i'[u] = i[u]
    BY <1>t, <1>1 DEF Lock, NothingLeft, Take, shared
  <2>2. \A u \in Threads : WillCross(u, k) => u # t
    BY <2>1 DEF WillCross
  <2>3. QED BY <1>a, <2>1, <2>2 DEF WillCross, ProperlyDivides
<1>2. ASSUME NEW t \in Threads, AllCrossed(t) PROVE Goal
  <2>1. /\ primes' = primes /\ next_prime' = next_prime /\ i' = i /\ j' = j
        /\ pc[t] = "cross" /\ j[t] >= N
        /\ \A u \in Threads \ {t} : pc'[u] = pc[u]
    BY <1>t, <1>2 DEF AllCrossed, shared
  <2>2. \A u \in Threads : WillCross(u, k) => u # t
    BY <1>t, <2>1 DEF WillCross
  <2>3. QED BY <1>a, <2>1, <2>2 DEF WillCross, ProperlyDivides
<1>3. CASE Main
  <2>1. /\ primes' = primes /\ next_prime' = next_prime /\ i' = i /\ j' = j
        /\ \A u \in Threads : pc[u] \in {"test", "cross"} => pc'[u] = pc[u]
    <3>1. CASE StartThread
      <4>1. started \in Threads /\ pc[started] = "none"
        BY <1>t, <3>1, ThreadAssumption
        DEF StartThread, IInv, MainInv, TypeOK, Threads
      <4>2. QED BY <1>t, <3>1, <4>1 DEF StartThread, shared
    <3>2. CASE AllStarted \/ JoinThread \/ AllJoined \/ Report
      BY <3>2 DEF AllStarted, JoinThread, AllJoined, Report, shared
    <3>3. QED BY <1>3, <3>1, <3>2 DEF Main
  <2>2. \A u \in Threads : WillCross(u, k) => WillCross(u, k)'
    BY <2>1 DEF WillCross, ProperlyDivides
  <2>3. QED BY <1>a, <2>1, <2>2
<1>4. CASE UNCHANGED vars
  BY <1>a, <1>4 DEF WillCross, ProperlyDivides, vars, shared
\* The number that is skipped has a divisor that went before it.
<1>5. ASSUME NEW t \in Threads, Skip(t) PROVE Goal
  <2>1. /\ primes' = primes /\ pc' = pc /\ i' = i /\ j' = j
        /\ next_prime' = next_prime + 1 /\ ~primes[next_prime]
    BY <1>5 DEF Skip
  <2>2. PICK c \in 2 .. next_prime - 1 : c <= a /\ ProperlyDivides(c, k)
    <3>1. CASE a < next_prime
      BY <3>1, <1>t
    <3>2. CASE a = next_prime
      <4>1. PICK c \in 2 .. a - 1 : ProperlyDivides(c, a)
        BY <1>t, <2>1, <3>2, OffHasDivisor
      <4>2. ProperlyDivides(c, k)
        BY <1>t, <4>1, DivisorOfDivisor
      <4>3. QED BY <3>2, <4>1, <4>2
    <3>3. QED BY <1>t, <2>1, <3>1, <3>2
  <2>3. PICK u \in Threads : i[u] <= c /\ WillCross(u, k)
    BY <2>1, <2>2, StillWaitedFor
  <2>4. i[u] <= a
    BY <1>t, <2>2, <2>3
  <2>5. QED BY <2>1, <2>3, <2>4 DEF WillCross, ProperlyDivides
\* The number that is handed out is worked on by the thread that took it.
<1>6. ASSUME NEW t \in Threads, Unlock(t) PROVE Goal
  <2>1. /\ primes' = primes /\ i' = i /\ j' = j /\ next_prime' = next_prime + 1
        /\ pc[t] = "unlock" /\ pc'[t] = "test" /\ i[t] = next_prime
        /\ \A u \in Threads \ {t} : pc'[u] = pc[u]
    BY <1>t, <1>6 DEF Unlock, IInv, LockInv
  <2>2. CASE a < next_prime
    <3>1. PICK u \in Threads : i[u] <= a /\ WillCross(u, k)
      BY <1>t, <2>1, <2>2, StillWaitedFor
    <3>2. u # t
      BY <2>1, <3>1 DEF WillCross
    <3>3. QED BY <2>1, <3>1, <3>2 DEF WillCross, ProperlyDivides
  <2>3. CASE a = next_prime
    <3>1. i'[t] = a
      BY <2>1, <2>3
    <3>2. WillCross(t, k)'
      BY <2>1, <3>1 DEF WillCross, ProperlyDivides
    <3>3. QED BY <1>t, <3>1, <3>2
  <2>4. QED BY <1>t, <2>1, <2>2, <2>3
\* The thread drops its number, which has a smaller divisor, or the multiples
\* of it below its square, which have a smaller divisor too.
<1>7. ASSUME NEW t \in Threads, Test(t) PROVE Goal
  <2>1. /\ primes' = primes /\ next_prime' = next_prime /\ i' = i
        /\ pc[t] = "test" /\ i[t] \in 2 .. next_prime - 1
        /\ \A u \in Threads \ {t} : pc'[u] = pc[u] /\ j'[u] = j[u]
        /\ primes[i[t]] => pc'[t] = "cross" /\ j'[t] = i[t] * i[t]
    BY <1>t, <1>7 DEF Test, FirstMultiple, IInv, WorkInv, shared
  <2>a. \A c \in 2 .. next_prime - 1 :
          c < i[t] /\ c <= a /\ ProperlyDivides(c, k) => Goal
    <3>1. SUFFICES ASSUME NEW c \in 2 .. next_prime - 1,
                          c < i[t], c <= a, ProperlyDivides(c, k)
                   PROVE  Goal
      OBVIOUS
    <3>2. PICK u \in Threads : i[u] <= c /\ WillCross(u, k)
      BY <2>1, <3>1, StillWaitedFor
    <3>3. u # t /\ i[u] <= a
      BY <1>t, <3>1, <3>2
    <3>4. QED BY <2>1, <3>2, <3>3 DEF WillCross, ProperlyDivides
  <2>2. PICK u \in Threads : i[u] <= a /\ WillCross(u, k)
    BY <2>1, StillWaitedFor
  <2>3. CASE u # t
    BY <2>1, <2>2, <2>3 DEF WillCross, ProperlyDivides
  <2>4. CASE u = t /\ ~primes[i[t]]
    <3>1. PICK c \in 2 .. i[t] - 1 : ProperlyDivides(c, i[t])
      BY <1>t, <2>1, <2>4, OffHasDivisor
    <3>2. ProperlyDivides(c, k)
      <4>1. ProperlyDivides(i[t], k)
        BY <2>2, <2>4 DEF WillCross
      <4>2. QED BY <1>t, <2>1, <3>1, <4>1, DivisorOfDivisor
    <3>3. c \in 2 .. next_prime - 1 /\ c < i[t] /\ c <= a
      BY <1>t, <2>1, <2>2, <2>4, <3>1
    <3>4. QED BY <2>a, <3>2, <3>3
  <2>5. CASE u = t /\ primes[i[t]]
    <3>1. PICK b \in 2 .. k : k = i[t] * b
      BY <2>2, <2>5 DEF WillCross, ProperlyDivides
    <3>2. CASE b < i[t]
      <4>1. i[t] <= k /\ k = b * i[t]
        <5>1. i[t] \in Nat /\ b \in Nat /\ b >= 1
          BY <1>t
        <5>2. i[t] <= b * i[t]
          BY <5>1, ProductGrows
        <5>3. i[t] * b = b * i[t]
          BY <5>1
        <5>4. QED BY <3>1, <5>2, <5>3
      <4>2. ProperlyDivides(b, k)
        <5>1. i[t] \in 2 .. k
          BY <1>t, <2>1, <4>1
        <5>2. QED BY <4>1, <5>1 DEF ProperlyDivides
      <4>3. b \in 2 .. next_prime - 1 /\ b <= a
        BY <1>t, <2>1, <2>2, <2>5, <3>1, <3>2
      <4>4. QED BY <2>a, <3>2, <4>2, <4>3
    <3>3. CASE b >= i[t]
      <4>1. i[t] * i[t] <= k
        BY <1>t, <2>1, <3>1, <3>3, ProductGrows
      <4>2. QED BY <2>1, <2>2, <2>5, <4>1 DEF WillCross, ProperlyDivides
    <3>4. QED BY <1>t, <3>1, <3>2, <3>3
  <2>6. QED BY <2>3, <2>4, <2>5
\* The thread passes one composite, which is off now, and no other multiple.
<1>8. ASSUME NEW t \in Threads, Cross(t) PROVE Goal
  <2>1. /\ next_prime' = next_prime /\ i' = i /\ pc' = pc /\ pc[t] = "cross"
        /\ primes' = [primes EXCEPT ![j[t]] = FALSE]
        /\ j' = [j EXCEPT ![t] = j[t] + i[t]]
    BY <1>8 DEF Cross
  <2>2. primes[k] /\ k # j[t]
    BY <1>t, <2>1
  <2>3. PICK u \in Threads : i[u] <= a /\ WillCross(u, k)
    BY <2>1, <2>2, StillWaitedFor
  <2>4. CASE u # t
    BY <1>t, <2>1, <2>3, <2>4 DEF WillCross, ProperlyDivides
  <2>5. CASE u = t
    <3>1. PICK b \in 2 .. k : k = i[t] * b
      BY <2>3, <2>5 DEF WillCross, ProperlyDivides
    <3>2. PICK c \in Nat : j[t] = i[t] * c
      BY <2>1 DEF IInv, WorkInv
    <3>3. i[t] * c < i[t] * b
      <4>1. j[t] <= k
        BY <2>1, <2>3, <2>5 DEF WillCross
      <4>2. QED BY <1>t, <2>2, <3>1, <3>2, <4>1
    <3>4. i[t] * c + i[t] <= i[t] * b
      <4>1. i[t] \in Nat /\ b \in Nat
        BY <1>t
      <4>2. QED BY <3>3, <4>1, NextMultiple
    <3>5. j'[t] <= k
      BY <1>t, <2>1, <3>1, <3>2, <3>4
    <3>6. QED BY <2>1, <2>3, <2>5, <3>5 DEF WillCross, ProperlyDivides
  <2>6. QED BY <2>4, <2>5
<1>9. QED
  BY <1>1, <1>2, <1>3, <1>4, <1>5, <1>6, <1>7, <1>8
  DEF Next, Thread, Terminating

LEMMA Invariance == Spec => []IInv
<1>1. Init => IInv
  BY InitIInv
<1>2. IInv /\ [Next]_vars => IInv'
  BY TypeNext, LockNext, WorkNext, MainNext, SharedNext, NoPrimeCrossedNext,
     NothingForgottenNext DEF IInv
<1>3. QED BY <1>1, <1>2, PTL DEF Spec

-----------------------------------------------------------------------------
(***************************************************************************)
(* The theorems                                                            *)
(***************************************************************************)

\* In every run every variable keeps its type; in particular next_prime, and
\* the index of every flag that is read or written, stay in the array.
THEOREM TypeCorrect == Spec => []TypeOK
<1>1. IInv => TypeOK
  BY DEF IInv
<1>2. QED BY <1>1, Invariance, PTL

\* No interleaving of the threads crosses off a prime.
THEOREM PrimesSurvive == Spec => []NoPrimeCrossed
<1>1. IInv => NoPrimeCrossed
  BY DEF IInv
<1>2. QED BY <1>1, Invariance, PTL

\* The mutex hands every number to one thread.
THEOREM NumbersHandedOutOnce == Spec => []NoSharedNumber
<1>1. IInv => NoSharedNumber
  BY DEF IInv
<1>2. QED BY <1>1, Invariance, PTL

\* Reading the flags without the mutex loses no composite.
THEOREM CompositesWaitedFor == Spec => []NothingForgotten
<1>1. IInv => NothingForgotten
  BY DEF IInv
<1>2. QED BY <1>1, Invariance, PTL

\* Once all threads are joined, exactly the composites are crossed off.
LEMMA LeftArePrimes ==
  ASSUME IInv, main \in {"report", "done"}, NEW k \in 2 .. N - 1
  PROVE  primes[k] <=> ~IsComposite(k)
<1>1. \A t \in Threads : pc[t] = "returned" /\ next_prime > sqrt_n
  BY ThreadAssumption DEF IInv, MainInv, Threads
<1>2. next_prime > sqrt_n /\ next_prime \in Nat /\ sqrt_n \in Nat
  <2>1. 0 \in Threads
    BY ThreadAssumption DEF Threads
  <2>2. QED BY <1>1, <2>1, Root DEF IInv, TypeOK
<1>3. ASSUME primes[k], IsComposite(k) PROVE FALSE
  <2>1. PICK a \in 2 .. sqrt_n : ProperlyDivides(a, k)
    BY <1>3, LimitAssumption, SmallDivisor DEF sqrt_n
  <2>2. a \in 2 .. next_prime - 1
    BY <1>2
  <2>3. PICK t \in Threads : WillCross(t, k)
    BY <1>3, <2>1, <2>2, StillWaitedFor
  <2>4. QED BY <1>1, <2>3 DEF WillCross
<1>4. ~primes[k] => IsComposite(k)
  BY LimitAssumption DEF IInv, NoPrimeCrossed
<1>5. QED BY <1>3, <1>4

\* Whatever the limit, the number of threads and the schedule, the program
\* prints the primes below the limit.
THEOREM PrintsThePrimes == Spec => []ReportsPrimes
<1>1. IInv => ReportsPrimes
  BY LeftArePrimes DEF IInv, MainInv, ReportsPrimes, PrimesBelow
<1>2. QED BY <1>1, Invariance, PTL

\* The threads and main implement the abstract sieve: what a step does to the
\* flags and to the report is a step of PrimeSieve or nothing at all.
THEOREM ImplementsSieve == Spec => RefinesSieve
<1>1. Init => Sieve!Init
  <2>1. SUFFICES ASSUME Init PROVE Sieve!Init
    OBVIOUS
  <2>2. \A k \in 2 .. N - 1 : primes[k]
    <3>1. SUFFICES ASSUME NEW k \in 2 .. N - 1 PROVE primes[k]
      OBVIOUS
    <3>2. k \in 0 .. N /\ k >= 2
      BY LimitAssumption
    <3>3. primes[k] = (k >= 2)
      BY <2>1, <3>2 DEF Init
    <3>4. QED BY <3>2, <3>3
  <2>3. QED BY <2>1, <2>2 DEF Init, Sieve!Init
<1>2. IInv /\ [Next]_vars => [Sieve!Next]_Sieve!vars
  <2> SUFFICES ASSUME IInv, [Next]_vars PROVE [Sieve!Next]_Sieve!vars
    OBVIOUS
  <2> USE DEF GoTo
  <2> DEFINE crossed == {k \in 2 .. N - 1 : ~primes[k]}
  <2>1. ASSUME NEW t \in Threads, Cross(t) PROVE Sieve!CrossOff(j[t])
    <3>1. j[t] \in 2 .. N - 1
      BY <2>1, CrossedIsComposite
    <3>2. main # "done" /\ main' = main /\ reported' = reported
      BY <2>1, ThreadAssumption
      DEF Cross, mainVars, IInv, MainInv, Threads
    <3>3. primes' = [primes EXCEPT ![j[t]] = FALSE]
          /\ primes \in [0 .. N -> BOOLEAN]
      BY <2>1 DEF Cross, IInv, TypeOK
    <3>4. {k \in 2 .. N - 1 : ~primes'[k]} = crossed \cup {j[t]}
      <4>1. ASSUME NEW k \in 2 .. N - 1
            PROVE  ~primes'[k] <=> ~primes[k] \/ k = j[t]
        <5>1. k \in 0 .. N
          BY LimitAssumption
        <5>2. QED BY <3>3, <5>1
      <4>2. QED BY <3>1, <4>1
    <3>5. QED BY <3>2, <3>4 DEF Sieve!CrossOff
  <2>2. CASE Report
    <3>1. Sieve!Composites \subseteq crossed
      <4>1. ASSUME NEW k \in 2 .. N - 1, IsComposite(k) PROVE ~primes[k]
        BY <2>2, <4>1, LeftArePrimes DEF Report
      <4>2. QED BY <4>1 DEF Sieve!Composites, Sieve!IsComposite, IsComposite,
                            Sieve!ProperlyDivides, ProperlyDivides
    <3>2. main = "report" /\ main' = "done" /\ primes' = primes
          /\ reported' = {k \in 2 .. N - 1 : primes[k]}
      BY <2>2 DEF Report, shared
    <3>3. reported' = (2 .. N - 1) \ crossed
      BY <3>2
    <3>4. Sieve!Report
      BY <3>1, <3>2, <3>3 DEF Sieve!Report
    <3>5. QED BY <3>4 DEF Sieve!Next
  <2>3. ASSUME \/ \E t \in Threads : ~Cross(t) /\ Thread(t)
               \/ StartThread \/ AllStarted \/ JoinThread \/ AllJoined
               \/ UNCHANGED vars
        PROVE  UNCHANGED Sieve!vars
    <3>1. primes' = primes /\ reported' = reported
      BY <2>3 DEF Thread, Lock, Skip, NothingLeft, Take, Unlock, Test, AllCrossed,
                  StartThread, AllStarted, JoinThread, AllJoined, vars, shared,
                  mainVars
    <3>2. (main = "done") = (main' = "done")
      BY <2>3 DEF Thread, Lock, Skip, NothingLeft, Take, Unlock, Test, AllCrossed,
                  StartThread, AllStarted, JoinThread, AllJoined, vars, shared,
                  mainVars
    <3>3. QED BY <3>1, <3>2 DEF Sieve!vars
  <2>4. ASSUME NEW t \in Threads, Cross(t) PROVE Sieve!Next
    <3>1. j[t] \in Sieve!Composites
      BY <2>4, CrossedIsComposite
      DEF Sieve!Composites, Sieve!IsComposite, IsComposite,
          Sieve!ProperlyDivides, ProperlyDivides
    <3>2. Sieve!CrossOff(j[t])
      BY <2>1, <2>4
    <3>3. QED BY <3>1, <3>2 DEF Sieve!Next, Sieve!CrossOff
  <2>5. QED BY <2>2, <2>3, <2>4 DEF Next, Main, Terminating, Sieve!Next
<1>3. QED
  BY <1>1, <1>2, Invariance, PTL DEF Spec, RefinesSieve, Sieve!Spec

=============================================================================
