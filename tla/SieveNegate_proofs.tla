-------------------------- MODULE SieveNegate_proofs --------------------------
(***************************************************************************)
(* What the unprotected sieve keeps in spite of its races, for every size  *)
(* of the vector and every number of threads: proofs about SieveNegate.    *)
(*                                                                         *)
(* The argument.  Whatever the interleaving, numbers[x] is x + 1, its      *)
(* negation or 0, so a step with which a thread zeroes is a true divisor   *)
(* of what it zeroes, and a 0 that is negated and stored again is one that *)
(* was right.  For the other direction take a prime q + 1: as it is never  *)
(* zeroed, who finds it not positive finds it negative, and then somebody  *)
(* is zeroing its multiples or has done so.  When all threads are done, so *)
(* are the multiples of all primes that the threads walk over, except for  *)
(* those a late negation may have brought back.                            *)
(***************************************************************************)
EXTENDS SieveNegate, WellFoundedInduction, TLAPS

-----------------------------------------------------------------------------
(***************************************************************************)
(* Facts about numbers                                                     *)
(***************************************************************************)

\* Every set of naturals that has an element has a least one.
LEMMA LeastNat ==
  ASSUME NEW S \in SUBSET Nat, NEW n \in S
  PROVE  \E s \in S : \A m \in S : s <= m
<1> DEFINE R == OpToRel(<, Nat)
<1>1. PICK s \in S : \A m \in S : <<m, s>> \notin R
  BY NatLessThanWellFounded, WFMin
<1>2. \A m \in S : <<m, s>> \notin R => s <= m
  <2>1. R = {r \in Nat \X Nat : r[1] < r[2]}
    BY DEF OpToRel
  <2> HIDE DEF R
  <2>2. QED BY <2>1
<1>3. QED BY <1>1, <1>2

LEMMA ProductGrows ==
  ASSUME NEW a \in Nat, NEW b \in Nat, NEW c \in Nat, a >= 1, b <= c
  PROVE  a * b \in Nat /\ a * b <= a * c /\ b <= a * b
OBVIOUS

LEMMA OneMore ==
  ASSUME NEW a \in Nat, NEW b \in Nat
  PROVE  a * (b + 1) = a * b + a
OBVIOUS

\* Multiples of a are at least a apart.
LEMMA NextMultiple ==
  ASSUME NEW a \in Nat, NEW b \in Nat, NEW c \in Nat, a * b < a * c
  PROVE  a * b + a <= a * c
OBVIOUS

LEMMA ProductIsComposite ==
  ASSUME NEW a \in Nat, NEW b \in Nat, a >= 2, b >= 2
  PROVE  IsComposite(a * b)
<1>1. a * b \in Nat /\ a <= a * b /\ b <= a * b
  OBVIOUS
<1>2. a \in 2 .. a * b /\ b \in 2 .. a * b
  BY <1>1
<1>3. QED BY <1>2 DEF IsComposite, ProperlyDivides

\* A proper divisor of a proper divisor is one.
LEMMA DivisorOfDivisor ==
  ASSUME NEW n \in Nat, NEW a \in Nat, NEW c \in Nat, a >= 2, c >= 2,
         ProperlyDivides(c, a), ProperlyDivides(a, n)
  PROVE  ProperlyDivides(c, n)
<1>1. PICK b \in 2 .. n : n = a * b
  BY DEF ProperlyDivides
<1>2. PICK d \in 2 .. a : a = c * d
  BY DEF ProperlyDivides
<1>3. n = c * (d * b)
  BY <1>1, <1>2
<1>4. d * b \in Nat /\ d * b >= 2 /\ d * b <= c * (d * b)
  <2>1. d * b \in Nat /\ b <= d * b
    BY ProductGrows
  <2>2. QED BY <2>1, ProductGrows
<1>5. d * b \in 2 .. n
  BY <1>3, <1>4
<1>6. QED BY <1>3, <1>5 DEF ProperlyDivides

\* A composite number has a prime divisor up to its square root: the least of
\* its divisors.
LEMMA LeastDivisor ==
  ASSUME NEW n \in Nat, IsComposite(n)
  PROVE  \E p \in 2 .. n : ~IsComposite(p) /\ ProperlyDivides(p, n)
                           /\ p * p <= n
<1> DEFINE S == {a \in 2 .. n : ProperlyDivides(a, n)}
<1>1. S \in SUBSET Nat /\ S # {}
  BY DEF IsComposite
<1>2. PICK p \in S : \A m \in S : p <= m
  <2> HIDE DEF S
  <2>1. QED BY <1>1, LeastNat
<1>3. ~IsComposite(p)
  <2> SUFFICES ASSUME IsComposite(p) PROVE FALSE
    OBVIOUS
  <2>1. PICK c \in 2 .. p : ProperlyDivides(c, p)
    BY DEF IsComposite
  <2>2. c < p
    BY <2>1 DEF ProperlyDivides
  <2>3. ProperlyDivides(c, n)
    BY <2>1, <1>2, DivisorOfDivisor
  <2>4. c \in S
    BY <2>3
  <2>5. QED BY <1>2, <2>2, <2>4
<1>4. p * p <= n
  <2>1. PICK b \in 2 .. n : n = p * b
    BY DEF ProperlyDivides
  <2>2. n = b * p
    BY <2>1
  <2>3. b \in S
    BY <2>2 DEF ProperlyDivides
  <2>4. p <= b
    BY <1>2, <2>3
  <2>5. p * p <= p * b
    BY <2>4, ProductGrows
  <2>6. QED BY <2>1, <2>5
<1>5. QED BY <1>3, <1>4


-----------------------------------------------------------------------------
(***************************************************************************)
(* The inductive invariant                                                 *)
(***************************************************************************)

Working(t) == pc[t] \in {"load", "store", "zero"}

TypeInv ==
  /\ numbers \in [0 .. N - 1 -> Int]
  /\ pc \in [Threads -> {"none", "read", "load", "store", "zero", "done"}]
  /\ i \in [Threads -> Nat]
  /\ prime \in [Threads -> Int]
  /\ negated \in [Threads -> Int]
  /\ k \in [Threads -> Nat]
  /\ started \in 0 .. M
  /\ main \in {"start", "wait", "print", "exit"}

\* A number may only be the one of index x, negated or not, or zero, and zero
\* only if it is composite.
MayHold(x, n) == n \in {x + 1, -(x + 1), 0} /\ (n = 0 => IsComposite(x + 1))

NumbersInv ==
  /\ numbers[0] = 0
  /\ \A x \in 1 .. N - 1 : MayHold(x, numbers[x])

\* What a thread works on, and the multiples it zeroes.
WorkInv ==
  \A t \in Threads :
    /\ Working(t) => /\ i[t] \in 1 .. N - 1
                     /\ i[t] * i[t] <= N
                     /\ prime[t] = i[t] + 1
    /\ pc[t] = "store" => MayHold(i[t], negated[t])
    /\ pc[t] = "zero" => \E b \in Nat : b >= 2 /\ k[t] + 1 = (i[t] + 1) * b

\* main creates every thread once.
StartInv == \A t \in Threads : t >= started => pc[t] = "none"

SafeInv == TypeInv /\ NumbersInv /\ WorkInv /\ StartInv

\* The index m of a multiple of q + 1 that the threads do not walk over: a
\* zero stays there.
MultipleBehind(q, m) == /\ m > q
                        /\ m * m > N
                        /\ \E b \in Nat : m + 1 = (q + 1) * b

ZeroedUpTo(q, n) ==
  \A m \in 0 .. N - 1 : m < n /\ MultipleBehind(q, m) => numbers[m] = 0

\* The multiples of the number at q are being zeroed, or zeroed.
Claimed(q) == \/ \E t \in Threads : pc[t] = "zero" /\ i[t] = q
              \/ ZeroedUpTo(q, N)

WalkedPrimes == {q \in 1 .. N - 1 : q * q <= N /\ ~IsComposite(q + 1)}

\* What a thread has negated, or walked past, is claimed.
ClaimInv ==
  /\ \A q \in WalkedPrimes :
       /\ numbers[q] < 0 => Claimed(q)
       /\ \A t \in Threads : i[t] > q => Claimed(q)
  /\ \A t \in Threads : pc[t] = "zero" => ZeroedUpTo(i[t], k[t])

\* main prints when all threads have walked over everything.
MainInv ==
  /\ \A t \in Threads : pc[t] = "done" => i[t] * i[t] > N
  /\ main \in {"print", "exit"} => \A t \in Threads : pc[t] = "done"
  /\ main = "exit" =>
       printed = {Abs(numbers[x]) : x \in {y \in 0 .. N - 1 : numbers[y] # 0}}

IInv == SafeInv /\ ClaimInv /\ MainInv

-----------------------------------------------------------------------------
(***************************************************************************)
(* The numbers                                                             *)
(***************************************************************************)

\* The loop does not run over the end of the vector.
LEMMA LoopInVector ==
  ASSUME NEW x \in Nat, x * x <= N
  PROVE  x < N
<1>1. N \in Nat /\ N >= 2
  BY SizeAssumption
<1>2. CASE x <= 1
  BY <1>1, <1>2
<1>3. CASE x >= 2
  <2>1. 2 * x <= x * x
    BY <1>3
  <2>2. QED BY <1>1, <1>3, <2>1
<1>4. QED BY <1>2, <1>3

LEMMA InitSafe == Init => SafeInv
<1> SUFFICES ASSUME Init PROVE SafeInv
  OBVIOUS
<1>1. N \in Nat /\ N >= 2 /\ M \in Nat
  BY SizeAssumption, ThreadAssumption
<1>2. TypeInv
  BY <1>1 DEF Init, TypeInv
<1>3. NumbersInv
  BY <1>1 DEF Init, NumbersInv, MayHold
<1>4. WorkInv
  BY DEF Init, WorkInv, Working
<1>5. StartInv
  BY DEF Init, StartInv
<1>6. QED BY <1>2, <1>3, <1>4, <1>5 DEF SafeInv

LEMMA TypeNext == SafeInv /\ [Next]_vars => TypeInv'
<1> SUFFICES ASSUME SafeInv, [Next]_vars PROVE TypeInv'
  OBVIOUS
<1> USE DEF GoTo, TypeInv, locals, mainVars
<1>c. N \in Nat /\ N >= 2 /\ M \in Nat
  BY SizeAssumption, ThreadAssumption
<1>t. TypeInv
  BY DEF SafeInv
<1>w. WorkInv
  BY DEF SafeInv
<1>1. ASSUME NEW t \in Threads, Read(t) PROVE TypeInv'
  <2>1. i[t] \in 0 .. N - 1
    <3>1. i[t] \in Nat /\ i[t] * i[t] <= N
      BY <1>t, <1>1 DEF Read, Looping
    <3>2. QED BY <1>c, <3>1, LoopInVector
  <2>2. numbers[i[t]] \in Int
    BY <1>t, <2>1
  <2>3. QED BY <1>t, <1>1, <2>2 DEF Read
<1>2. ASSUME NEW t \in Threads, LoadNegated(t) PROVE TypeInv'
  <2>1. i[t] \in 1 .. N - 1
    BY <1>2, <1>w DEF LoadNegated, WorkInv, Working
  <2>2. numbers[i[t]] \in Int
    BY <1>t, <2>1
  <2>3. QED BY <1>t, <1>2, <2>2 DEF LoadNegated
<1>3. ASSUME NEW t \in Threads, StoreNegated(t) PROVE TypeInv'
  <2>1. i[t] \in 1 .. N - 1 /\ prime[t] = i[t] + 1
    BY <1>3, <1>w DEF StoreNegated, WorkInv, Working
  <2>2. FirstMultiple(i[t], prime[t]) \in Nat
    BY <1>t, <2>1 DEF FirstMultiple
  <2>3. QED BY <1>t, <1>3, <2>2 DEF StoreNegated
<1>4. ASSUME NEW t \in Threads, Zero(t) PROVE TypeInv'
  <2>1. i[t] \in 1 .. N - 1 /\ prime[t] = i[t] + 1
    BY <1>4, <1>w DEF Zero, WorkInv, Working
  <2>2. k[t] + prime[t] \in Nat
    BY <1>t, <2>1
  <2>3. k' \in [Threads -> Nat]
    BY <1>t, <1>4, <2>2 DEF Zero
  <2>4. numbers' \in [0 .. N - 1 -> Int]
    <3>1. numbers' = [numbers EXCEPT ![k[t]] = 0]
      BY <1>4 DEF Zero
    <3>2. k[t] \in 0 .. N - 1
      BY <1>c, <1>t, <1>4 DEF Zero, InVector
    <3>3. QED BY <1>t, <3>1, <3>2
  <2>5. QED BY <1>t, <1>4, <2>3, <2>4 DEF Zero
<1>5. ASSUME NEW t \in Threads, NextNumber(t) PROVE TypeInv'
  <2>1. i[t] + 1 \in Nat
    BY <1>t
  <2>2. QED BY <1>t, <1>5, <2>1 DEF NextNumber
<1>6. ASSUME NEW t \in Threads, Done(t) PROVE TypeInv'
  BY <1>t, <1>6 DEF Done
<1>7. CASE Main
  <2>1. started < M => started + 1 \in 0 .. M
    BY <1>c, <1>t
  <2>2. QED
    BY <1>t, <1>7, <2>1 DEF Main, StartThread, AllStarted, StopWaiting,
                            PrintPrimes
<1>8. CASE UNCHANGED vars
  BY <1>t, <1>8 DEF vars
<1>9. QED
  BY <1>1, <1>2, <1>3, <1>4, <1>5, <1>6, <1>7, <1>8
  DEF Next, Thread, Terminating

\* A thread zeroes composites only, and stores what the number at its index
\* may be.
LEMMA NumbersNext == SafeInv /\ [Next]_vars => NumbersInv'
<1> SUFFICES ASSUME SafeInv, [Next]_vars PROVE NumbersInv'
  OBVIOUS
<1>c. N \in Nat /\ N >= 2
  BY SizeAssumption
<1>t. TypeInv /\ NumbersInv /\ WorkInv
  BY DEF SafeInv
<1>1. ASSUME NEW t \in Threads, StoreNegated(t) PROVE NumbersInv'
  <2>1. i[t] \in 1 .. N - 1 /\ MayHold(i[t], negated[t])
    BY <1>1, <1>t DEF StoreNegated, WorkInv, Working
  <2>2. numbers' = [numbers EXCEPT ![i[t]] = negated[t]]
    BY <1>1 DEF StoreNegated
  <2>3. numbers'[0] = 0
    BY <1>c, <1>t, <2>1, <2>2 DEF TypeInv, NumbersInv
  <2>4. ASSUME NEW x \in 1 .. N - 1 PROVE MayHold(x, numbers'[x])
    <3>1. CASE x = i[t]
      BY <1>c, <1>t, <2>1, <2>2, <3>1 DEF TypeInv
    <3>2. CASE x # i[t]
      BY <1>c, <1>t, <2>1, <2>2, <3>2 DEF TypeInv, NumbersInv
    <3>3. QED BY <3>1, <3>2
  <2>5. QED BY <2>3, <2>4 DEF NumbersInv, MayHold
<1>2. ASSUME NEW t \in Threads, Zero(t) PROVE NumbersInv'
  <2>1. k[t] \in 0 .. N - 1 /\ i[t] \in 1 .. N - 1
    <3>1. k[t] \in Nat /\ k[t] < N
      BY <1>2, <1>t DEF Zero, InVector, TypeInv
    <3>2. QED BY <1>c, <1>2, <1>t, <3>1 DEF Zero, WorkInv, Working
  <2>2. numbers' = [numbers EXCEPT ![k[t]] = 0]
    BY <1>2 DEF Zero
  <2>3. PICK b \in Nat : b >= 2 /\ k[t] + 1 = (i[t] + 1) * b
    BY <1>2, <1>t DEF Zero, WorkInv
  <2>4. IsComposite(k[t] + 1)
    <3>1. i[t] + 1 \in Nat /\ i[t] + 1 >= 2
      BY <2>1
    <3>2. QED BY <2>3, <3>1, ProductIsComposite
  <2>5. numbers'[0] = 0
    BY <1>c, <1>t, <2>1, <2>2 DEF TypeInv, NumbersInv
  <2>6. ASSUME NEW x \in 1 .. N - 1 PROVE MayHold(x, numbers'[x])
    <3>1. CASE x = k[t]
      BY <1>c, <1>t, <2>1, <2>2, <2>4, <3>1 DEF TypeInv, MayHold
    <3>2. CASE x # k[t]
      BY <1>c, <1>t, <2>1, <2>2, <3>2 DEF TypeInv, NumbersInv
    <3>3. QED BY <3>1, <3>2
  <2>7. QED BY <2>5, <2>6 DEF NumbersInv, MayHold
<1>3. ASSUME NEW t \in Threads,
             Read(t) \/ LoadNegated(t) \/ NextNumber(t) \/ Done(t)
      PROVE  NumbersInv'
  BY <1>t, <1>3 DEF NumbersInv, MayHold, Read, LoadNegated, NextNumber, Done
<1>4. CASE Main
  BY <1>t, <1>4 DEF NumbersInv, MayHold, Main, StartThread, AllStarted,
                    StopWaiting, PrintPrimes
<1>5. CASE UNCHANGED vars
  BY <1>t, <1>5 DEF NumbersInv, MayHold, vars
<1>6. QED
  BY <1>1, <1>2, <1>3, <1>4, <1>5 DEF Next, Thread, Terminating

\* A thread works on the number it read, and moves from one multiple to the
\* next.
LEMMA WorkNext == SafeInv /\ [Next]_vars => WorkInv'
<1> SUFFICES ASSUME SafeInv, [Next]_vars, NEW u \in Threads
             PROVE  /\ Working(u)' => /\ i'[u] \in 1 .. N - 1
                                      /\ i'[u] * i'[u] <= N
                                      /\ prime'[u] = i'[u] + 1
                    /\ pc'[u] = "store" => MayHold(i'[u], negated'[u])
                    /\ pc'[u] = "zero"
                         => \E b \in Nat : b >= 2
                                           /\ k'[u] + 1 = (i'[u] + 1) * b
  BY DEF WorkInv, MayHold
<1> DEFINE Goal == /\ Working(u)' => /\ i'[u] \in 1 .. N - 1
                                     /\ i'[u] * i'[u] <= N
                                     /\ prime'[u] = i'[u] + 1
                   /\ pc'[u] = "store" => MayHold(i'[u], negated'[u])
                   /\ pc'[u] = "zero"
                        => \E b \in Nat : b >= 2
                                          /\ k'[u] + 1 = (i'[u] + 1) * b
<1> USE DEF GoTo
<1>c. N \in Nat /\ N >= 2
  BY SizeAssumption
<1>t. /\ numbers \in [0 .. N - 1 -> Int]
      /\ pc \in [Threads -> {"none", "read", "load", "store", "zero", "done"}]
      /\ i \in [Threads -> Nat]
      /\ prime \in [Threads -> Int]
      /\ negated \in [Threads -> Int]
      /\ k \in [Threads -> Nat]
  BY DEF SafeInv, TypeInv
<1>w. \A t \in Threads :
        /\ Working(t) => /\ i[t] \in 1 .. N - 1
                         /\ i[t] * i[t] <= N
                         /\ prime[t] = i[t] + 1
        /\ pc[t] = "store" => MayHold(i[t], negated[t])
        /\ pc[t] = "zero" => \E b \in Nat : b >= 2
                                            /\ k[t] + 1 = (i[t] + 1) * b
  BY DEF SafeInv, WorkInv
\* Nothing of u moves in the steps of others.
<1>o. ASSUME pc'[u] = pc[u], i'[u] = i[u], prime'[u] = prime[u],
             negated'[u] = negated[u], k'[u] = k[u]
      PROVE  Goal
  BY <1>w, <1>o DEF Working
<1>1. ASSUME NEW t \in Threads, Read(t) PROVE Goal
  <2>1. CASE t # u
    BY <1>t, <1>1, <2>1, <1>o DEF Read
  <2>2. CASE t = u
    <3>1. i[u] \in Nat /\ (pc'[u] = "load" => i[u] \in 0 .. N - 1)
      <4>1. i[u] \in Nat /\ i[u] * i[u] <= N
        BY <1>t, <1>1, <2>2 DEF Read, Looping
      <4>2. QED BY <1>c, <4>1, LoopInVector
    <3>2. pc'[u] # "store" /\ pc'[u] # "zero"
      BY <1>t, <1>1, <2>2 DEF Read
    <3>3. ASSUME pc'[u] = "load"
          PROVE  /\ i'[u] \in 1 .. N - 1
                 /\ i'[u] * i'[u] <= N
                 /\ prime'[u] = i'[u] + 1
      <4>1. /\ numbers[i[u]] > 0
            /\ i'[u] = i[u]
            /\ prime'[u] = numbers[i[u]]
            /\ i[u] * i[u] <= N
        BY <1>t, <1>1, <2>2, <3>3 DEF Read, Claimable, Looping
      <4>2. i[u] # 0
        BY <4>1 DEF SafeInv, NumbersInv
      <4>3. i[u] \in 1 .. N - 1
        BY <1>c, <3>1, <3>3, <4>2
      <4>4. numbers[i[u]] = i[u] + 1
        <5>1. MayHold(i[u], numbers[i[u]])
          BY <4>3 DEF SafeInv, NumbersInv
        <5>2. QED BY <1>c, <4>1, <4>3, <5>1 DEF MayHold
      <4>5. QED BY <4>1, <4>3, <4>4
    <3>4. Working(u)' => pc'[u] = "load"
      BY <3>2 DEF Working
    <3>5. QED BY <3>2, <3>3, <3>4
  <2>3. QED BY <2>1, <2>2
<1>2. ASSUME NEW t \in Threads, LoadNegated(t) PROVE Goal
  <2>1. CASE t # u
    BY <1>t, <1>2, <2>1, <1>o DEF LoadNegated
  <2>2. CASE t = u
    <3>1. /\ i[u] \in 1 .. N - 1
          /\ i[u] * i[u] <= N
          /\ prime[u] = i[u] + 1
      BY <1>w, <1>2, <2>2 DEF LoadNegated, Working
    <3>2. MayHold(i[u], -numbers[i[u]])
      <4>1. MayHold(i[u], numbers[i[u]])
        BY <3>1 DEF SafeInv, NumbersInv
      <4>2. i[u] \in Nat /\ i[u] >= 1
        BY <1>c, <3>1
      <4>3. QED BY <4>1, <4>2 DEF MayHold
    <3>3. /\ i'[u] = i[u] /\ prime'[u] = prime[u] /\ pc'[u] = "store"
          /\ negated'[u] = -numbers[i[u]]
      BY <1>t, <1>2, <2>2 DEF LoadNegated
    <3>4. QED BY <3>1, <3>2, <3>3
  <2>3. QED BY <2>1, <2>2
<1>3. ASSUME NEW t \in Threads, StoreNegated(t) PROVE Goal
  <2>1. CASE t # u
    BY <1>t, <1>3, <2>1, <1>o DEF StoreNegated
  <2>2. CASE t = u
    <3>1. /\ i[u] \in 1 .. N - 1
          /\ i[u] * i[u] <= N
          /\ prime[u] = i[u] + 1
      BY <1>w, <1>3, <2>2 DEF StoreNegated, Working
    <3>2. /\ i'[u] = i[u] /\ prime'[u] = prime[u] /\ pc'[u] = "zero"
          /\ k'[u] = i[u] + prime[u]
      BY <1>t, <1>3, <2>2 DEF StoreNegated, FirstMultiple
    <3>3. k'[u] + 1 = (i'[u] + 1) * 2
      BY <1>c, <3>1, <3>2
    <3>4. QED BY <3>1, <3>2, <3>3
  <2>3. QED BY <2>1, <2>2
<1>4. ASSUME NEW t \in Threads, Zero(t) PROVE Goal
  <2>1. CASE t # u
    BY <1>t, <1>4, <2>1, <1>o DEF Zero
  <2>2. CASE t = u
    <3>1. /\ i[u] \in 1 .. N - 1
          /\ i[u] * i[u] <= N
          /\ prime[u] = i[u] + 1
      BY <1>w, <1>4, <2>2 DEF Zero, Working
    <3>2. /\ i'[u] = i[u] /\ prime'[u] = prime[u] /\ pc'[u] = "zero"
          /\ k'[u] = k[u] + prime[u]
      BY <1>t, <1>4, <2>2 DEF Zero
    <3>3. PICK b \in Nat : b >= 2 /\ k[u] + 1 = (i[u] + 1) * b
      BY <1>w, <1>4, <2>2 DEF Zero
    <3>4. k'[u] + 1 = (i'[u] + 1) * (b + 1)
      <4>1. k[u] \in Nat /\ i[u] + 1 \in Nat
        BY <1>t
      <4>2. (i[u] + 1) * (b + 1) = (i[u] + 1) * b + (i[u] + 1)
        BY <4>1, OneMore
      <4>3. k[u] + prime[u] + 1 = (k[u] + 1) + (i[u] + 1)
        BY <3>1, <4>1
      <4>4. QED BY <3>2, <3>3, <4>2, <4>3
    <3>5. \E d \in Nat : d >= 2 /\ k'[u] + 1 = (i'[u] + 1) * d
      <4>1. b + 1 \in Nat /\ b + 1 >= 2
        BY <3>3
      <4>2. QED BY <3>4, <4>1
    <3>6. QED BY <3>1, <3>2, <3>5
  <2>3. QED BY <2>1, <2>2
<1>5. ASSUME NEW t \in Threads, NextNumber(t) PROVE Goal
  <2>1. CASE t # u
    BY <1>t, <1>5, <2>1, <1>o DEF NextNumber
  <2>2. CASE t = u
    <3>1. pc'[u] = "read"
      BY <1>t, <1>5, <2>2 DEF NextNumber
    <3>2. QED BY <3>1 DEF Working
  <2>3. QED BY <2>1, <2>2
<1>6. ASSUME NEW t \in Threads, Done(t) PROVE Goal
  <2>1. CASE t # u
    BY <1>t, <1>6, <2>1, <1>o DEF Done, locals
  <2>2. CASE t = u
    BY <1>t, <1>6, <2>2 DEF Done, Working
  <2>3. QED BY <2>1, <2>2
<1>7. CASE StartThread
  <2>1. CASE u # started
    BY <1>t, <1>7, <2>1, <1>o DEF StartThread, locals
  <2>2. CASE u = started
    BY <1>t, <1>7, <2>2 DEF StartThread, Working
  <2>3. QED BY <2>1, <2>2
<1>8. CASE AllStarted \/ StopWaiting \/ PrintPrimes
  BY <1>8, <1>o DEF AllStarted, StopWaiting, PrintPrimes, locals
<1>9. CASE UNCHANGED vars
  BY <1>9, <1>o DEF vars, locals
<1>10. QED
  BY <1>1, <1>2, <1>3, <1>4, <1>5, <1>6, <1>7, <1>8, <1>9
  DEF Next, Main, Thread, Terminating

LEMMA StartNext == SafeInv /\ [Next]_vars => StartInv'
<1> SUFFICES ASSUME SafeInv, [Next]_vars, NEW u \in Threads, u >= started'
             PROVE  pc'[u] = "none"
  BY DEF StartInv
<1> USE DEF GoTo
<1>t. /\ pc \in [Threads -> {"none", "read", "load", "store", "zero", "done"}]
      /\ started \in Nat /\ u \in Nat
  BY ThreadAssumption DEF SafeInv, TypeInv, Threads
<1>s. u >= started => pc[u] = "none"
  BY DEF SafeInv, StartInv
<1>1. ASSUME NEW t \in Threads, Thread(t) PROVE pc'[u] = "none"
  BY <1>t, <1>s, <1>1 DEF Thread, Read, LoadNegated, StoreNegated, Zero,
                          NextNumber, Done, mainVars
<1>2. CASE Main \/ UNCHANGED vars
  BY <1>t, <1>s, <1>2
  DEF Main, StartThread, AllStarted, StopWaiting, PrintPrimes, vars, mainVars
<1>3. QED BY <1>1, <1>2 DEF Next, Terminating

\* What the numbers and the work of the threads always are.
LEMMA SafeInvariance == Spec => []SafeInv
<1>1. SafeInv /\ [Next]_vars => SafeInv'
  BY TypeNext, NumbersNext, WorkNext, StartNext DEF SafeInv
<1>2. QED BY InitSafe, <1>1, PTL DEF Spec

\* No interleaving of negations and zeroings takes a prime: what a thread
\* zeroes is a multiple of the number it works on, and a zero it stores again
\* was one before (sieve_multith.cpp:23).
THEOREM PrimesAreKept == Spec => []NoPrimeZeroed
<1>1. SafeInv => NoPrimeZeroed
  BY DEF SafeInv, NumbersInv, MayHold, NoPrimeZeroed
<1>2. QED BY <1>1, SafeInvariance, PTL

-----------------------------------------------------------------------------
(***************************************************************************)
(* The multiples of primes                                                 *)
(***************************************************************************)

\* A number is set to something else than 0 by the thread that works on it
\* only, and the threads work on indices up to the square root.
LEMMA ZeroStays ==
  ASSUME SafeInv, [Next]_vars,
         NEW m \in 0 .. N - 1, m * m > N, numbers[m] = 0
  PROVE  numbers'[m] = 0
<1>c. N \in Nat /\ N >= 2
  BY SizeAssumption
<1>t. numbers \in [0 .. N - 1 -> Int]
  BY DEF SafeInv, TypeInv
<1>1. ASSUME NEW t \in Threads, StoreNegated(t) PROVE numbers'[m] = 0
  <2>1. i[t] \in 1 .. N - 1 /\ i[t] * i[t] <= N
    BY <1>1 DEF SafeInv, WorkInv, Working, StoreNegated
  <2>2. i[t] # m
    <3>1. m * m \in Nat /\ i[t] * i[t] \in Nat
      BY <1>c, <2>1
    <3>2. QED BY <1>c, <2>1, <3>1
  <2>3. numbers' = [numbers EXCEPT ![i[t]] = negated[t]]
    BY <1>1 DEF StoreNegated
  <2>4. QED BY <1>t, <2>2, <2>3
<1>2. ASSUME NEW t \in Threads, Zero(t) PROVE numbers'[m] = 0
  BY <1>t, <1>2 DEF Zero
<1>3. ASSUME NEW t \in Threads,
             Read(t) \/ LoadNegated(t) \/ NextNumber(t) \/ Done(t)
      PROVE  numbers'[m] = 0
  BY <1>3 DEF Read, LoadNegated, NextNumber, Done
<1>4. CASE Main \/ UNCHANGED vars
  BY <1>4 DEF Main, StartThread, AllStarted, StopWaiting, PrintPrimes, vars
<1>5. QED
  BY <1>1, <1>2, <1>3, <1>4 DEF Next, Thread, Terminating

LEMMA ZeroedStays ==
  ASSUME SafeInv, [Next]_vars, NEW q, NEW n, ZeroedUpTo(q, n)
  PROVE  ZeroedUpTo(q, n)'
<1> SUFFICES ASSUME NEW m \in 0 .. N - 1, m < n, MultipleBehind(q, m)
             PROVE  numbers'[m] = 0
  BY DEF ZeroedUpTo, MultipleBehind
<1>1. numbers[m] = 0 /\ m * m > N
  BY DEF ZeroedUpTo, MultipleBehind
<1>2. QED BY <1>1, ZeroStays

\* A thread begins behind its number: there is no multiple before the first
\* that it zeroes.
LEMMA NothingBeforeFirst ==
  ASSUME NEW q \in Nat, q >= 1
  PROVE  ZeroedUpTo(q, FirstMultiple(q, q + 1))
<1> SUFFICES ASSUME NEW m \in 0 .. N - 1, m < q + (q + 1), m > q,
                    NEW b \in Nat, m + 1 = (q + 1) * b
             PROVE  FALSE
  BY DEF ZeroedUpTo, MultipleBehind, FirstMultiple
<1>1. m \in Nat
  BY SizeAssumption
<1>2. (q + 1) * 1 < (q + 1) * b
  BY <1>1
<1>3. (q + 1) * 1 + (q + 1) <= (q + 1) * b
  BY <1>2, NextMultiple
<1>4. QED BY <1>1, <1>3

\* Between two indices that a thread zeroes one after the other there is no
\* multiple.
LEMMA NothingBetween ==
  ASSUME NEW q \in Nat, q >= 1, NEW n \in Nat, NEW b \in Nat,
         n + 1 = (q + 1) * b, NEW m \in Nat, NEW c \in Nat,
         m + 1 = (q + 1) * c, n < m
  PROVE  n + (q + 1) <= m
<1>1. (q + 1) * b < (q + 1) * c
  OBVIOUS
<1>2. (q + 1) * b + (q + 1) <= (q + 1) * c
  BY <1>1, NextMultiple
<1>3. QED BY <1>2

LEMMA ZeroedNext ==
  ASSUME SafeInv, ClaimInv, [Next]_vars, NEW u \in Threads, pc'[u] = "zero"
  PROVE  ZeroedUpTo(i[u], k[u])'
<1> USE DEF GoTo
<1>c. N \in Nat /\ N >= 2
  BY SizeAssumption
<1>t. /\ numbers \in [0 .. N - 1 -> Int]
      /\ pc \in [Threads -> {"none", "read", "load", "store", "zero", "done"}]
      /\ i \in [Threads -> Nat]
      /\ prime \in [Threads -> Int]
      /\ k \in [Threads -> Nat]
  BY DEF SafeInv, TypeInv
<1>z. \A t \in Threads : pc[t] = "zero" => ZeroedUpTo(i[t], k[t])
  BY DEF ClaimInv
<1>o. ASSUME pc'[u] = pc[u], i'[u] = i[u], k'[u] = k[u]
      PROVE  ZeroedUpTo(i[u], k[u])'
  <2>1. PICK q, n : q = i[u] /\ n = k[u]
    OBVIOUS
  <2>2. ZeroedUpTo(q, n)
    BY <1>z, <1>o, <2>1
  <2>3. ZeroedUpTo(q, n)'
    BY <2>2, ZeroedStays
  <2>4. QED BY <1>o, <2>1, <2>3 DEF ZeroedUpTo, MultipleBehind
<1>1. ASSUME NEW t \in Threads, Read(t)
      PROVE  ZeroedUpTo(i[u], k[u])'
  <2>1. CASE t # u
    BY <1>t, <1>1, <2>1, <1>o DEF Read
  <2>2. CASE t = u
    BY <1>t, <1>1, <2>2 DEF Read
  <2>3. QED BY <2>1, <2>2
<1>2. ASSUME NEW t \in Threads, StoreNegated(t)
      PROVE  ZeroedUpTo(i[u], k[u])'
  <2>1. CASE t # u
    BY <1>t, <1>2, <2>1, <1>o DEF StoreNegated
  <2>2. CASE t = u
    <3>1. PICK q \in Nat : q = i[u]
      BY <1>t
    <3>2. q >= 1 /\ prime[u] = q + 1
      BY <1>c, <1>2, <2>2, <3>1 DEF SafeInv, WorkInv, Working, StoreNegated
    <3>3. i'[u] = q /\ k'[u] = FirstMultiple(q, q + 1)
      BY <1>t, <1>2, <2>2, <3>1, <3>2 DEF StoreNegated
    <3>4. ZeroedUpTo(q, FirstMultiple(q, q + 1))
      BY <3>2, NothingBeforeFirst
    <3>5. ZeroedUpTo(q, FirstMultiple(q, q + 1))'
      BY <3>4, ZeroedStays
    <3>6. QED BY <3>3, <3>5 DEF ZeroedUpTo, MultipleBehind
  <2>3. QED BY <2>1, <2>2
<1>3. ASSUME NEW t \in Threads, Zero(t)
      PROVE  ZeroedUpTo(i[u], k[u])'
  <2>1. CASE t # u
    BY <1>t, <1>3, <2>1, <1>o DEF Zero
  <2>2. CASE t = u
    <3>0. PICK q \in Nat, n \in Nat : q = i[u] /\ n = k[u]
      BY <1>t
    <3>1. q >= 1 /\ prime[u] = q + 1
      BY <1>c, <1>t, <1>3, <2>2, <3>0 DEF SafeInv, WorkInv, Working, Zero
    <3>2. i'[u] = q /\ k'[u] = n + (q + 1)
      BY <1>t, <1>3, <2>2, <3>0, <3>1 DEF Zero
    <3>3. numbers'[n] = 0
      BY <1>c, <1>t, <1>3, <2>2, <3>0 DEF Zero, InVector
    <3>4. PICK b \in Nat : n + 1 = (q + 1) * b
      BY <1>3, <2>2, <3>0 DEF SafeInv, WorkInv, Zero
    <3>5. ZeroedUpTo(q, n)
      BY <1>z, <1>3, <2>2, <3>0 DEF Zero
    <3>6. ZeroedUpTo(q, n)'
      BY <3>5, ZeroedStays
    <3>7. ASSUME NEW m \in 0 .. N - 1, m < n + (q + 1), MultipleBehind(q, m)
          PROVE  numbers'[m] = 0
      <4>1. m \in Nat
        BY <1>c
      <4>2. PICK c \in Nat : m + 1 = (q + 1) * c
        BY <3>7 DEF MultipleBehind
      <4>3. CASE m < n
        BY <3>6, <3>7, <4>3 DEF ZeroedUpTo, MultipleBehind
      <4>4. CASE m = n
        BY <3>3, <4>4
      <4>5. CASE m > n
        BY <3>1, <3>4, <3>7, <4>1, <4>2, <4>5, NothingBetween
      <4>6. QED BY <3>1, <4>1, <4>3, <4>4, <4>5
    <3>8. ZeroedUpTo(q, n + (q + 1))'
      BY <3>7 DEF ZeroedUpTo, MultipleBehind
    <3>9. QED BY <3>2, <3>8 DEF ZeroedUpTo, MultipleBehind
  <2>3. QED BY <2>1, <2>2
<1>4. ASSUME NEW t \in Threads, LoadNegated(t) \/ NextNumber(t) \/ Done(t)
      PROVE  ZeroedUpTo(i[u], k[u])'
  <2>1. CASE t # u
    BY <1>t, <1>4, <2>1, <1>o DEF LoadNegated, NextNumber, Done, locals
  <2>2. CASE t = u
    BY <1>t, <1>4, <2>2 DEF LoadNegated, NextNumber, Done
  <2>3. QED BY <2>1, <2>2
<1>5. CASE StartThread
  <2>1. CASE u # started
    BY <1>t, <1>5, <2>1, <1>o DEF StartThread, locals
  <2>2. CASE u = started
    BY <1>t, <1>5, <2>2 DEF StartThread
  <2>3. QED BY <2>1, <2>2
<1>6. CASE AllStarted \/ StopWaiting \/ PrintPrimes \/ UNCHANGED vars
  BY <1>6, <1>o DEF AllStarted, StopWaiting, PrintPrimes, locals, vars
<1>7. QED
  BY <1>1, <1>2, <1>3, <1>4, <1>5, <1>6 DEF Next, Main, Thread, Terminating

\* Who leaves a number has zeroed its multiples.
LEMMA ClaimedStays ==
  ASSUME SafeInv, ClaimInv, [Next]_vars, NEW q, Claimed(q)
  PROVE  Claimed(q)'
<1> USE DEF GoTo
<1>t. /\ pc \in [Threads -> {"none", "read", "load", "store", "zero", "done"}]
      /\ i \in [Threads -> Nat]
      /\ k \in [Threads -> Nat]
  BY DEF SafeInv, TypeInv
<1>1. CASE ZeroedUpTo(q, N)
  BY <1>1, ZeroedStays DEF Claimed
<1>2. ASSUME NEW u \in Threads, pc[u] = "zero", i[u] = q
      PROVE  Claimed(q)'
  <2>o. ASSUME pc'[u] = "zero", i'[u] = q PROVE Claimed(q)'
    BY <2>o DEF Claimed
  <2>1. ASSUME NEW t \in Threads, NextNumber(t) PROVE Claimed(q)'
    <3>1. CASE t # u
      BY <1>t, <1>2, <2>1, <2>o, <3>1 DEF NextNumber
    <3>2. CASE t = u
      <4>1. ZeroedUpTo(q, k[u])
        BY <1>2 DEF ClaimInv
      <4>2. k[u] \in Nat /\ ~(k[u] < N) /\ N \in Nat
        BY <1>t, <2>1, <3>2, SizeAssumption DEF NextNumber, InVector
      <4>3. ZeroedUpTo(q, N)
        BY <4>1, <4>2 DEF ZeroedUpTo
      <4>4. QED BY <4>3, ZeroedStays DEF Claimed
    <3>3. QED BY <3>1, <3>2
  <2>2. ASSUME NEW t \in Threads, Zero(t) PROVE Claimed(q)'
    BY <1>t, <1>2, <2>2, <2>o DEF Zero
  <2>3. ASSUME NEW t \in Threads,
               Read(t) \/ LoadNegated(t) \/ StoreNegated(t) \/ Done(t)
        PROVE  Claimed(q)'
    BY <1>t, <1>2, <2>3, <2>o
    DEF Read, LoadNegated, StoreNegated, Done, locals
  <2>4. CASE StartThread
    <3>1. CASE started = u
      BY <1>2, <3>1, ThreadAssumption DEF SafeInv, StartInv, Threads
    <3>2. CASE started # u
      BY <1>t, <1>2, <2>4, <2>o, <3>2 DEF StartThread, locals
    <3>3. QED BY <3>1, <3>2
  <2>5. CASE AllStarted \/ StopWaiting \/ PrintPrimes \/ UNCHANGED vars
    BY <1>2, <2>5, <2>o
    DEF AllStarted, StopWaiting, PrintPrimes, locals, vars
  <2>6. QED
    BY <2>1, <2>2, <2>3, <2>4, <2>5 DEF Next, Main, Thread, Terminating
<1>3. QED BY <1>1, <1>2 DEF Claimed

\* A prime is positive or negated.
LEMMA PrimeNotZero ==
  ASSUME SafeInv, NEW q \in WalkedPrimes
  PROVE  /\ numbers[q] \in {q + 1, -(q + 1)}
         /\ q \in Nat /\ q \in 1 .. N - 1 /\ numbers[q] # 0
<1>1. q \in 1 .. N - 1 /\ ~IsComposite(q + 1)
  BY DEF WalkedPrimes
<1>2. MayHold(q, numbers[q])
  BY <1>1 DEF SafeInv, NumbersInv
<1>3. q \in Nat
  BY <1>1, SizeAssumption
<1>4. QED BY <1>1, <1>2, <1>3 DEF MayHold

LEMMA NegatedNext ==
  ASSUME SafeInv, ClaimInv, [Next]_vars, NEW q \in WalkedPrimes,
         numbers'[q] < 0
  PROVE  Claimed(q)'
<1>t. /\ numbers \in [0 .. N - 1 -> Int]
      /\ pc \in [Threads -> {"none", "read", "load", "store", "zero", "done"}]
  BY DEF SafeInv, TypeInv
<1>q. q \in 1 .. N - 1 /\ q \in 0 .. N - 1
  BY PrimeNotZero, SizeAssumption
<1>o. ASSUME numbers'[q] = numbers[q] PROVE Claimed(q)'
  <2>1. Claimed(q)
    BY <1>o DEF ClaimInv
  <2>2. QED BY <2>1, ClaimedStays
<1>1. ASSUME NEW t \in Threads, StoreNegated(t) PROVE Claimed(q)'
  <2>1. numbers' = [numbers EXCEPT ![i[t]] = negated[t]]
    BY <1>1 DEF StoreNegated
  <2>2. CASE i[t] = q
    <3>1. pc'[t] = "zero" /\ i'[t] = q
      BY <1>t, <1>1, <2>2 DEF StoreNegated, GoTo
    <3>2. QED BY <3>1 DEF Claimed
  <2>3. CASE i[t] # q
    BY <1>t, <1>q, <1>o, <2>1, <2>3
  <2>4. QED BY <2>2, <2>3
<1>2. ASSUME NEW t \in Threads, Zero(t) PROVE Claimed(q)'
  <2>1. numbers' = [numbers EXCEPT ![k[t]] = 0]
    BY <1>2 DEF Zero
  <2>2. k[t] # q
    BY <1>t, <1>q, <2>1
  <2>3. QED BY <1>t, <1>q, <1>o, <2>1, <2>2
<1>3. ASSUME NEW t \in Threads,
             Read(t) \/ LoadNegated(t) \/ NextNumber(t) \/ Done(t)
      PROVE  Claimed(q)'
  BY <1>3, <1>o DEF Read, LoadNegated, NextNumber, Done
<1>4. CASE Main \/ UNCHANGED vars
  BY <1>4, <1>o
  DEF Main, StartThread, AllStarted, StopWaiting, PrintPrimes, vars
<1>5. QED
  BY <1>1, <1>2, <1>3, <1>4 DEF Next, Thread, Terminating

\* A thread walks past a prime when it has zeroed its multiples, or when it
\* reads it negated.
LEMMA PassedNext ==
  ASSUME SafeInv, ClaimInv, [Next]_vars, NEW q \in WalkedPrimes,
         NEW u \in Threads, i'[u] > q
  PROVE  Claimed(q)'
<1>t. i \in [Threads -> Nat]
  BY DEF SafeInv, TypeInv
<1>q. q \in Nat
  BY PrimeNotZero
<1> SUFFICES Claimed(q)
  BY ClaimedStays
<1>o. ASSUME i'[u] = i[u] PROVE Claimed(q)
  BY <1>o DEF ClaimInv
<1>1. ASSUME NEW t \in Threads, Read(t) PROVE Claimed(q)
  <2>1. CASE t # u \/ i'[u] = i[u]
    BY <1>t, <1>1, <2>1, <1>o DEF Read
  <2>2. CASE t = u /\ i'[u] # i[u]
    <3>1. i'[u] = i[u] + 1 /\ ~Claimable(numbers[i[u]])
      BY <1>t, <1>1, <2>2 DEF Read
    <3>2. CASE i[u] > q
      BY <3>2 DEF ClaimInv
    <3>3. CASE ~(i[u] > q)
      <4>1. i[u] = q
        BY <1>t, <1>q, <3>1, <3>3
      <4>2. numbers[q] < 0
        BY <1>q, <3>1, <4>1, PrimeNotZero DEF Claimable
      <4>3. QED BY <4>2 DEF ClaimInv
    <3>4. QED BY <3>2, <3>3
  <2>3. QED BY <2>1, <2>2
<1>2. ASSUME NEW t \in Threads, NextNumber(t) PROVE Claimed(q)
  <2>1. CASE t # u
    BY <1>t, <1>2, <2>1, <1>o DEF NextNumber
  <2>2. CASE t = u
    <3>1. i'[u] = i[u] + 1 /\ pc[u] = "zero"
      BY <1>t, <1>2, <2>2 DEF NextNumber
    <3>2. CASE i[u] > q
      BY <3>2 DEF ClaimInv
    <3>3. CASE ~(i[u] > q)
      <4>1. i[u] = q
        BY <1>t, <1>q, <3>1, <3>3
      <4>2. QED BY <3>1, <4>1 DEF Claimed
    <3>4. QED BY <3>2, <3>3
  <2>3. QED BY <2>1, <2>2
<1>3. ASSUME NEW t \in Threads,
             LoadNegated(t) \/ StoreNegated(t) \/ Zero(t) \/ Done(t)
      PROVE  Claimed(q)
  BY <1>3, <1>o DEF LoadNegated, StoreNegated, Zero, Done, locals
<1>4. CASE Main \/ UNCHANGED vars
  BY <1>4, <1>o
  DEF Main, StartThread, AllStarted, StopWaiting, PrintPrimes, vars, locals
<1>5. QED
  BY <1>1, <1>2, <1>3, <1>4 DEF Next, Thread, Terminating

LEMMA ClaimNext == SafeInv /\ ClaimInv /\ [Next]_vars => ClaimInv'
<1> SUFFICES ASSUME SafeInv, ClaimInv, [Next]_vars PROVE ClaimInv'
  OBVIOUS
<1>1. \A q \in WalkedPrimes : numbers'[q] < 0 => Claimed(q)'
  BY NegatedNext
<1>2. \A q \in WalkedPrimes : \A t \in Threads : i'[t] > q => Claimed(q)'
  BY PassedNext
<1>3. \A t \in Threads : pc'[t] = "zero" => ZeroedUpTo(i[t], k[t])'
  BY ZeroedNext
<1>4. WalkedPrimes' = WalkedPrimes
  BY DEF WalkedPrimes, IsComposite, ProperlyDivides
<1> HIDE DEF WalkedPrimes
<1>5. QED BY <1>1, <1>2, <1>3, <1>4 DEF ClaimInv

-----------------------------------------------------------------------------
(***************************************************************************)
(* What main prints                                                        *)
(***************************************************************************)

LEMMA MainNext == SafeInv /\ MainInv /\ [Next]_vars => MainInv'
<1> SUFFICES ASSUME SafeInv, MainInv, [Next]_vars PROVE MainInv'
  OBVIOUS
<1> USE DEF GoTo, MainInv, Abs
<1>t. /\ pc \in [Threads -> {"none", "read", "load", "store", "zero", "done"}]
      /\ i \in [Threads -> Nat]
  BY DEF SafeInv, TypeInv
\* Nothing happens behind a thread that is done.
<1>o. ASSUME NEW t \in Threads, pc[t] # "done", main' = main,
             UNCHANGED printed,
             \A u \in Threads \ {t} : pc'[u] = pc[u] /\ i'[u] = i[u],
             pc'[t] = "done" => i'[t] * i'[t] > N
      PROVE  MainInv'
  <2>1. main \notin {"print", "exit"}
    BY <1>o
  <2>2. \A u \in Threads : pc'[u] = "done" => i'[u] * i'[u] > N
    BY <1>o
  <2>3. QED BY <1>o, <2>1, <2>2
<1>1. ASSUME NEW t \in Threads, Done(t) PROVE MainInv'
  <2>1. pc[t] # "done" /\ i'[t] = i[t] /\ i[t] \in Nat /\ ~(i[t] * i[t] <= N)
    BY <1>t, <1>1 DEF Done, Looping, locals
  <2>2. i'[t] * i'[t] > N
    <3>1. i[t] * i[t] \in Nat
      BY <2>1
    <3>2. QED BY <2>1, <3>1, SizeAssumption
  <2>3. QED BY <1>t, <1>1, <1>o, <2>1, <2>2 DEF Done, locals, mainVars
<1>2. ASSUME NEW t \in Threads,
             Read(t) \/ LoadNegated(t) \/ StoreNegated(t) \/ Zero(t)
             \/ NextNumber(t)
      PROVE  MainInv'
  <2>1. pc[t] # "done" /\ pc'[t] # "done" /\ main' = main /\ UNCHANGED printed
    BY <1>t, <1>2
    DEF Read, LoadNegated, StoreNegated, Zero, NextNumber, mainVars
  <2>2. \A u \in Threads \ {t} : pc'[u] = pc[u] /\ i'[u] = i[u]
    BY <1>t, <1>2 DEF Read, LoadNegated, StoreNegated, Zero, NextNumber
  <2>3. QED BY <1>o, <2>1, <2>2
<1>3. CASE StartThread
  <2>1. started \in Threads /\ pc[started] = "none"
    BY <1>3, ThreadAssumption
    DEF SafeInv, TypeInv, StartInv, StartThread, Threads
  <2>2. QED BY <1>t, <1>3, <1>o, <2>1 DEF StartThread, locals
<1>4. CASE AllStarted
  BY <1>4 DEF AllStarted, locals
<1>5. CASE StopWaiting
  BY <1>5 DEF StopWaiting, AllDone, locals
<1>6. CASE PrintPrimes
  BY <1>6 DEF PrintPrimes, locals
<1>7. CASE UNCHANGED vars
  BY <1>7 DEF vars, locals, mainVars
<1>8. QED
  BY <1>1, <1>2, <1>3, <1>4, <1>5, <1>6, <1>7
  DEF Next, Main, Thread, Terminating

LEMMA Invariance == Spec => []IInv
<1>1. Init => ClaimInv
  <2> SUFFICES ASSUME Init PROVE ClaimInv
    OBVIOUS
  <2>1. \A q \in WalkedPrimes : q \in Nat /\ q \in 1 .. N - 1
    BY SizeAssumption DEF WalkedPrimes
  <2>2. \A q \in WalkedPrimes : ~(numbers[q] < 0)
    BY <2>1, SizeAssumption DEF Init
  <2>3. QED BY <2>1, <2>2 DEF Init, ClaimInv
<1>2. Init => MainInv
  BY DEF Init, MainInv
<1>3. Init => IInv
  BY <1>1, <1>2, InitSafe DEF IInv
<1>4. SafeInv /\ [Next]_vars => SafeInv'
  BY TypeNext, NumbersNext, WorkNext, StartNext DEF SafeInv
<1>5. IInv /\ [Next]_vars => IInv'
  BY <1>4, ClaimNext, MainNext DEF IInv
<1>6. QED BY <1>3, <1>5, PTL DEF Spec

\* A composite comes back only at an index that the threads walk over, up to
\* the square root: its divisors up to there have all been claimed, and who
\* claimed one has zeroed its multiples for good (sieve_multith.cpp:19-33).
THEOREM LateNegationsStayBelowRoot == Spec => []OnlyWalkedOverComeBack
<1>1. IInv => OnlyWalkedOverComeBack
  <2> SUFFICES ASSUME IInv, main = "exit", NEW n \in printed, IsComposite(n)
               PROVE  (n - 1) * (n - 1) <= N
    BY DEF OnlyWalkedOverComeBack
  <2>c. N \in Nat /\ N >= 2 /\ M \in Nat \ {0}
    BY SizeAssumption, ThreadAssumption
  <2>1. PICK x \in 0 .. N - 1 : numbers[x] # 0 /\ n = Abs(numbers[x])
    BY DEF IInv, MainInv
  <2>2. x # 0 /\ x \in Nat
    BY <2>1 DEF IInv, SafeInv, NumbersInv
  <2>3. n = x + 1
    <3>1. MayHold(x, numbers[x])
      BY <2>1, <2>2 DEF IInv, SafeInv, NumbersInv
    <3>2. QED BY <2>1, <2>2, <3>1 DEF MayHold, Abs
  <2>4. SUFFICES ASSUME x * x > N PROVE FALSE
    <3>1. x * x \in Nat
      BY <2>2
    <3>2. QED BY <2>c, <2>2, <2>3, <2>4, <3>1
  <2>5. PICK p \in 2 .. n : /\ ~IsComposite(p)
                            /\ ProperlyDivides(p, n)
                            /\ p * p <= n
    BY <2>2, <2>3, LeastDivisor
  <2>6. PICK q \in Nat : p = q + 1 /\ q >= 1
    <3>1. p - 1 \in Nat /\ p = (p - 1) + 1 /\ p - 1 >= 1
      BY <2>2, <2>3
    <3>2. QED BY <3>1
  <2>7. PICK b \in 2 .. n : n = (q + 1) * b
    BY <2>5, <2>6 DEF ProperlyDivides
  <2>8. q < x /\ q * q <= N
    <3>1. (q + 1) * (q + 1) <= x + 1
      BY <2>3, <2>5, <2>6
    <3>2. q * q + q + q + 1 <= x + 1 /\ q * q \in Nat
      BY <2>2, <2>6, <3>1
    <3>3. QED BY <2>c, <2>1, <2>2, <2>6, <3>2
  <2>9. q \in WalkedPrimes
    BY <2>c, <2>1, <2>2, <2>5, <2>6, <2>8 DEF WalkedPrimes
  <2>10. 0 \in Threads /\ \A t \in Threads : pc[t] = "done"
    BY <2>c DEF IInv, MainInv, Threads
  <2>11. i[0] > q
    <3>1. i[0] \in Nat /\ i[0] * i[0] > N
      BY <2>10 DEF IInv, SafeInv, TypeInv, MainInv
    <3>2. QED BY <2>c, <2>6, <2>8, <3>1
  <2>12. Claimed(q)
    BY <2>9, <2>10, <2>11 DEF IInv, ClaimInv
  <2>13. ZeroedUpTo(q, N)
    BY <2>10, <2>12 DEF Claimed
  <2>14. MultipleBehind(q, x)
    BY <2>2, <2>3, <2>4, <2>7, <2>8 DEF MultipleBehind
  <2>15. QED BY <2>c, <2>1, <2>13, <2>14 DEF ZeroedUpTo
<1>2. QED BY <1>1, Invariance, PTL

=============================================================================
