-------------------------- MODULE SieveRanges_proofs --------------------------
(***************************************************************************)
(* What the sieve with ranges of a bit array keeps in spite of its race,   *)
(* for every limit and every number of threads: proofs about SieveRanges.  *)
(*                                                                         *)
(* The argument.  A thread only marks multiples of its divisor, from the   *)
(* square on, so that the bytes, the ones held between a load and a store  *)
(* included, never show a prime as marked.  Hence no thread passes over a  *)
(* prime divisor, whatever the others have done to the bits it looks at:   *)
(* it marks every composite of its range.  In a byte that is in the range  *)
(* of no other thread the byte it loaded is still the one in the array     *)
(* when it stores it, and marks are never lost.  As the ranges leave no    *)
(* number out, only a byte in two ranges can show a composite as prime.    *)
(***************************************************************************)
EXTENDS SieveRanges, WellFoundedInduction, TLAPS

-----------------------------------------------------------------------------
(***************************************************************************)
(* Facts about numbers                                                     *)
(***************************************************************************)

\* Every set of naturals that has an element has a least one.
LEMMA LeastNat ==
  ASSUME NEW S \in SUBSET Nat, NEW n \in S
  PROVE  \E s \in S : \A m \in S : s <= m
<1> DEFINE R == OpToRel(<, Nat)
<1>1. PICK s \in S : \A m \in S : <<m, s>> \notin R
  BY NatLessThanWellFounded, WFMin
<1>2. \A m \in S : <<m, s>> \notin R => s <= m
  <2>1. R = {r \in Nat \X Nat : r[1] < r[2]}
    BY DEF OpToRel
  <2> HIDE DEF R
  <2>2. QED BY <2>1
<1>3. QED BY <1>1, <1>2

LEMMA ProductGrows ==
  ASSUME NEW a \in Nat, NEW b \in Nat, NEW c \in Nat, a >= 1, b <= c
  PROVE  a * b \in Nat /\ a * b <= a * c /\ b <= a * b
OBVIOUS

LEMMA OneMore ==
  ASSUME NEW a \in Nat, NEW b \in Nat
  PROVE  a * (b + 1) = a * b + a
OBVIOUS

\* Multiples of a are at least a apart.
LEMMA NextMultiple ==
  ASSUME NEW a \in Nat, NEW b \in Nat, NEW c \in Nat, a * b < a * c
  PROVE  a * b + a <= a * c
OBVIOUS

LEMMA CofactorOrder ==
  ASSUME NEW a \in Nat, NEW b \in Nat, NEW c \in Nat, a >= 1, a * b <= a * c
  PROVE  b <= c
OBVIOUS

LEMMA ProductIsComposite ==
  ASSUME NEW a \in Nat, NEW b \in Nat, a >= 2, b >= 2
  PROVE  IsComposite(a * b)
<1>1. a * b \in Nat /\ a <= a * b /\ b <= a * b
  OBVIOUS
<1>2. a \in 2 .. a * b /\ b \in 2 .. a * b
  BY <1>1
<1>3. QED BY <1>2 DEF IsComposite, ProperlyDivides

\* A proper divisor of a proper divisor is one.
LEMMA DivisorOfDivisor ==
  ASSUME NEW n \in Nat, NEW a \in Nat, NEW c \in Nat, a >= 2, c >= 2,
         ProperlyDivides(c, a), ProperlyDivides(a, n)
  PROVE  ProperlyDivides(c, n)
<1>1. PICK b \in 2 .. n : n = a * b
  BY DEF ProperlyDivides
<1>2. PICK d \in 2 .. a : a = c * d
  BY DEF ProperlyDivides
<1>3. n = c * (d * b)
  BY <1>1, <1>2
<1>4. d * b \in Nat /\ d * b >= 2 /\ d * b <= c * (d * b)
  <2>1. d * b \in Nat /\ b <= d * b
    BY ProductGrows
  <2>2. QED BY <2>1, ProductGrows
<1>5. d * b \in 2 .. n
  BY <1>3, <1>4
<1>6. QED BY <1>3, <1>5 DEF ProperlyDivides

\* A composite number has a prime divisor up to its square root: the least of
\* its divisors.
LEMMA LeastDivisor ==
  ASSUME NEW n \in Nat, IsComposite(n)
  PROVE  \E p \in 2 .. n : ~IsComposite(p) /\ ProperlyDivides(p, n)
                           /\ p * p <= n
<1> DEFINE S == {a \in 2 .. n : ProperlyDivides(a, n)}
<1>1. S \in SUBSET Nat /\ S # {}
  BY DEF IsComposite
<1>2. PICK p \in S : \A m \in S : p <= m
  <2> HIDE DEF S
  <2>1. QED BY <1>1, LeastNat
<1>3. ~IsComposite(p)
  <2> SUFFICES ASSUME IsComposite(p) PROVE FALSE
    OBVIOUS
  <2>1. PICK c \in 2 .. p : ProperlyDivides(c, p)
    BY DEF IsComposite
  <2>2. c < p
    BY <2>1 DEF ProperlyDivides
  <2>3. ProperlyDivides(c, n)
    BY <2>1, <1>2, DivisorOfDivisor
  <2>4. c \in S
    BY <2>3
  <2>5. QED BY <1>2, <2>2, <2>4
<1>4. p * p <= n
  <2>1. PICK b \in 2 .. n : n = p * b
    BY DEF ProperlyDivides
  <2>2. n = b * p
    BY <2>1
  <2>3. b \in S
    BY <2>2 DEF ProperlyDivides
  <2>4. p <= b
    BY <1>2, <2>3
  <2>5. p * p <= p * b
    BY <2>4, ProductGrows
  <2>6. QED BY <2>1, <2>5
<1>5. QED BY <1>3, <1>4


-----------------------------------------------------------------------------
(***************************************************************************)
(* The inductive invariant                                                 *)
(***************************************************************************)

Running(t) == pc[t] \in {"test", "load", "store", "returned"}

TypeInv ==
  /\ data \in [0 .. LastByte -> SUBSET Nat]
  /\ pc \in [Threads -> {"none", "test", "load", "store", "returned"}]
  /\ from \in [Threads -> Nat]
  /\ to \in [Threads -> Nat]
  /\ j \in [Threads -> Nat]
  /\ i \in [Threads -> Nat]
  /\ byte \in [Threads -> SUBSET Nat]
  /\ started \in 0 .. ThreadsCount
  /\ left_bound \in Nat
  /\ main \in {"start", "join", "print", "done"}
  /\ joined \in 0 .. ThreadsCount

MayBeMarked(n) == n \in {0, 1} \/ IsComposite(n)

BytesInv ==
  /\ \A b \in 0 .. LastByte : \A n \in data[b] : MayBeMarked(n)
  /\ \A t \in Threads : \A n \in byte[t] : MayBeMarked(n)

\* A thread works in its range, on multiples of its divisor from the square on.
WorkInv ==
  \A t \in Threads :
    /\ t <= started <=> Running(t)
    /\ Running(t) => j[t] >= 2 /\ to[t] <= Limit
    /\ pc[t] \in {"load", "store"} =>
         \E b \in Nat : b >= 2 /\ i[t] = j[t] * b /\ i[t] >= from[t]
    /\ pc[t] = "store" => i[t] <= to[t]
    /\ pc[t] = "returned" => j[t] * j[t] > to[t]

SafeInv == TypeInv /\ BytesInv /\ WorkInv

InRange(t, n) == Running(t) /\ from[t] <= n /\ n <= to[t]

\* Two threads that run have the byte b in their ranges.
Shared(b) == \E t, u \in Threads : /\ t # u /\ Running(t) /\ Running(u)
                                   /\ b \in ByteOf(from[t]) .. ByteOf(to[t])
                                   /\ b \in ByteOf(from[u]) .. ByteOf(to[u])

\* The thread has come past n with its divisor p.
Passed(t, p, n) == \/ j[t] > p
                   \/ j[t] = p /\ pc[t] \in {"load", "store"} /\ i[t] > n

PrimeDivisor(p, n) == /\ p >= 2 /\ ~IsComposite(p)
                      /\ p * p <= n
                      /\ \E b \in Nat : n = p * b

\* Outside the shared bytes, what is stored is what was loaded and one mark,
\* and who has come past a number has marked it.
MarksInv ==
  \A t \in Threads :
    /\ pc[t] = "store" /\ ~Shared(ByteOf(i[t])) => byte[t] = data[ByteOf(i[t])]
    /\ \A n \in 0 .. Limit : \A p \in 2 .. Limit :
         InRange(t, n) /\ PrimeDivisor(p, n) /\ Passed(t, p, n)
           => IsMarked(n) \/ Shared(ByteOf(n))

\* The ranges of the threads that run leave no number out.
CoverInv ==
  \A n \in 4 .. Limit :
    main # "start" \/ n <= left_bound => \E t \in Threads : InRange(t, n)

MainInv ==
  /\ main # "start" => started = ThreadsCount
  /\ main = "start" => started < ThreadsCount /\ joined = 0
  /\ \A t \in Threads : t > ThreadsCount - joined => pc[t] = "returned"
  /\ main \in {"print", "done"} => joined = ThreadsCount
  /\ main = "done" => printed = {n \in 2 .. Limit - 1 : ~IsMarked(n)}

IInv == SafeInv /\ MarksInv /\ CoverInv /\ MainInv

-----------------------------------------------------------------------------
(***************************************************************************)
(* Bytes and multiples                                                     *)
(***************************************************************************)

LEMMA ByteBounds ==
  ASSUME NEW n \in Nat
  PROVE  ByteOf(n) \in Nat /\ ByteOf(n) * 8 \in Nat /\ ByteOf(n) * 8 <= n
BY DEF ByteOf

LEMMA ByteOrder ==
  ASSUME NEW m \in Nat, NEW n \in Nat, m <= n
  PROVE  ByteOf(m) <= ByteOf(n)
BY DEF ByteOf

LEMMA LargestOfTwo ==
  ASSUME NEW a \in Nat, NEW b \in Nat
  PROVE  Max({a, b}) \in {a, b} /\ a <= Max({a, b}) /\ b <= Max({a, b})
<1>1. \E x \in {a, b} : \A y \in {a, b} : x >= y
  BY DEF Max
<1>2. QED BY <1>1 DEF Max

LEMMA LeastOfTwo ==
  ASSUME NEW a \in Nat, NEW b \in Nat
  PROVE  Min({a, b}) \in {a, b} /\ Min({a, b}) <= a /\ Min({a, b}) <= b
<1>1. \E x \in {a, b} : \A y \in {a, b} : x <= y
  OBVIOUS
<1>2. QED BY <1>1 DEF Min

LEMMA Quotient ==
  ASSUME NEW n \in Nat, NEW d \in Nat, d >= 1
  PROVE  /\ n \div d \in Nat
         /\ (n \div d) * d <= n
         /\ n < (n \div d) * d + d
OBVIOUS

\* It is a multiple, and the least one that is not below n.
LEMMA MultipleFromIsLeast ==
  ASSUME NEW d \in Nat, NEW n \in Nat, d >= 1
  PROVE  \E q \in Nat : /\ MultipleFrom(d, n) = d * q
                        /\ n <= d * q
                        /\ \A c \in Nat : n <= d * c => d * q <= d * c
<1> DEFINE q == (n + d - 1) \div d
<1>1. n + d - 1 \in Nat
  OBVIOUS
<1>2. q \in Nat /\ q * d <= n + d - 1 /\ n + d - 1 < q * d + d
  BY <1>1, Quotient
<1>3. MultipleFrom(d, n) = q * d
  BY DEF MultipleFrom
<1> HIDE DEF q
<1>4. q * d = d * q /\ d * q \in Nat
  BY <1>2
<1>5. n <= d * q
  BY <1>2, <1>4
<1>6. ASSUME NEW c \in Nat, n <= d * c, d * c < d * q PROVE FALSE
  <2>1. d * c \in Nat
    OBVIOUS
  <2>2. d * c + d <= d * q
    BY <1>2, <1>6, NextMultiple
  <2>3. QED BY <1>2, <1>4, <1>6, <2>1, <2>2
<1>7. ASSUME NEW c \in Nat, n <= d * c PROVE d * q <= d * c
  <2>1. d * c \in Nat
    OBVIOUS
  <2>2. ~(d * c < d * q)
    BY <1>6, <1>7
  <2>3. QED BY <1>4, <2>1, <2>2
<1>8. QED BY <1>2, <1>3, <1>4, <1>5, <1>7

\* A thread begins with a multiple other than its divisor, and skips none
\* that is in its range and not below the square.
LEMMA FirstMultipleIsFirst ==
  ASSUME NEW d \in Nat, NEW left \in Nat, d >= 2
  PROVE  /\ FirstMultiple(d, left) \in Nat
         /\ \E b \in Nat : b >= 2 /\ FirstMultiple(d, left) = d * b
         /\ left <= FirstMultiple(d, left)
         /\ \A c \in Nat : left <= d * c /\ d * d <= d * c
                             => FirstMultiple(d, left) <= d * c
<1>1. PICK q \in Nat : /\ MultipleFrom(d, left) = d * q
                       /\ left <= d * q
                       /\ \A c \in Nat : left <= d * c => d * q <= d * c
  <2>1. d >= 1
    OBVIOUS
  <2>2. QED BY <2>1, MultipleFromIsLeast, Zenon
<1>2. d * q \in Nat /\ d * d \in Nat
  OBVIOUS
<1>3. /\ FirstMultiple(d, left) \in {d * q, d * d}
      /\ d * q <= FirstMultiple(d, left)
      /\ d * d <= FirstMultiple(d, left)
  BY <1>1, <1>2, LargestOfTwo DEF FirstMultiple
<1>4. \E b \in Nat : b >= 2 /\ FirstMultiple(d, left) = d * b
  <2>1. CASE FirstMultiple(d, left) = d * d
    BY <2>1
  <2>2. CASE FirstMultiple(d, left) = d * q
    <3>1. d * d <= d * q
      BY <1>3, <2>2
    <3>2. d <= q
      BY <3>1, CofactorOrder
    <3>3. QED BY <2>2, <3>2
  <2>3. QED BY <1>3, <2>1, <2>2
<1>5. \A c \in Nat : d * c \in Nat
  OBVIOUS
<1>6. QED BY <1>1, <1>2, <1>3, <1>4, <1>5

\* main hands out ranges up to the limit.
LEMMA RightBoundInLimit ==
  ASSUME NEW left \in Nat
  PROVE  RightBound(left) \in Nat /\ RightBound(left) <= Limit
<1>1. Limit \in Nat /\ count_to_thread \in Nat
  <2>1. Limit \in Nat /\ ThreadsCount \in Nat /\ ThreadsCount >= 1
    BY LimitAssumption, ThreadsCountAssumption
  <2>2. QED BY <2>1, Quotient DEF count_to_thread
<1>2. ((left + count_to_thread) \div 8 + 1) * 8 - 1 \in Nat
  <2>1. left + count_to_thread \in Nat
    BY <1>1
  <2>2. (left + count_to_thread) \div 8 \in Nat
    BY <2>1
  <2>3. QED BY <2>2
<1>3. QED BY <1>1, <1>2, LeastOfTwo DEF RightBound

-----------------------------------------------------------------------------
(***************************************************************************)
(* Only composites are marked                                              *)
(***************************************************************************)

LEMMA ConstantTypes ==
  /\ Limit \in Nat
  /\ ThreadsCount \in Nat
  /\ ThreadsCount >= 1
  /\ LastByte \in Nat
BY LimitAssumption, ThreadsCountAssumption, ByteBounds DEF LastByte

LEMMA ByteInArray ==
  ASSUME NEW n \in Nat, n <= Limit
  PROVE  ByteOf(n) \in 0 .. LastByte
BY ConstantTypes, ByteBounds, ByteOrder DEF LastByte

LEMMA InitSafe == Init => SafeInv
<1> SUFFICES ASSUME Init PROVE SafeInv
  OBVIOUS
<1>1. TypeInv
  BY ConstantTypes DEF Init, TypeInv
<1>2. BytesInv
  BY ConstantTypes DEF Init, BytesInv, MayBeMarked
<1>3. WorkInv
  BY ConstantTypes DEF Init, WorkInv, Running, Threads
<1>4. QED BY <1>1, <1>2, <1>3 DEF SafeInv

\* What the ranges are when main creates a thread.
LEMMA StartStep ==
  ASSUME SafeInv, StartThread \/ StartLastThread
  PROVE  \E left \in Nat, right \in Nat :
           /\ right <= Limit
           /\ started + 1 \in Threads
           /\ pc[started + 1] = "none"
           /\ Start(started + 1, left, right)
           /\ left <= left_bound
           /\ StartThread => left_bound' = right
           /\ StartLastThread => right = Limit
           /\ UNCHANGED <<data, i, byte, joined, printed>>
<1>t. TypeInv /\ WorkInv
  BY DEF SafeInv
<1>1. started + 1 \in Threads /\ ~(started + 1 <= started)
  BY <1>t, ConstantTypes DEF TypeInv, Threads, StartThread, StartLastThread
<1>2. pc[started + 1] = "none"
  BY <1>t, <1>1 DEF TypeInv, WorkInv, Running
<1>3. CASE StartThread
  <2> DEFINE left == ByteOf(left_bound) * 8
             right == RightBound(left)
  <2>1. left \in Nat /\ left <= left_bound
    <3>1. left_bound \in Nat
      BY <1>t DEF TypeInv
    <3>2. QED BY <3>1, ByteBounds
  <2>2. right \in Nat /\ right <= Limit
    BY <2>1, RightBoundInLimit
  <2>3. Start(started + 1, left, right) /\ left_bound' = right
    BY <1>3 DEF StartThread
  <2>4. ~StartLastThread
    BY <1>3, <1>t, ConstantTypes DEF TypeInv, StartThread, StartLastThread
  <2>5. UNCHANGED <<data, i, byte, joined, printed>>
    BY <1>3 DEF StartThread
  <2> HIDE DEF left, right
  <2>6. QED BY <1>1, <1>2, <2>1, <2>2, <2>3, <2>4, <2>5
<1>4. CASE StartLastThread
  <2>1. Start(started + 1, left_bound, Limit)
    BY <1>4, <1>t, ConstantTypes DEF TypeInv, StartLastThread
  <2>2. left_bound \in Nat /\ left_bound <= left_bound
    BY <1>t DEF TypeInv
  <2>3. ~StartThread
    BY <1>4, <1>t, ConstantTypes DEF TypeInv, StartThread, StartLastThread
  <2>4. QED
    BY <1>1, <1>2, <1>4, <2>1, <2>2, <2>3, ConstantTypes DEF StartLastThread
<1>5. QED BY <1>3, <1>4

LEMMA TypeNext == SafeInv /\ [Next]_vars => TypeInv'
<1> SUFFICES ASSUME SafeInv, [Next]_vars PROVE TypeInv'
  OBVIOUS
<1> USE DEF GoTo, TypeInv, locals, mainVars
<1>c. Limit \in Nat /\ ThreadsCount \in Nat /\ ThreadsCount >= 1
  BY ConstantTypes
<1>t. TypeInv
  BY DEF SafeInv
<1>w. WorkInv
  BY DEF SafeInv
<1>1. ASSUME NEW t \in Threads, NextDivisor(t) \/ AllMarked(t)
      PROVE  TypeInv'
  <2>1. j[t] + 1 \in Nat
    BY <1>t
  <2>2. QED BY <1>t, <1>1, <2>1 DEF NextDivisor, AllMarked
<1>2. ASSUME NEW t \in Threads, Divisor(t) PROVE TypeInv'
  <2>1. FirstMultiple(j[t], from[t]) \in Nat
    <3>1. j[t] \in Nat /\ from[t] \in Nat /\ j[t] >= 2
      BY <1>t, <1>w, <1>2 DEF Divisor, WorkInv, Running
    <3>2. QED BY <3>1, FirstMultipleIsFirst
  <2>2. QED BY <1>t, <1>2, <2>1 DEF Divisor
<1>3. ASSUME NEW t \in Threads, Load(t) PROVE TypeInv'
  <2>1. i[t] \in Nat /\ i[t] <= to[t] /\ to[t] \in Nat /\ to[t] <= Limit
    BY <1>t, <1>w, <1>3 DEF Load, WorkInv, Running
  <2>2. ByteOf(i[t]) \in 0 .. LastByte
    <3>1. i[t] <= Limit
      BY <1>c, <2>1
    <3>2. QED BY <2>1, <3>1, ByteInArray
  <2>3. data[ByteOf(i[t])] \in SUBSET Nat
    BY <1>t, <2>2
  <2>4. QED BY <1>t, <1>3, <2>3 DEF Load
<1>4. ASSUME NEW t \in Threads, Store(t) PROVE TypeInv'
  <2>1. i[t] \in Nat /\ i[t] <= to[t] /\ to[t] \in Nat /\ to[t] <= Limit
    BY <1>t, <1>w, <1>4 DEF Store, WorkInv, Running
  <2>2. ByteOf(i[t]) \in 0 .. LastByte
    <3>1. i[t] <= Limit
      BY <1>c, <2>1
    <3>2. QED BY <2>1, <3>1, ByteInArray
  <2>3. byte[t] \cup {i[t]} \in SUBSET Nat
    BY <1>t, <2>1
  <2>4. data' \in [0 .. LastByte -> SUBSET Nat]
    <3> DEFINE new == byte[t] \cup {i[t]}
    <3>1. data' = [data EXCEPT ![ByteOf(i[t])] = new]
      BY <1>4 DEF Store
    <3> HIDE DEF new
    <3>2. QED BY <1>t, <2>2, <2>3, <3>1 DEF new
  <2>5. i[t] + j[t] \in Nat
    BY <1>t
  <2>6. QED BY <1>t, <1>4, <2>4, <2>5 DEF Store
<1>5. ASSUME NEW t \in Threads, Return(t) PROVE TypeInv'
  BY <1>t, <1>5 DEF Return
<1>6. CASE StartThread \/ StartLastThread
  <2>1. PICK left \in Nat, right \in Nat :
           /\ started + 1 \in Threads
           /\ Start(started + 1, left, right)
           /\ StartThread => left_bound' = right
           /\ UNCHANGED <<data, i, byte, joined, printed>>
    BY <1>6, StartStep
  <2>2. started' \in 0 .. ThreadsCount
    BY <1>c, <1>t, <2>1 DEF Start, Threads
  <2>3. left_bound' \in Nat /\ main' \in {"start", "join", "print", "done"}
    BY <1>t, <1>6, <2>1 DEF StartThread, StartLastThread
  <2>4. QED BY <1>t, <2>1, <2>2, <2>3 DEF Start
<1>7. CASE JoinThread
  <2>1. joined' \in 0 .. ThreadsCount
    BY <1>c, <1>t, <1>7 DEF JoinThread
  <2>2. QED BY <1>t, <1>7, <2>1 DEF JoinThread
<1>8. CASE AllJoined \/ PrintPrimes
  BY <1>t, <1>8 DEF AllJoined, PrintPrimes
<1>9. CASE UNCHANGED vars
  BY <1>t, <1>9 DEF vars
<1>10. QED
  BY <1>1, <1>2, <1>3, <1>4, <1>5, <1>6, <1>7, <1>8, <1>9
  DEF Next, Main, Thread, Terminating

LEMMA WorkNext == SafeInv /\ [Next]_vars => WorkInv'
<1> SUFFICES ASSUME SafeInv, [Next]_vars, NEW u \in Threads
             PROVE  /\ u <= started' <=> Running(u)'
                    /\ Running(u)' => j'[u] >= 2 /\ to'[u] <= Limit
                    /\ pc'[u] \in {"load", "store"} =>
                         \E b \in Nat : /\ b >= 2
                                        /\ i'[u] = j'[u] * b
                                        /\ i'[u] >= from'[u]
                    /\ pc'[u] = "store" => i'[u] <= to'[u]
                    /\ pc'[u] = "returned" => j'[u] * j'[u] > to'[u]
  BY ConstantTypes DEF WorkInv, Running
<1> DEFINE Goal == /\ u <= started' <=> Running(u)'
                   /\ Running(u)' => j'[u] >= 2 /\ to'[u] <= Limit
                   /\ pc'[u] \in {"load", "store"} =>
                        \E b \in Nat : /\ b >= 2
                                       /\ i'[u] = j'[u] * b
                                       /\ i'[u] >= from'[u]
                   /\ pc'[u] = "store" => i'[u] <= to'[u]
                   /\ pc'[u] = "returned" => j'[u] * j'[u] > to'[u]
<1> USE DEF GoTo
<1>t. /\ pc \in [Threads -> {"none", "test", "load", "store", "returned"}]
      /\ from \in [Threads -> Nat]
      /\ to \in [Threads -> Nat]
      /\ j \in [Threads -> Nat]
      /\ i \in [Threads -> Nat]
      /\ started \in Nat
      /\ u \in Nat
  BY DEF SafeInv, TypeInv, Threads
<1>w. /\ u <= started <=> Running(u)
      /\ Running(u) => j[u] >= 2 /\ to[u] <= Limit
      /\ pc[u] \in {"load", "store"} =>
           \E b \in Nat : b >= 2 /\ i[u] = j[u] * b /\ i[u] >= from[u]
      /\ pc[u] = "store" => i[u] <= to[u]
      /\ pc[u] = "returned" => j[u] * j[u] > to[u]
  BY DEF SafeInv, WorkInv
<1>o. ASSUME pc'[u] = pc[u], from'[u] = from[u], to'[u] = to[u],
             j'[u] = j[u], i'[u] = i[u], u <= started' <=> u <= started
      PROVE  Goal
  BY <1>w, <1>o DEF Running
<1>1. ASSUME NEW t \in Threads, Thread(t), t # u PROVE Goal
  BY <1>t, <1>1, <1>o DEF Thread, NextDivisor, Divisor, Load, Store, AllMarked,
                          Return, locals, mainVars
<1>2. CASE NextDivisor(u)
  <2>1. /\ pc[u] = "test" /\ pc'[u] = "test" /\ j'[u] = j[u] + 1
        /\ to'[u] = to[u] /\ started' = started
    BY <1>t, <1>2 DEF NextDivisor, mainVars
  <2>2. QED BY <1>t, <1>w, <2>1 DEF Running
<1>3. CASE Divisor(u)
  <2>1. /\ pc[u] = "test" /\ pc'[u] = "load" /\ j'[u] = j[u]
        /\ to'[u] = to[u] /\ from'[u] = from[u] /\ started' = started
        /\ i'[u] = FirstMultiple(j[u], from[u])
    BY <1>t, <1>3 DEF Divisor, mainVars
  <2>2. j[u] >= 2 /\ j[u] \in Nat /\ from[u] \in Nat
    BY <1>t, <1>w, <2>1 DEF Running
  <2>3. /\ \E b \in Nat : b >= 2 /\ i'[u] = j'[u] * b
        /\ i'[u] >= from'[u]
    <3>1. /\ FirstMultiple(j[u], from[u]) \in Nat
          /\ \E b \in Nat : b >= 2 /\ FirstMultiple(j[u], from[u]) = j[u] * b
          /\ from[u] <= FirstMultiple(j[u], from[u])
      BY <2>2, FirstMultipleIsFirst, Zenon
    <3>2. QED BY <2>1, <2>2, <3>1
  <2>4. QED BY <1>t, <1>w, <2>1, <2>2, <2>3 DEF Running
<1>4. CASE Load(u)
  <2>1. /\ pc[u] = "load" /\ pc'[u] = "store" /\ i[u] <= to[u]
        /\ j'[u] = j[u] /\ i'[u] = i[u] /\ to'[u] = to[u] /\ from'[u] = from[u]
        /\ started' = started
    BY <1>t, <1>4 DEF Load, mainVars
  <2>2. QED BY <1>w, <2>1 DEF Running
<1>5. CASE Store(u)
  <2>1. /\ pc[u] = "store" /\ pc'[u] = "load" /\ i'[u] = i[u] + j[u]
        /\ j'[u] = j[u] /\ to'[u] = to[u] /\ from'[u] = from[u]
        /\ started' = started
    BY <1>t, <1>5 DEF Store, mainVars
  <2>2. PICK b \in Nat : b >= 2 /\ i[u] = j[u] * b /\ i[u] >= from[u]
    BY <1>w, <2>1
  <2>3. i'[u] = j'[u] * (b + 1) /\ i'[u] >= from'[u]
    <3>1. j[u] \in Nat /\ i[u] \in Nat /\ from[u] \in Nat
      BY <1>t
    <3>2. j[u] * (b + 1) = j[u] * b + j[u]
      BY <3>1, OneMore
    <3>3. QED BY <2>1, <2>2, <3>1, <3>2
  <2>4. \E c \in Nat : c >= 2 /\ i'[u] = j'[u] * c /\ i'[u] >= from'[u]
    <3>1. b + 1 \in Nat /\ b + 1 >= 2
      BY <2>2
    <3>2. QED BY <2>3, <3>1
  <2>5. QED BY <1>w, <2>1, <2>4 DEF Running
<1>6. CASE AllMarked(u)
  <2>1. /\ pc[u] = "load" /\ pc'[u] = "test" /\ j'[u] = j[u] + 1
        /\ to'[u] = to[u] /\ started' = started
    BY <1>t, <1>6 DEF AllMarked, mainVars
  <2>2. QED BY <1>t, <1>w, <2>1 DEF Running
<1>7. CASE Return(u)
  <2>1. /\ pc[u] = "test" /\ pc'[u] = "returned" /\ j[u] * j[u] > to[u]
        /\ j'[u] = j[u] /\ to'[u] = to[u] /\ started' = started
    BY <1>t, <1>7 DEF Return, locals, mainVars
  <2>2. QED BY <1>w, <2>1 DEF Running
<1>8. CASE StartThread \/ StartLastThread
  <2>1. PICK left \in Nat, right \in Nat :
           /\ right <= Limit
           /\ started + 1 \in Threads
           /\ Start(started + 1, left, right)
           /\ i' = i
    BY <1>8, StartStep
  <2>2. CASE u = started + 1
    <3>1. pc'[u] = "test" /\ j'[u] = 2 /\ to'[u] = right /\ started' = u
      BY <1>t, <2>1, <2>2 DEF Start
    <3>2. QED BY <1>t, <2>1, <3>1 DEF Running
  <2>3. CASE u # started + 1
    <3>1. /\ pc'[u] = pc[u] /\ from'[u] = from[u] /\ to'[u] = to[u]
          /\ j'[u] = j[u] /\ i'[u] = i[u] /\ started' = started + 1
      BY <1>t, <2>1, <2>3 DEF Start
    <3>2. QED BY <1>t, <1>o, <2>3, <3>1
  <2>4. QED BY <2>2, <2>3
<1>9. CASE JoinThread \/ AllJoined \/ PrintPrimes \/ UNCHANGED vars
  BY <1>9, <1>o DEF JoinThread, AllJoined, PrintPrimes, locals, vars, mainVars
<1>10. QED
  BY <1>1, <1>2, <1>3, <1>4, <1>5, <1>6, <1>7, <1>8, <1>9
  DEF Next, Main, Thread, Terminating

LEMMA BytesNext == SafeInv /\ [Next]_vars => BytesInv'
<1> SUFFICES ASSUME SafeInv, [Next]_vars PROVE BytesInv'
  OBVIOUS
<1>t. TypeInv /\ WorkInv
  BY DEF SafeInv
<1>b. /\ \A b \in 0 .. LastByte : \A n \in data[b] : MayBeMarked(n)
      /\ \A t \in Threads : \A n \in byte[t] : MayBeMarked(n)
  BY DEF SafeInv, BytesInv
<1>o. ASSUME \A b \in 0 .. LastByte : \A n \in data'[b] : MayBeMarked(n),
             \A t \in Threads : \A n \in byte'[t] : MayBeMarked(n)
      PROVE  BytesInv'
  BY <1>o, ConstantTypes DEF BytesInv, MayBeMarked, LastByte
<1>1. ASSUME NEW t \in Threads, Load(t) PROVE BytesInv'
  <2>1. i[t] \in Nat /\ i[t] <= Limit
    <3>1. i[t] \in Nat /\ i[t] <= to[t] /\ to[t] \in Nat /\ to[t] <= Limit
      BY <1>t, <1>1 DEF TypeInv, Load, WorkInv, Running
    <3>2. QED BY <3>1, ConstantTypes
  <2>2. ByteOf(i[t]) \in 0 .. LastByte
    BY <2>1, ByteInArray
  <2>3. byte' = [byte EXCEPT ![t] = data[ByteOf(i[t])]] /\ data' = data
    BY <1>1 DEF Load
  <2>4. ASSUME NEW u \in Threads, NEW n \in byte'[u] PROVE MayBeMarked(n)
    BY <1>b, <1>t, <2>2, <2>3 DEF TypeInv
  <2>5. QED BY <1>b, <1>o, <2>3, <2>4
<1>2. ASSUME NEW t \in Threads, Store(t) PROVE BytesInv'
  <2>1. i[t] \in Nat /\ j[t] \in Nat /\ j[t] >= 2
    BY <1>t, <1>2 DEF TypeInv, Store, WorkInv, Running
  <2>2. MayBeMarked(i[t])
    <3>1. PICK b \in Nat : b >= 2 /\ i[t] = j[t] * b
      BY <1>t, <1>2 DEF Store, WorkInv
    <3>2. QED BY <2>1, <3>1, ProductIsComposite DEF MayBeMarked
  <2>3. /\ data' = [data EXCEPT ![ByteOf(i[t])] = byte[t] \cup {i[t]}]
        /\ byte' = [byte EXCEPT ![t] = {}]
    BY <1>2 DEF Store
  <2>4. ASSUME NEW b \in 0 .. LastByte, NEW n \in data'[b]
        PROVE  MayBeMarked(n)
    <3>1. n \in data[b] \/ n \in byte[t] \/ n = i[t]
      BY <1>t, <2>3 DEF TypeInv
    <3>2. QED BY <1>b, <2>2, <3>1
  <2>5. ASSUME NEW u \in Threads, NEW n \in byte'[u] PROVE MayBeMarked(n)
    BY <1>b, <1>t, <2>3 DEF TypeInv
  <2>6. QED BY <1>o, <2>4, <2>5
<1>3. CASE UNCHANGED <<data, byte>>
  BY <1>b, <1>o, <1>3
<1>4. ASSUME NEW t \in Threads,
             NextDivisor(t) \/ Divisor(t) \/ AllMarked(t) \/ Return(t)
      PROVE  BytesInv'
  BY <1>3, <1>4 DEF NextDivisor, Divisor, AllMarked, Return, locals
<1>5. CASE Main \/ UNCHANGED vars
  BY <1>3, <1>5 DEF Main, StartThread, StartLastThread, JoinThread, AllJoined,
                    PrintPrimes, locals, vars
<1>6. QED
  BY <1>1, <1>2, <1>4, <1>5 DEF Next, Thread, Terminating

LEMMA SafeNext == SafeInv /\ [Next]_vars => SafeInv'
BY TypeNext, BytesNext, WorkNext DEF SafeInv

LEMMA SafeNoPrimeMarked ==
  ASSUME SafeInv, NEW n \in Nat, n >= 2, n <= Limit, IsMarked(n)
  PROVE  IsComposite(n)
<1>1. ByteOf(n) \in 0 .. LastByte
  BY ByteInArray
<1>2. MayBeMarked(n)
  BY <1>1 DEF SafeInv, BytesInv, IsMarked
<1>3. QED BY <1>2 DEF MayBeMarked

\* A bit that is set is that of a composite number, and so is one in a byte
\* that a thread holds to store it: no lost or late store marks a prime
\* (multith.cpp:53-62, bit_array.cpp:35).
THEOREM PrimesStayUnmarked == Spec => []NoPrimeMarked
<1>1. SafeInv => NoPrimeMarked
  <2> SUFFICES ASSUME SafeInv, NEW n \in 2 .. Limit, IsMarked(n)
               PROVE  IsComposite(n)
    BY DEF NoPrimeMarked
  <2>1. n \in Nat /\ n >= 2 /\ n <= Limit
    BY ConstantTypes
  <2>2. QED BY <2>1, SafeNoPrimeMarked
<1>2. QED BY <1>1, InitSafe, SafeNext, PTL DEF Spec

-----------------------------------------------------------------------------
(***************************************************************************)
(* Marks outside the shared bytes                                          *)
(***************************************************************************)

LEMMA RangesStay ==
  ASSUME SafeInv, [Next]_vars, NEW u \in Threads, Running(u)
  PROVE  Running(u)' /\ from'[u] = from[u] /\ to'[u] = to[u]
<1> USE DEF GoTo
<1>t. /\ pc \in [Threads -> {"none", "test", "load", "store", "returned"}]
      /\ from \in [Threads -> Nat]
      /\ to \in [Threads -> Nat]
  BY DEF SafeInv, TypeInv
<1>1. ASSUME NEW t \in Threads, Thread(t)
      PROVE  Running(u)' /\ from'[u] = from[u] /\ to'[u] = to[u]
  <2>1. pc'[t] \in {"test", "load", "store", "returned"}
    BY <1>t, <1>1
    DEF Thread, NextDivisor, Divisor, Load, Store, AllMarked, Return
  <2>2. t # u => pc'[u] = pc[u]
    BY <1>t, <1>1
    DEF Thread, NextDivisor, Divisor, Load, Store, AllMarked, Return
  <2>3. from'[u] = from[u] /\ to'[u] = to[u]
    BY <1>t, <1>1 DEF Thread, NextDivisor, Divisor, Load, Store, AllMarked,
                      Return, locals
  <2>4. QED BY <2>1, <2>2, <2>3 DEF Running
<1>2. CASE StartThread \/ StartLastThread
  <2>1. PICK left \in Nat, right \in Nat :
           /\ started + 1 \in Threads
           /\ pc[started + 1] = "none"
           /\ Start(started + 1, left, right)
    BY <1>2, StartStep
  <2>2. u # started + 1
    BY <2>1 DEF Running
  <2>3. QED BY <1>t, <2>1, <2>2 DEF Start, Running
<1>3. CASE JoinThread \/ AllJoined \/ PrintPrimes \/ UNCHANGED vars
  BY <1>3 DEF JoinThread, AllJoined, PrintPrimes, locals, vars, Running
<1>4. QED BY <1>1, <1>2, <1>3 DEF Next, Main, Terminating

LEMMA SharedStays ==
  ASSUME SafeInv, [Next]_vars, NEW b, Shared(b)
  PROVE  Shared(b)'
<1>1. PICK t \in Threads, u \in Threads :
         /\ t # u /\ Running(t) /\ Running(u)
         /\ b \in ByteOf(from[t]) .. ByteOf(to[t])
         /\ b \in ByteOf(from[u]) .. ByteOf(to[u])
  BY DEF Shared
<1>2. /\ Running(t)' /\ from'[t] = from[t] /\ to'[t] = to[t]
      /\ Running(u)' /\ from'[u] = from[u] /\ to'[u] = to[u]
  BY <1>1, RangesStay
<1>3. QED BY <1>1, <1>2 DEF Shared, ByteOf

\* What a thread is about to store is in its range.
LEMMA StoreInRange ==
  ASSUME SafeInv, NEW t \in Threads, pc[t] = "store"
  PROVE  /\ Running(t) /\ i[t] \in Nat /\ i[t] <= Limit
         /\ ByteOf(i[t]) \in ByteOf(from[t]) .. ByteOf(to[t])
<1>1. /\ i[t] \in Nat /\ from[t] \in Nat /\ to[t] \in Nat
      /\ from[t] <= i[t] /\ i[t] <= to[t] /\ to[t] <= Limit /\ Running(t)
  BY DEF SafeInv, TypeInv, WorkInv, Running
<1>2. /\ ByteOf(i[t]) \in Nat /\ ByteOf(from[t]) \in Nat /\ ByteOf(to[t]) \in Nat
      /\ ByteOf(from[t]) <= ByteOf(i[t]) /\ ByteOf(i[t]) <= ByteOf(to[t])
  BY <1>1, ByteBounds, ByteOrder
<1>3. QED BY <1>1, <1>2, ConstantTypes

\* Two threads that store into the same byte share it.
LEMMA StoresShare ==
  ASSUME SafeInv, NEW t \in Threads, NEW u \in Threads, t # u,
         pc[t] = "store", pc[u] = "store", ByteOf(i[t]) = ByteOf(i[u])
  PROVE  Shared(ByteOf(i[u]))
BY StoreInRange DEF Shared

LEMMA ByteKept ==
  ASSUME SafeInv, MarksInv, [Next]_vars, NEW u \in Threads, pc'[u] = "store",
         ~Shared(ByteOf(i[u]))'
  PROVE  byte'[u] = data'[ByteOf(i'[u])]
<1> USE DEF GoTo
<1>t. /\ data \in [0 .. LastByte -> SUBSET Nat]
      /\ pc \in [Threads -> {"none", "test", "load", "store", "returned"}]
      /\ i \in [Threads -> Nat]
      /\ byte \in [Threads -> SUBSET Nat]
  BY DEF SafeInv, TypeInv
<1>o. ASSUME pc[u] = "store", i'[u] = i[u], byte'[u] = byte[u],
             data' = data
      PROVE  byte'[u] = data'[ByteOf(i'[u])]
  <2>1. PICK x : x = ByteOf(i[u])
    OBVIOUS
  <2>2. ~Shared(x)'
    BY <1>o, <2>1 DEF Shared
  <2>3. ~Shared(x)
    BY <2>2, SharedStays
  <2>4. byte[u] = data[ByteOf(i[u])]
    BY <1>o, <2>1, <2>3 DEF MarksInv
  <2>5. QED BY <1>o, <2>4
<1>1. CASE Load(u)
  BY <1>t, <1>1 DEF Load
<1>2. ASSUME NEW t \in Threads, Store(t)
      PROVE  byte'[u] = data'[ByteOf(i'[u])]
  <2>1. t # u
    BY <1>t, <1>2 DEF Store
  <2>2. pc[u] = "store" /\ i'[u] = i[u] /\ byte'[u] = byte[u]
    BY <1>t, <1>2, <2>1 DEF Store
  <2>3. PICK x : x = ByteOf(i[u])
    OBVIOUS
  <2>4. ~Shared(x)'
    BY <2>2, <2>3 DEF Shared
  <2>5. ~Shared(x)
    BY <2>4, SharedStays
  <2>6. byte[u] = data[ByteOf(i[u])]
    BY <2>2, <2>3, <2>5 DEF MarksInv
  <2>7. ByteOf(i[t]) # x
    BY <1>2, <2>1, <2>2, <2>3, <2>5, StoresShare DEF Store
  <2>8. x \in 0 .. LastByte
    BY <2>2, <2>3, StoreInRange, ByteInArray
  <2>9. data'[x] = data[x]
    BY <1>t, <1>2, <2>7, <2>8 DEF Store
  <2>10. QED BY <2>2, <2>3, <2>6, <2>9
<1>3. ASSUME NEW t \in Threads, t # u,
             NextDivisor(t) \/ Divisor(t) \/ Load(t) \/ AllMarked(t)
             \/ Return(t)
      PROVE  byte'[u] = data'[ByteOf(i'[u])]
  BY <1>t, <1>3, <1>o
  DEF NextDivisor, Divisor, Load, AllMarked, Return, locals
<1>4. CASE NextDivisor(u) \/ Divisor(u) \/ AllMarked(u) \/ Return(u)
  BY <1>t, <1>4 DEF NextDivisor, Divisor, AllMarked, Return
<1>5. CASE StartThread \/ StartLastThread
  <2>1. PICK left \in Nat, right \in Nat :
           /\ started + 1 \in Threads
           /\ Start(started + 1, left, right)
           /\ UNCHANGED <<data, i, byte, joined, printed>>
    BY <1>5, StartStep
  <2>2. pc[u] = "store"
    BY <1>t, <2>1 DEF Start
  <2>3. QED BY <1>o, <2>1, <2>2
<1>6. CASE JoinThread \/ AllJoined \/ PrintPrimes \/ UNCHANGED vars
  BY <1>6, <1>o DEF JoinThread, AllJoined, PrintPrimes, locals, vars
<1>7. QED
  BY <1>1, <1>2, <1>3, <1>4, <1>5, <1>6
  DEF Next, Main, Thread, Terminating

\* A mark in a byte of one thread is not overwritten.
LEMMA MarkStays ==
  ASSUME SafeInv, MarksInv, [Next]_vars, NEW n \in 0 .. Limit, IsMarked(n),
         ~Shared(ByteOf(n))'
  PROVE  IsMarked(n)'
<1>t. data \in [0 .. LastByte -> SUBSET Nat]
  BY DEF SafeInv, TypeInv
<1>b. ByteOf(n) \in 0 .. LastByte /\ ~Shared(ByteOf(n))
  BY ConstantTypes, ByteInArray, SharedStays DEF ByteOf
<1>1. ASSUME NEW t \in Threads, Store(t) PROVE IsMarked(n)'
  <2>1. data' = [data EXCEPT ![ByteOf(i[t])] = byte[t] \cup {i[t]}]
    BY <1>1 DEF Store
  <2>2. CASE ByteOf(i[t]) = ByteOf(n)
    <3>1. byte[t] = data[ByteOf(n)]
      BY <1>1, <1>b, <2>2 DEF MarksInv, Store
    <3>2. QED BY <1>t, <1>b, <2>1, <2>2, <3>1 DEF IsMarked
  <2>3. CASE ByteOf(i[t]) # ByteOf(n)
    BY <1>t, <1>b, <2>1, <2>3 DEF IsMarked
  <2>4. QED BY <2>2, <2>3
<1>2. ASSUME NEW t \in Threads, NextDivisor(t) \/ Divisor(t) \/ Load(t)
                                \/ AllMarked(t) \/ Return(t)
      PROVE  IsMarked(n)'
  BY <1>2 DEF NextDivisor, Divisor, Load, AllMarked, Return, IsMarked
<1>3. CASE Main \/ UNCHANGED vars
  BY <1>3 DEF Main, StartThread, StartLastThread, JoinThread, AllJoined,
              PrintPrimes, vars, IsMarked
<1>4. QED BY <1>1, <1>2, <1>3 DEF Next, Thread, Terminating

\* Only a store takes a thread past a number: a prime divisor is never passed
\* over, and the walk begins at or before every multiple that counts.
LEMMA PassedByStore ==
  ASSUME SafeInv, [Next]_vars, NEW u \in Threads,
         NEW n \in 0 .. Limit, NEW p \in 2 .. Limit,
         InRange(u, n)', PrimeDivisor(p, n), Passed(u, p, n)',
         ~(InRange(u, n) /\ Passed(u, p, n))
  PROVE  Store(u) /\ i[u] = n
<1> USE DEF GoTo
<1>c. n \in Nat /\ p \in Nat /\ p >= 2 /\ p <= Limit /\ Limit \in Nat
  BY ConstantTypes
<1>t. /\ pc \in [Threads -> {"none", "test", "load", "store", "returned"}]
      /\ from \in [Threads -> Nat]
      /\ to \in [Threads -> Nat]
      /\ j \in [Threads -> Nat]
      /\ i \in [Threads -> Nat]
  BY DEF SafeInv, TypeInv
<1>p. /\ ~IsComposite(p)
      /\ p * p <= n
      /\ \E c \in Nat : n = p * c
  BY DEF PrimeDivisor
<1>r. Running(u) => InRange(u, n)
  BY RangesStay DEF InRange
<1>o. ASSUME Running(u), Passed(u, p, n) PROVE FALSE
  BY <1>o, <1>r
<1>1. ASSUME NEW t \in Threads, Thread(t), t # u PROVE FALSE
  <2>1. pc'[u] = pc[u] /\ j'[u] = j[u] /\ i'[u] = i[u]
    BY <1>t, <1>1 DEF Thread, NextDivisor, Divisor, Load, Store, AllMarked,
                      Return, locals
  <2>2. Running(u) /\ Passed(u, p, n)
    BY <2>1 DEF InRange, Running, Passed
  <2>3. QED BY <1>o, <2>2
<1>2. CASE NextDivisor(u)
  <2>1. pc[u] = "test" /\ pc'[u] = "test" /\ j'[u] = j[u] + 1 /\ IsMarked(j[u])
    BY <1>t, <1>2 DEF NextDivisor
  <2>2. j[u] + 1 > p /\ ~(j[u] > p)
    BY <1>o, <2>1 DEF Passed, Running
  <2>3. j[u] = p
    BY <1>c, <1>t, <2>2
  <2>4. IsComposite(p)
    BY <1>c, <2>1, <2>3, SafeNoPrimeMarked
  <2>5. QED BY <1>p, <2>4
<1>3. CASE Divisor(u)
  <2>1. /\ pc[u] = "test" /\ pc'[u] = "load" /\ j'[u] = j[u]
        /\ i'[u] = FirstMultiple(j[u], from[u])
    BY <1>t, <1>3 DEF Divisor
  <2>2. j[u] = p /\ i'[u] > n
    BY <1>o, <2>1 DEF Passed, Running
  <2>3. from[u] \in Nat /\ from[u] <= n
    BY <1>t, <1>r, <2>1 DEF InRange, Running
  <2>4. PICK c \in Nat : n = p * c
    BY <1>p
  <2>5. /\ FirstMultiple(p, from[u]) \in Nat
        /\ \A d \in Nat : from[u] <= p * d /\ p * p <= p * d
                            => FirstMultiple(p, from[u]) <= p * d
    BY <1>c, <2>3, FirstMultipleIsFirst, Zenon
  <2>6. FirstMultiple(p, from[u]) <= n
    BY <1>p, <2>3, <2>4, <2>5
  <2>7. QED BY <1>c, <2>1, <2>2, <2>5, <2>6
<1>4. CASE Load(u)
  <2>1. pc[u] = "load" /\ j'[u] = j[u] /\ i'[u] = i[u]
    BY <1>t, <1>4 DEF Load
  <2>2. QED BY <1>o, <2>1 DEF Passed, Running
<1>5. CASE Store(u)
  <2>1. /\ pc[u] = "store" /\ pc'[u] = "load" /\ j'[u] = j[u]
        /\ i'[u] = i[u] + j[u]
    BY <1>t, <1>5 DEF Store
  <2>2. j[u] = p /\ i[u] + p > n /\ ~(i[u] > n)
    BY <1>o, <2>1 DEF Passed, Running
  <2>3. PICK b \in Nat : i[u] = p * b
    BY <2>1, <2>2 DEF SafeInv, WorkInv
  <2>4. PICK c \in Nat : n = p * c
    BY <1>p
  <2>5. i[u] \in Nat
    BY <1>t
  <2>6. CASE i[u] < n
    <3>1. p * b + p <= p * c
      BY <1>c, <2>3, <2>4, <2>6, NextMultiple
    <3>2. QED BY <1>c, <2>2, <2>3, <2>4, <2>5, <3>1
  <2>7. QED BY <1>5, <1>c, <2>2, <2>5, <2>6
<1>6. CASE AllMarked(u)
  <2>1. pc[u] = "load" /\ pc'[u] = "test" /\ j'[u] = j[u] + 1 /\ i[u] > to[u]
    BY <1>t, <1>6 DEF AllMarked
  <2>2. j[u] + 1 > p /\ ~(j[u] > p)
    BY <1>o, <2>1 DEF Passed, Running
  <2>3. j[u] = p
    BY <1>c, <1>t, <2>2
  <2>4. n <= to[u]
    BY <1>r, <2>1 DEF InRange, Running
  <2>5. i[u] > n
    BY <1>c, <1>t, <2>1, <2>4
  <2>6. QED BY <1>o, <2>1, <2>3, <2>5 DEF Passed, Running
<1>7. CASE Return(u)
  <2>1. pc[u] = "test" /\ pc'[u] = "returned" /\ j'[u] = j[u]
    BY <1>t, <1>7 DEF Return, locals
  <2>2. QED BY <1>o, <2>1 DEF Passed, Running
<1>8. CASE StartThread \/ StartLastThread
  <2>1. PICK left \in Nat, right \in Nat :
           /\ started + 1 \in Threads
           /\ Start(started + 1, left, right)
           /\ i' = i
    BY <1>8, StartStep
  <2>2. CASE u = started + 1
    <3>1. pc'[u] = "test" /\ j'[u] = 2
      BY <1>t, <2>1, <2>2 DEF Start
    <3>2. QED BY <1>c, <3>1 DEF Passed
  <2>3. CASE u # started + 1
    <3>1. pc'[u] = pc[u] /\ j'[u] = j[u] /\ i'[u] = i[u]
      BY <1>t, <2>1, <2>3 DEF Start
    <3>2. Running(u) /\ Passed(u, p, n)
      BY <3>1 DEF InRange, Running, Passed
    <3>3. QED BY <1>o, <3>2
  <2>4. QED BY <2>2, <2>3
<1>9. CASE JoinThread \/ AllJoined \/ PrintPrimes \/ UNCHANGED vars
  <2>1. pc' = pc /\ j' = j /\ i' = i
    BY <1>9 DEF JoinThread, AllJoined, PrintPrimes, locals, vars
  <2>2. Running(u) /\ Passed(u, p, n)
    BY <2>1 DEF InRange, Running, Passed
  <2>3. QED BY <1>o, <2>2
<1>10. QED
  BY <1>1, <1>2, <1>3, <1>4, <1>5, <1>6, <1>7, <1>8, <1>9
  DEF Next, Main, Thread, Terminating

LEMMA MarksNext == SafeInv /\ MarksInv /\ [Next]_vars => MarksInv'
<1> SUFFICES ASSUME SafeInv, MarksInv, [Next]_vars PROVE MarksInv'
  OBVIOUS
<1>1. ASSUME NEW u \in Threads, NEW n \in 0 .. Limit, NEW p \in 2 .. Limit,
             InRange(u, n)', PrimeDivisor(p, n), Passed(u, p, n)',
             ~Shared(ByteOf(n))'
      PROVE  IsMarked(n)'
  <2>1. CASE InRange(u, n) /\ Passed(u, p, n)
    <3>1. PICK x : x = ByteOf(n)
      OBVIOUS
    <3>2. ~Shared(x)'
      BY <1>1, <3>1 DEF Shared
    <3>3. ~Shared(x)
      BY <3>2, SharedStays
    <3>4. IsMarked(n)
      BY <1>1, <2>1, <3>1, <3>3 DEF MarksInv
    <3>5. QED BY <1>1, <3>4, MarkStays
  <2>2. CASE ~(InRange(u, n) /\ Passed(u, p, n))
    <3>1. Store(u) /\ i[u] = n
      BY <1>1, <2>2, PassedByStore
    <3>2. ByteOf(n) \in 0 .. LastByte
      BY ConstantTypes, ByteInArray
    <3>3. data' = [data EXCEPT ![ByteOf(n)] = byte[u] \cup {n}]
      BY <3>1 DEF Store
    <3>4. data \in [0 .. LastByte -> SUBSET Nat]
      BY DEF SafeInv, TypeInv
    <3>5. QED BY <3>2, <3>3, <3>4 DEF IsMarked
  <2>3. QED BY <2>1, <2>2
<1>2. ASSUME NEW n \in 0 .. Limit, NEW p \in 2 .. Limit
      PROVE  PrimeDivisor(p, n)' = PrimeDivisor(p, n)
  BY DEF PrimeDivisor, IsComposite, ProperlyDivides
<1>3. QED BY <1>1, <1>2, ByteKept DEF MarksInv

-----------------------------------------------------------------------------
(***************************************************************************)
(* The ranges, and what main prints                                        *)
(***************************************************************************)

LEMMA CoverNext == SafeInv /\ CoverInv /\ [Next]_vars => CoverInv'
<1> SUFFICES ASSUME SafeInv, CoverInv, [Next]_vars, NEW n \in 4 .. Limit,
                    main' # "start" \/ n <= left_bound'
             PROVE  \E t \in Threads : InRange(t, n)'
  BY DEF CoverInv, InRange
<1>c. n \in Nat /\ n <= Limit /\ left_bound \in Nat
  BY ConstantTypes DEF SafeInv, TypeInv
<1>1. CASE main # "start" \/ n <= left_bound
  <2>1. PICK t \in Threads : InRange(t, n)
    BY <1>1 DEF CoverInv
  <2>2. QED BY <2>1, RangesStay DEF InRange
<1>2. CASE main = "start" /\ n > left_bound
  <2>1. ASSUME NEW t \in Threads, Thread(t) PROVE FALSE
    BY <1>c, <1>2, <2>1 DEF Thread, NextDivisor, Divisor, Load, Store,
                            AllMarked, Return, mainVars
  <2>2. CASE StartThread \/ StartLastThread
    <3>1. PICK left \in Nat, right \in Nat :
             /\ started + 1 \in Threads
             /\ Start(started + 1, left, right)
             /\ left <= left_bound
             /\ StartThread => left_bound' = right
             /\ StartLastThread => right = Limit
      BY <2>2, StartStep
    <3>2. PICK t \in Threads : t = started + 1
      BY <3>1
    <3>3. pc'[t] = "test" /\ from'[t] = left /\ to'[t] = right
      BY <3>1, <3>2 DEF Start, GoTo, SafeInv, TypeInv
    <3>4. n <= right
      BY <1>c, <1>2, <2>2, <3>1 DEF StartThread
    <3>5. InRange(t, n)'
      BY <1>c, <1>2, <3>1, <3>3, <3>4 DEF InRange, Running
    <3>6. QED BY <3>5
  <2>3. CASE JoinThread \/ AllJoined \/ PrintPrimes \/ UNCHANGED vars
    BY <1>c, <1>2, <2>3 DEF JoinThread, AllJoined, PrintPrimes, vars, mainVars
  <2>4. QED BY <2>1, <2>2, <2>3 DEF Next, Main, Terminating
<1>3. QED BY <1>c, <1>1, <1>2

LEMMA MainNext == SafeInv /\ MainInv /\ [Next]_vars => MainInv'
<1> SUFFICES ASSUME SafeInv, MainInv, [Next]_vars PROVE MainInv'
  OBVIOUS
<1> USE DEF GoTo, MainInv, IsMarked
<1>c. ThreadsCount \in Nat /\ ThreadsCount >= 1
  BY ConstantTypes
<1>t. /\ pc \in [Threads -> {"none", "test", "load", "store", "returned"}]
      /\ started \in 0 .. ThreadsCount /\ joined \in 0 .. ThreadsCount
      /\ main \in {"start", "join", "print", "done"}
  BY DEF SafeInv, TypeInv
<1>1. ASSUME NEW t \in Threads, Thread(t) PROVE MainInv'
  <2>1. pc[t] # "returned" /\ UNCHANGED mainVars
        /\ \A u \in Threads \ {t} : pc'[u] = pc[u]
    BY <1>t, <1>1 DEF Thread, NextDivisor, Divisor, Load, Store, AllMarked,
                      Return
  <2>2. ~(t > ThreadsCount - joined)
    BY <2>1
  <2>3. main \notin {"print", "done"}
    BY <1>c, <1>t, <2>2 DEF Threads
  <2>4. QED BY <1>c, <1>t, <2>1, <2>2, <2>3 DEF mainVars
<1>2. CASE StartThread \/ StartLastThread
  <2>1. PICK left \in Nat, right \in Nat :
           /\ started + 1 \in Threads
           /\ Start(started + 1, left, right)
           /\ UNCHANGED <<data, i, byte, joined, printed>>
    BY <1>2, StartStep
  <2>2. joined' = 0 /\ \A t \in Threads : ~(t > ThreadsCount - joined')
    BY <1>c, <1>2, <2>1 DEF StartThread, StartLastThread, Threads
  <2>3. started' = started + 1
    BY <2>1 DEF Start
  <2>4. CASE StartThread
    BY <1>c, <1>t, <2>2, <2>3, <2>4 DEF StartThread
  <2>5. CASE StartLastThread
    BY <1>c, <1>t, <2>2, <2>3, <2>5 DEF StartLastThread
  <2>6. QED BY <1>2, <2>4, <2>5
<1>3. CASE JoinThread
  <2>1. \A t \in Threads : t > ThreadsCount - joined' => pc'[t] = "returned"
    <3>1. ASSUME NEW t \in Threads, t > ThreadsCount - joined'
          PROVE  pc'[t] = "returned"
      <4>1. t = TopThread \/ t > ThreadsCount - joined
        BY <1>c, <1>t, <1>3, <3>1 DEF JoinThread, TopThread, Threads
      <4>2. QED BY <1>3, <4>1 DEF JoinThread
    <3>2. QED BY <3>1
  <2>2. QED BY <1>3, <2>1 DEF JoinThread
<1>4. CASE AllJoined
  BY <1>4 DEF AllJoined
<1>5. CASE PrintPrimes
  BY <1>5 DEF PrintPrimes
<1>6. CASE UNCHANGED vars
  BY <1>6 DEF vars, mainVars
<1>7. QED
  BY <1>1, <1>2, <1>3, <1>4, <1>5, <1>6 DEF Next, Main, Terminating

LEMMA Invariance == Spec => []IInv
<1>1. Init => IInv
  <2> SUFFICES ASSUME Init PROVE IInv
    OBVIOUS
  <2>1. MarksInv
    BY DEF Init, MarksInv, InRange, Running
  <2>2. CoverInv
    BY ConstantTypes DEF Init, CoverInv
  <2>3. MainInv
    BY ConstantTypes DEF Init, MainInv, Threads
  <2>4. QED BY <2>1, <2>2, <2>3, InitSafe DEF IInv
<1>2. IInv /\ [Next]_vars => IInv'
  BY SafeNext, MarksNext, CoverNext, MainNext DEF IInv
<1>3. QED BY <1>1, <1>2, PTL DEF Spec

\* Only in a byte that two threads write can a mark be lost: every composite
\* is in the range of a thread, which comes past it with its least divisor,
\* and a byte of one thread keeps its marks (multith.cpp:53-65, 132-141).
THEOREM MarksAreKept == Spec => []LostOnlyOnBorder
<1>1. IInv => LostOnlyOnBorder
  <2> SUFFICES ASSUME IInv, main = "done", NEW n \in printed, IsComposite(n)
               PROVE  ByteOf(n) \in Border
    BY DEF LostOnlyOnBorder
  <2>1. n \in 2 .. Limit - 1 /\ ~IsMarked(n)
    BY DEF IInv, MainInv
  <2>2. n \in Nat /\ n \in 0 .. Limit /\ n <= Limit
    BY <2>1, ConstantTypes
  <2>3. PICK p \in 2 .. n : /\ ~IsComposite(p)
                            /\ ProperlyDivides(p, n)
                            /\ p * p <= n
    BY <2>2, LeastDivisor
  <2>4. p \in Nat /\ p >= 2 /\ p \in 2 .. Limit
    BY <2>2, <2>3, ConstantTypes
  <2>5. PrimeDivisor(p, n)
    BY <2>2, <2>3, <2>4 DEF ProperlyDivides, PrimeDivisor
  <2>6. n \in 4 .. Limit
    <3>1. 2 * 2 <= p * p
      BY <2>4
    <3>2. p * p \in Nat
      BY <2>4
    <3>3. QED BY <2>2, <2>3, <3>1, <3>2, ConstantTypes
  <2>7. PICK t \in Threads : InRange(t, n)
    BY <2>6 DEF IInv, CoverInv
  <2>8. pc[t] = "returned"
    BY ConstantTypes DEF IInv, MainInv, Threads
  <2>9. j[t] > p
    <3>1. j[t] \in Nat /\ to[t] \in Nat /\ j[t] * j[t] > to[t] /\ n <= to[t]
      BY <2>7, <2>8 DEF IInv, SafeInv, TypeInv, WorkInv, InRange
    <3>2. p * p < j[t] * j[t]
      <4>1. p * p \in Nat /\ j[t] * j[t] \in Nat
        BY <2>4, <3>1
      <4>2. QED BY <2>2, <2>3, <3>1, <4>1
    <3>3. QED BY <2>4, <3>1, <3>2
  <2>10. Shared(ByteOf(n))
    BY <2>1, <2>2, <2>4, <2>5, <2>7, <2>9 DEF IInv, MarksInv, Passed
  <2>11. ByteOf(n) \in DOMAIN data
    BY <2>2, ByteInArray DEF IInv, SafeInv, TypeInv
  <2>12. QED BY <2>10, <2>11 DEF Shared, Border
<1>2. QED BY <1>1, Invariance, PTL

=============================================================================
