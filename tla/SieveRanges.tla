----------------------------- MODULE SieveRanges -----------------------------
(***************************************************************************)
(* The multithreaded sieve of 504/moskvitin.maxim/06 (multith.cpp and      *)
(* bit_array.cpp).                                                         *)
(*                                                                         *)
(* Every thread marks the composites of a range of its own.  One bit per   *)
(* number, so marking a number rewrites the byte it is in: a load and a    *)
(* store.  The ranges are rounded to bytes so that no two threads write    *)
(* the same byte, or so it seems: each range is rounded down after the     *)
(* previous one ended, and the last one is not rounded at all.             *)
(* The build, -O2, makes one instruction of a mark; without a lock prefix  *)
(* it still loads and stores the byte.                                     *)
(***************************************************************************)
EXTENDS Primes, FiniteSetsExt

CONSTANTS
  Limit,          \* limit
  ThreadsCount    \* threads_count

ASSUME LimitAssumption == Limit \in Nat

ASSUME ThreadsCountAssumption == ThreadsCount \in Nat \ {0}

Threads == 1 .. ThreadsCount

VARIABLES
  data,               \* data[b]: the numbers whose bits are set in byte b
  pc,                 \* per thread: the code that runs next
  from, to,           \* per thread: the bounds of its range
  j, i,               \* per thread: the divisor, and the multiple to mark
  byte,               \* per thread: the byte between its load and its store,
                      \*   {} otherwise
  started,            \* how many threads main has created
  left_bound,         \* main's left_bound
  main,               \* what main does: start, join and then print
  joined,             \* how many threads it has joined
  printed             \* the numbers it has printed

locals == <<from, to, j, i, byte>>
mainVars == <<started, left_bound, main, joined, printed>>
vars == <<data, pc, locals, mainVars>>

ByteOf(n) == n \div 8

Bits(b) == 8 * b .. 8 * b + 7

\* The last byte that bit_array allocates, for the numbers 0 .. Limit.
LastByte == ByteOf(Limit)

\* main() until it starts the threads.
Init ==
  /\ data = [b \in 0 .. LastByte |-> IF b = 0 THEN {0, 1} ELSE {}]
  /\ pc = [t \in Threads |-> "none"]
  /\ from = [t \in Threads |-> 0]
  /\ to = [t \in Threads |-> 0]
  /\ j = [t \in Threads |-> 0]
  /\ i = [t \in Threads |-> 0]
  /\ byte = [t \in Threads |-> {}]
  /\ started = 0
  /\ left_bound = 3
  /\ main = "start"
  /\ joined = 0
  /\ printed = {}

-----------------------------------------------------------------------------
(***************************************************************************)
(* threadf                                                                 *)
(***************************************************************************)

GoTo(t, label) == pc' = [pc EXCEPT ![t] = label]

\* bit_array::get
IsMarked(n) == n \in data[ByteOf(n)]

\* The least multiple of d that is not below n.
MultipleFrom(d, n) == ((n + d - 1) \div d) * d

\* Mutant: the number itself is marked too.
FirstMultiple_Itself(d, left) == Max({MultipleFrom(d, left), d})

\* Where the inner loop first marks a number: the multiple of d below left
\* that it may begin with is skipped by its continue.
FirstMultiple(d, left) == Max({MultipleFrom(d, left), d * d})

\* Mutant: the loop does not move on.
NextDivisor_Stuck(t) ==
  /\ pc[t] = "test"
  /\ j[t] * j[t] <= to[t]
  /\ IsMarked(j[t])
  /\ UNCHANGED vars

\* A divisor whose bit is set is passed over.
NextDivisor(t) ==
  /\ pc[t] = "test"
  /\ j[t] * j[t] <= to[t]
  /\ IsMarked(j[t])
  /\ j' = [j EXCEPT ![t] = @ + 1]
  /\ UNCHANGED <<data, pc, from, to, i, byte, mainVars>>

Divisor(t) ==
  /\ pc[t] = "test"
  /\ j[t] * j[t] <= to[t]
  /\ ~IsMarked(j[t])
  /\ i' = [i EXCEPT ![t] = FirstMultiple(j[t], from[t])]
  /\ GoTo(t, "load")
  /\ UNCHANGED <<data, from, to, j, byte, mainVars>>

\* bit_array::set: the byte is loaded, ...
Load(t) ==
  /\ pc[t] = "load"
  /\ i[t] <= to[t]
  /\ byte' = [byte EXCEPT ![t] = data[ByteOf(i[t])]]
  /\ GoTo(t, "store")
  /\ UNCHANGED <<data, from, to, j, i, mainVars>>

\* ... and stored with the bit set.
Store(t) ==
  /\ pc[t] = "store"
  /\ data' = [data EXCEPT ![ByteOf(i[t])] = byte[t] \cup {i[t]}]
  /\ i' = [i EXCEPT ![t] = @ + j[t]]
  /\ byte' = [byte EXCEPT ![t] = {}]
  /\ GoTo(t, "load")
  /\ UNCHANGED <<from, to, j, mainVars>>

AllMarked(t) ==
  /\ pc[t] = "load"
  /\ i[t] > to[t]
  /\ j' = [j EXCEPT ![t] = @ + 1]
  /\ GoTo(t, "test")
  /\ UNCHANGED <<data, from, to, i, byte, mainVars>>

Return(t) ==
  /\ pc[t] = "test"
  /\ j[t] * j[t] > to[t]
  /\ GoTo(t, "returned")
  /\ UNCHANGED <<data, locals, mainVars>>

Thread(t) == \/ NextDivisor(t) \/ Divisor(t) \/ Load(t) \/ Store(t)
             \/ AllMarked(t) \/ Return(t)

-----------------------------------------------------------------------------
(***************************************************************************)
(* main                                                                    *)
(***************************************************************************)

count_to_thread == Limit \div ThreadsCount

RightBound(left) ==
  Min({((left + count_to_thread) \div 8 + 1) * 8 - 1, Limit})

Start(t, left, right) ==
  /\ from' = [from EXCEPT ![t] = left]
  /\ to' = [to EXCEPT ![t] = right]
  /\ j' = [j EXCEPT ![t] = 2]
  /\ GoTo(t, "test")
  /\ started' = t

\* The next range begins with the byte the previous one ended in.
StartThread ==
  /\ main = "start"
  /\ started + 1 < ThreadsCount
  /\ LET left  == ByteOf(left_bound) * 8
         right == RightBound(left)
     IN  Start(started + 1, left, right) /\ left_bound' = right
  /\ UNCHANGED <<data, i, byte, main, joined, printed>>

StartLastThread ==
  /\ main = "start"
  /\ started + 1 = ThreadsCount
  /\ Start(ThreadsCount, left_bound, Limit)
  /\ main' = "join"
  /\ UNCHANGED <<data, i, byte, left_bound, joined, printed>>

\* The stack gives the threads back last first.
TopThread == ThreadsCount - joined

\* Mutant: main does not wait for the thread.
JoinThread_NoWait ==
  /\ main = "join"
  /\ joined < ThreadsCount
  /\ joined' = joined + 1
  /\ UNCHANGED <<data, pc, locals, started, left_bound, main, printed>>

JoinThread ==
  /\ main = "join"
  /\ joined < ThreadsCount
  /\ pc[TopThread] = "returned"
  /\ joined' = joined + 1
  /\ UNCHANGED <<data, pc, locals, started, left_bound, main, printed>>

AllJoined ==
  /\ main = "join"
  /\ joined = ThreadsCount
  /\ main' = "print"
  /\ UNCHANGED <<data, pc, locals, started, left_bound, joined, printed>>

PrintPrimes ==
  /\ main = "print"
  /\ printed' = {n \in 2 .. Limit - 1 : ~IsMarked(n)}
  /\ main' = "done"
  /\ UNCHANGED <<data, pc, locals, started, left_bound, joined>>

Main == StartThread \/ StartLastThread \/ JoinThread \/ AllJoined \/ PrintPrimes

Terminating == main = "done" /\ UNCHANGED vars

Next == Main \/ (\E t \in Threads : Thread(t)) \/ Terminating

\* The operating system runs every thread that can run.
Spec == Init /\ [][Next]_vars /\ WF_vars(Main)
             /\ \A t \in Threads : WF_vars(Thread(t))

-----------------------------------------------------------------------------
(***************************************************************************)
(* Properties                                                              *)
(***************************************************************************)

\* No race on a byte ever marks a prime.
NoPrimeMarked ==
  \A n \in 2 .. Limit : IsMarked(n) => IsComposite(n)

\* The bytes that two threads write.
Border == {b \in DOMAIN data :
             \E t, u \in Threads : /\ t # u
                                   /\ b \in ByteOf(from[t]) .. ByteOf(to[t])
                                   /\ b \in ByteOf(from[u]) .. ByteOf(to[u])}

\* A composite is lost, and printed, only if two threads write its byte: the
\* ranges leave no number out, and elsewhere no mark is overwritten, although
\* every thread chooses its divisors by bits that others are writing.
LostOnlyOnBorder ==
  main = "done" =>
    \A n \in printed : IsComposite(n) => ByteOf(n) \in Border

\* The numbers that are printed are the primes below the limit; REPORT:13 says
\* that the threads need no synchronisation for that.
PrintsPrimes == main = "done" => printed = PrimesBelow(Limit)

\* The program prints its result, whatever the schedule.
Finishes == <>(main = "done")

=============================================================================
