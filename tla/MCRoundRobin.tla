---------------------------- MODULE MCRoundRobin ----------------------------
(***************************************************************************)
(* Small instances of RoundRobin.                                          *)
(***************************************************************************)
EXTENDS RoundRobin, TLC

CONSTANTS task1, task2, task3

Burst1(s, l) == {[start |-> s, length |-> l]}

Task(l, s, bursts) == [length |-> l, startTime |-> s, io |-> bursts]

ThreeTasks == {task1, task2, task3}

ThreeArrivals == <<task1, task2, task3>>

\* No burst, one of each length, one at the very start and one that ends
\* just before the task does, two bursts in a row.
BurstChoices(l) ==
  {bs \in {{}, Burst1(1, 0), Burst1(1, 1), Burst1(2, 2), Burst1(0, 1),
           Burst1(1, 1) \cup Burst1(4, 1)} :
     \A b \in bs : b.start + b.length < l}

Descriptors(lengths, starts) ==
  {Task(l, s, bs) : l \in lengths, s \in starts, bs \in UNION
     {BurstChoices(m) : m \in lengths}}

Fitting(D) == {d \in D : d.io \in BurstChoices(d.length)}

\* Three tasks that arrive in the order in which input() adds them and of
\* which at most two use the I/O device.
OrderedTables ==
  {f \in [ThreeTasks -> Fitting(Descriptors({2, 4}, {0, 2}))] :
     /\ f[task1].startTime <= f[task2].startTime
     /\ f[task2].startTime <= f[task3].startTime
     /\ f[task1].io = {} \/ f[task2].io = {} \/ f[task3].io = {}}

\* A first task that has finished when two longer ones arrive, in any order.
PairTables ==
  {(task1 :> Task(1, 0, {})) @@ (task2 :> d2) @@ (task3 :> d3) :
     d2 \in Fitting(Descriptors({1, 3, 6}, {4, 6})),
     d3 \in Fitting(Descriptors({1, 3, 6}, {4, 6}))}

SmallTables == OrderedTables \cup PairTables

\* Three bursts that overlap, the one in the middle being the shortest.
OverlappingTables ==
  {(task1 :> Task(8, 0, Burst1(1, 4)))
   @@ (task2 :> Task(8, 0, Burst1(1, 2)))
   @@ (task3 :> Task(8, 0, Burst1(1, 4)))}

=============================================================================
