-------------------------- MODULE RoundRobin_proofs -------------------------
(***************************************************************************)
(* Theorems about RoundRobin, for every set of tasks, every arrival order  *)
(* and every table of descriptors.                                         *)
(***************************************************************************)
EXTENDS RoundRobin, SequenceTheorems, FiniteSetTheorems, TLAPS

-----------------------------------------------------------------------------
(***************************************************************************)
(* The lists.                                                              *)
(***************************************************************************)

\* GetItem returns an item of the list.
LEMMA GetItemType ==
  ASSUME NEW S, NEW list \in Seq(S), NEW idx \in Nat, idx < Len(list)
  PROVE  GetItem(list, idx) \in S
BY DEF GetItem

\* AddItem keeps the items and adds at most the new one.
LEMMA AddItemType ==
  ASSUME NEW S, NEW list \in Seq(S), NEW item \in S
  PROVE  /\ AddItem(list, item) \in Seq(S)
         /\ Len(AddItem(list, item)) \in {Len(list), Len(list) + 1}
         /\ \A k \in 1 .. Len(AddItem(list, item)) :
              \/ AddItem(list, item)[k] = item
              \/ k \in 1 .. Len(list) /\ AddItem(list, item)[k] = list[k]
BY DEF AddItem

\* Extract makes a non-empty list one shorter, if the index is one of it,
\* and adds nothing to it.
LEMMA ExtractType ==
  ASSUME NEW S, NEW list \in Seq(S), NEW idx \in Nat
  PROVE  /\ Extract(list, idx) \in Seq(S)
         /\ idx < Len(list) => Len(Extract(list, idx)) = Len(list) - 1
         /\ ~(idx < Len(list)) => Extract(list, idx) = list
         /\ \A k \in 1 .. Len(Extract(list, idx)) :
              \E l \in 1 .. Len(list) : Extract(list, idx)[k] = list[l]
<1>1. CASE ~(idx < Len(list))
  <2>1. Extract(list, idx) = list
    BY <1>1 DEF Extract
  <2>2. QED BY <1>1, <2>1
<1>2. CASE idx < Len(list)
  <2> DEFINE E == [k \in 1 .. Len(list) - 1 |-> IF k <= idx THEN list[k]
                                                 ELSE list[k - idx + 1]]
  <2>1. Extract(list, idx) = E
    BY <1>2 DEF Extract
  <2>2. \A k \in 1 .. Len(list) - 1 :
          \E l \in 1 .. Len(list) : E[k] = list[l]
    <3> TAKE k \in 1 .. Len(list) - 1
    <3>1. CASE k <= idx
      BY <3>1
    <3>2. CASE ~(k <= idx)
      <4>1. k - idx + 1 \in 1 .. Len(list)
        BY <3>2
      <4>2. E[k] = list[k - idx + 1]
        BY <3>2
      <4>3. QED BY <4>1, <4>2
    <3>3. QED BY <3>1, <3>2
  <2>3. \A k \in 1 .. Len(list) - 1 : E[k] \in S
    BY <2>2
  <2>4. E \in Seq(S) /\ Len(E) = Len(list) - 1
    <3>1. Len(list) - 1 \in Nat
      BY <1>2
    <3>2. E \in [1 .. Len(list) - 1 -> S]
      BY <2>3
    <3>3. E \in Seq(S)
      BY <3>1, <3>2, SeqDef
    <3>4. DOMAIN E = 1 .. Len(E) /\ Len(E) \in Nat
      BY <3>3, LenProperties
    <3>5. DOMAIN E = 1 .. Len(list) - 1
      OBVIOUS
    <3>6. QED BY <3>1, <3>3, <3>4, <3>5
  <2>5. QED BY <1>2, <2>1, <2>2, <2>4
<1>3. QED BY <1>1, <1>2

\* Pop is Extract of the first item.
LEMMA PopType ==
  ASSUME NEW S, NEW list \in Seq(S)
  PROVE  /\ Pop(list) \in Seq(S)
         /\ Len(list) > 0 => Len(Pop(list)) = Len(list) - 1
         /\ Len(list) = 0 => Pop(list) = list
         /\ \A k \in 1 .. Len(Pop(list)) :
              \E l \in 1 .. Len(list) : Pop(list)[k] = list[l]
BY ExtractType DEF Pop

-----------------------------------------------------------------------------
(***************************************************************************)
(* Type correctness and work conservation.                                 *)
(***************************************************************************)

\* What a task loses when it is sent back in time it has just gained, which
\* needs it to have a positive length; only such a task gets into g_io.
IoTasksHaveLength == \A k \in 1 .. Len(g_io) : table[g_io[k]].length > 0

IInv ==
  /\ TypeOK
  /\ Len(g_active) <= 1
  /\ pc \in {"schedule", "occupyCpu", "endOfTick"} => g_q \in 1 .. Quant
  /\ pc = "occupyCpu" => Len(g_active) = 0
  /\ IoTasksHaveLength
  /\ WorkConserving

\* The scheduler starts in a state of the invariant.
LEMMA InitIInv == Init => IInv
<1> SUFFICES ASSUME Init PROVE IInv
  OBVIOUS
<1>1. table \in [Tasks -> Descriptor]
  BY TableAssumption DEF Init
<1>2. \A t \in Tasks : table[t].length \in Nat
  BY <1>1 DEF Descriptor
<1>3. TypeOK
  <2>1. /\ g_ready \in Seq(Tasks) /\ g_active \in Seq(Tasks)
        /\ g_io \in Seq(Tasks) /\ g_input \in Seq(Tasks)
    BY ArrivalAssumption DEF Init
  <2>2. g_q \in 0 .. Quant
    BY ClockAssumption DEF Init
  <2>3. /\ currentTime \in [Tasks -> Nat]
        /\ \A t \in Tasks : currentTime[t] <= table[t].length
    BY <1>2 DEF Init
  <2>4. QED
    BY <1>1, <2>1, <2>2, <2>3 DEF Init, TypeOK, Labels
<1>4. QED
  BY <1>3, ClockAssumption DEF Init, IInv, IoTasksHaveLength, WorkConserving

\* A task that advances stays within its length.
LEMMA TickType ==
  ASSUME NEW d \in Descriptor, NEW time \in Nat, time <= d.length
  PROVE  /\ Tick(d, time) \in Nat
         /\ Tick(d, time) <= d.length
         /\ d.length > 0 => Tick(d, time) > 0
BY DEF Descriptor, Tick

\* Every step keeps it.
LEMMA NextIInv == IInv /\ [Next]_vars => IInv'
<1> SUFFICES ASSUME IInv, [Next]_vars PROVE IInv'
  OBVIOUS
<1> USE ClockAssumption, ListCapacity
<1>1. CASE Schedule
  BY <1>1 DEF Schedule, IInv, TypeOK, Labels, lists, IoTasksHaveLength,
              WorkConserving
<1>2. CASE Admit
  <2>1. GetItem(g_input, i) \in Tasks
    BY <1>2, GetItemType DEF Admit, IInv, TypeOK
  <2>2. g_input' \in Seq(Tasks)
    BY <1>2, ExtractType DEF Admit, IInv, TypeOK
  <2>3. g_ready' \in Seq(Tasks)
    BY <1>2, <2>1, AddItemType DEF Admit, IInv, TypeOK
  <2>4. since' \in [Tasks -> Nat]
    BY <1>2, <2>1 DEF Admit, IInv, TypeOK, Stamp
  <2>5. QED
    BY <1>2, <2>2, <2>3, <2>4 DEF Admit, IInv, TypeOK, IoTasksHaveLength,
                                  WorkConserving
<1>3. CASE NotYetArrived
  BY <1>3 DEF NotYetArrived, IInv, TypeOK, lists, IoTasksHaveLength,
              WorkConserving
<1>4. CASE StartPing
  BY <1>4 DEF StartPing, IInv, TypeOK, Labels, lists, IoTasksHaveLength,
              WorkConserving
<1>5. CASE PingActive
  <2> DEFINE t   == GetItem(g_active, i)
             now == Tick(table[t], currentTime[t])
  <2>1. t \in Tasks
    BY <1>5, GetItemType DEF PingActive, IInv, TypeOK
  <2>2. table[t] \in Descriptor /\ currentTime[t] \in Nat
        /\ currentTime[t] <= table[t].length
    BY <2>1 DEF IInv, TypeOK
  <2>3. now \in Nat /\ now <= table[t].length
    BY <2>2, TickType
  <2>4. /\ pc = "pingActive" /\ i < Len(g_active)
        /\ currentTime' = [currentTime EXCEPT ![t] = now]
        /\ UNCHANGED <<g_ready, g_input, g_q, g_currentTick, table, pc>>
    BY <1>5 DEF PingActive
  <2>5. /\ currentTime' \in [Tasks -> Nat]
        /\ \A u \in Tasks : currentTime'[u] <= table[u].length
    BY <2>1, <2>3, <2>4 DEF IInv, TypeOK
  <2>6. Pop(g_active) \in Seq(Tasks) /\ Len(Pop(g_active)) <= 1
    BY <2>4, PopType DEF IInv, TypeOK
  <2>7. CASE IsFinished(table[t], now)
    <3>1. /\ g_active' = Pop(g_active) /\ g_isRescheduled' = TRUE
          /\ Stamp(t) /\ UNCHANGED <<g_io, i>>
      BY <1>5, <2>7 DEF PingActive
    <3>2. since' \in [Tasks -> Nat]
      BY <2>1, <3>1 DEF IInv, TypeOK, Stamp
    <3>3. QED
      BY <2>4, <2>5, <2>6, <3>1, <3>2 DEF IInv, TypeOK, IoTasksHaveLength,
                                          WorkConserving
  <2>8. CASE ~IsFinished(table[t], now) /\ IsIoState(table[t], now)
    <3>1. /\ g_active' = Pop(g_active) /\ g_isRescheduled' = TRUE
          /\ g_io' = AddItem(g_io, t) /\ Stamp(t) /\ UNCHANGED i
      BY <1>5, <2>8 DEF PingActive
    <3>2. since' \in [Tasks -> Nat]
      BY <2>1, <3>1 DEF IInv, TypeOK, Stamp
    <3>3. table[t].length > 0
      BY <2>2, <2>3, <2>8 DEF IsFinished, Descriptor
    <3>4. g_io' \in Seq(Tasks)
      BY <2>1, <3>1, AddItemType DEF IInv, TypeOK
    <3>5. IoTasksHaveLength'
      <4>1. SUFFICES ASSUME NEW k \in 1 .. Len(g_io')
                     PROVE  table[g_io'[k]].length > 0
        BY <2>4 DEF IoTasksHaveLength
      <4> DEFINE new == AddItem(g_io, t)
      <4>a. \A l \in 1 .. Len(new) :
              new[l] = t \/ (l \in 1 .. Len(g_io) /\ new[l] = g_io[l])
        <5>1. g_io \in Seq(Tasks)
          BY DEF IInv, TypeOK
        <5> HIDE DEF t
        <5>2. QED BY <2>1, <5>1, AddItemType
      <4>2. \/ g_io'[k] = t
            \/ k \in 1 .. Len(g_io) /\ g_io'[k] = g_io[k]
        BY <3>1, <4>a
      <4>3. QED
        BY <3>3, <4>2 DEF IInv, IoTasksHaveLength
    <3>6. QED
      BY <2>4, <2>5, <2>6, <3>1, <3>2, <3>4, <3>5 DEF IInv, TypeOK,
                                                      WorkConserving
  <2>9. CASE ~IsFinished(table[t], now) /\ ~IsIoState(table[t], now)
    <3>1. i' = i + 1
          /\ UNCHANGED <<g_active, g_io, g_isRescheduled, since>>
      BY <1>5, <2>9 DEF PingActive
    <3>2. QED
      BY <2>4, <2>5, <3>1 DEF IInv, TypeOK, IoTasksHaveLength, WorkConserving
  <2>10. QED BY <2>7, <2>8, <2>9
<1>6. CASE StartPingIo
  BY <1>6 DEF StartPingIo, IInv, TypeOK, Labels, lists, IoTasksHaveLength,
              WorkConserving
<1>7. CASE PingIo
  <2> DEFINE t   == GetItem(g_io, i)
             now == Tick(table[t], currentTime[t])
  <2>1. t \in Tasks /\ table[t].length > 0
    BY <1>7, GetItemType DEF PingIo, IInv, TypeOK, IoTasksHaveLength, GetItem
  <2>2. table[t] \in Descriptor /\ currentTime[t] \in Nat
        /\ currentTime[t] <= table[t].length
    BY <2>1 DEF IInv, TypeOK
  <2>3. now \in Nat /\ now <= table[t].length /\ now > 0
    BY <2>1, <2>2, TickType
  <2>4. /\ pc = "pingIo" /\ i < Len(g_io) /\ i' = i + 1
        /\ UNCHANGED <<g_active, g_input, g_q, g_currentTick, table, pc>>
    BY <1>7 DEF PingIo
  <2>5. CASE IsIoState(table[t], now)
    <3>1. /\ currentTime' = [currentTime EXCEPT ![t] = now]
          /\ UNCHANGED <<g_io, g_ready, g_isRescheduled, since>>
      BY <1>7, <2>5 DEF PingIo
    <3>2. /\ currentTime' \in [Tasks -> Nat]
          /\ \A u \in Tasks : currentTime'[u] <= table[u].length
      BY <2>1, <2>3, <3>1 DEF IInv, TypeOK
    <3>3. QED
      BY <2>4, <3>1, <3>2 DEF IInv, TypeOK, IoTasksHaveLength, WorkConserving
  <2>6. CASE ~IsIoState(table[t], now)
    <3>1. /\ g_io' = Extract(g_io, i) /\ g_ready' = AddItem(g_ready, t)
          /\ currentTime' = [currentTime EXCEPT ![t] = BackInTime(now)]
          /\ g_isRescheduled' = TRUE /\ Stamp(t)
      BY <1>7, <2>6 DEF PingIo
    <3>2. BackInTime(now) \in Nat /\ BackInTime(now) <= table[t].length
      BY <2>2, <2>3 DEF BackInTime, Descriptor
    <3>3. /\ currentTime' \in [Tasks -> Nat]
          /\ \A u \in Tasks : currentTime'[u] <= table[u].length
      BY <2>1, <3>1, <3>2 DEF IInv, TypeOK
    <3>4. since' \in [Tasks -> Nat]
      BY <2>1, <3>1 DEF IInv, TypeOK, Stamp
    <3>5. g_ready' \in Seq(Tasks)
      BY <2>1, <3>1, AddItemType DEF IInv, TypeOK
    <3>6. g_io' \in Seq(Tasks) /\ IoTasksHaveLength'
      <4>1. g_io' \in Seq(Tasks)
            /\ \A k \in 1 .. Len(g_io') :
                 \E l \in 1 .. Len(g_io) : g_io'[k] = g_io[l]
        BY <2>4, <3>1, ExtractType DEF IInv, TypeOK
      <4>2. QED
        BY <2>4, <4>1 DEF IInv, IoTasksHaveLength
    <3>7. QED
      BY <2>4, <3>1, <3>3, <3>4, <3>5, <3>6 DEF IInv, TypeOK, WorkConserving
  <2>7. QED BY <2>5, <2>6
<1>8. CASE EndPing
  BY <1>8 DEF EndPing, IInv, TypeOK, Labels, lists, IoTasksHaveLength,
              WorkConserving
<1>9. CASE JustWork
  BY <1>9 DEF JustWork, MayGoOn, IInv, TypeOK, Labels, lists,
              IoTasksHaveLength, WorkConserving
<1>10. CASE LeaveCpu
  <2>1. /\ pc = "leaveCpu" /\ pc' = "occupyCpu" /\ g_q' = Quant
        /\ g_active' = Pop(g_active)
        /\ UNCHANGED <<g_io, g_input, g_currentTick, g_isRescheduled,
                       currentTime, table, i>>
    BY <1>10 DEF LeaveCpu
  <2>2. g_active' \in Seq(Tasks) /\ Len(g_active') = 0
    <3>1. g_active \in Seq(Tasks) /\ Len(g_active) \in {0, 1}
      <4>1. g_active \in Seq(Tasks) /\ Len(g_active) <= 1
        BY DEF IInv, TypeOK
      <4>2. QED BY <4>1, LenProperties
    <3>2. Pop(g_active) \in Seq(Tasks) /\ Len(Pop(g_active)) = 0
      BY <3>1, PopType
    <3>3. QED BY <2>1, <3>2
  <2>3. g_ready' \in Seq(Tasks) /\ since' \in [Tasks -> Nat]
    <3>1. CASE Len(g_active) > 0
      <4>1. Head(g_active) \in Tasks
        BY <3>1 DEF IInv, TypeOK
      <4>2. g_ready' = AddItem(g_ready, Head(g_active))
            /\ Stamp(Head(g_active))
        BY <1>10, <3>1 DEF LeaveCpu
      <4>3. QED
        BY <4>1, <4>2, AddItemType DEF IInv, TypeOK, Stamp
    <3>2. CASE ~(Len(g_active) > 0)
      BY <1>10, <3>2 DEF LeaveCpu, IInv, TypeOK
    <3>3. QED BY <3>1, <3>2
  <2>4. QED
    BY <2>1, <2>2, <2>3 DEF IInv, TypeOK, Labels, IoTasksHaveLength,
                            WorkConserving
<1>11. CASE OccupyCpu
  <2>1. /\ pc = "occupyCpu" /\ pc' = "endOfTick"
        /\ g_ready' = Pop(g_ready)
        /\ UNCHANGED <<g_io, g_input, g_q, g_currentTick, g_isRescheduled,
                       currentTime, table, i>>
    BY <1>11 DEF OccupyCpu
  <2>2. g_ready' \in Seq(Tasks) /\ (Len(g_ready) = 0 => Len(g_ready') = 0)
    BY <2>1, PopType DEF IInv, TypeOK
  <2>3. /\ g_active' \in Seq(Tasks) /\ since' \in [Tasks -> Nat]
        /\ Len(g_active') <= 1 /\ (Len(g_ready) > 0 => Len(g_active') > 0)
    <3>1. CASE Len(g_ready) > 0
      <4>1. Head(g_ready) \in Tasks
        BY <3>1 DEF IInv, TypeOK
      <4>2. g_active' = AddItem(g_active, Head(g_ready))
            /\ Stamp(Head(g_ready))
        BY <1>11, <3>1 DEF OccupyCpu
      <4>3. g_active' \in Seq(Tasks) /\ Len(g_active') = 1
        BY <2>1, <4>1, <4>2 DEF AddItem, IInv, TypeOK
      <4>4. since' \in [Tasks -> Nat]
        BY <4>1, <4>2 DEF IInv, TypeOK, Stamp
      <4>5. QED BY <4>3, <4>4
    <3>2. CASE ~(Len(g_ready) > 0)
      BY <1>11, <3>2 DEF OccupyCpu, IInv, TypeOK
    <3>3. QED BY <3>1, <3>2
  <2>4. QED
    BY <2>1, <2>2, <2>3 DEF IInv, TypeOK, Labels, IoTasksHaveLength,
                            WorkConserving
<1>12. CASE EndOfTick
  <2>1. /\ pc = "endOfTick" /\ pc' \in {"done", "schedule"}
        /\ g_currentTick' = g_currentTick + 1
        /\ UNCHANGED <<lists, g_q, g_isRescheduled, currentTime, table, i,
                       since>>
    BY <1>12 DEF EndOfTick
  <2>2. TypeOK'
    BY <2>1 DEF IInv, TypeOK, Labels, lists
  <2>3. g_q' \in 1 .. Quant /\ Len(g_active') <= 1
    BY <2>1 DEF IInv, lists
  <2>4. IoTasksHaveLength'
    BY <2>1 DEF IInv, lists, IoTasksHaveLength
  <2>5. WorkConserving'
    BY <2>1 DEF WorkConserving
  <2>6. QED
    BY <2>1, <2>2, <2>3, <2>4, <2>5 DEF IInv
<1>13. CASE Terminating
  BY <1>13 DEF Terminating, vars, IInv, TypeOK, IoTasksHaveLength,
               WorkConserving
<1>14. CASE UNCHANGED vars
  BY <1>14 DEF vars, IInv, TypeOK, IoTasksHaveLength, WorkConserving
<1>15. QED
  BY <1>1, <1>2, <1>3, <1>4, <1>5, <1>6, <1>7, <1>8, <1>9, <1>10, <1>11,
     <1>12, <1>13, <1>14 DEF Next

\* The invariant holds throughout every run.
LEMMA Invariance == Spec => []IInv
BY InitIInv, NextIInv, PTL DEF Spec

\* Every variable keeps its type, no task runs past its length and the
\* quantum never counts below zero, with any number of tasks.
THEOREM TypeCorrect == Spec => []TypeOK
<1>1. IInv => TypeOK
  BY DEF IInv
<1>2. QED BY <1>1, Invariance, PTL

\* schedule() never ends a tick with the CPU idle and a task ready.
THEOREM CpuNeverIdles == Spec => []WorkConserving
<1>1. IInv => WorkConserving
  BY DEF IInv
<1>2. QED BY <1>1, Invariance, PTL

-----------------------------------------------------------------------------
(***************************************************************************)
(* Conservation of tasks.  Extract removes the item it is asked to remove  *)
(* only at the two ends of a list, so conservation is proved from the      *)
(* assumption that no other extraction happens, and then without it for    *)
(* at most two tasks, which is what input() creates.                       *)
(***************************************************************************)

AtEnd(list, idx) == idx = 0 \/ idx = Len(list) - 1

ExtractsAtEnds ==
  /\ /\ pc = "checkInputQueue" /\ i < Len(g_input)
     /\ table[GetItem(g_input, i)].startTime <= g_currentTick
     => AtEnd(g_input, i)
  /\ /\ pc = "pingIo" /\ i < Len(g_io)
     /\ ~IsIoState(table[GetItem(g_io, i)],
                   Tick(table[GetItem(g_io, i)], currentTime[GetItem(g_io, i)]))
     => AtEnd(g_io, i)

\* At an end of a list without doubles, Extract removes that item and no other.
LEMMA ExtractRemoves ==
  ASSUME NEW S, NEW list \in Seq(S), NEW idx \in Nat, idx < Len(list),
         AtEnd(list, idx), NoDoubles(list)
  PROVE  /\ NoDoubles(Extract(list, idx))
         /\ \A t : InList(t, Extract(list, idx))
                    <=> InList(t, list) /\ t # GetItem(list, idx)
<1> DEFINE E == Extract(list, idx)
           n == Len(list)
<1>1. n \in Nat /\ n > 0
  BY LenProperties
<1>2. /\ Len(E) = n - 1
      /\ E = [k \in 1 .. n - 1 |-> IF k <= idx THEN list[k]
                                             ELSE list[k - idx + 1]]
  BY <1>1, ExtractType DEF Extract
<1>3. CASE idx = 0
  <2>1. \A k \in 1 .. n - 1 : E[k] = list[k + 1]
    BY <1>1, <1>2, <1>3
  <2> HIDE DEF E
  <2>2. NoDoubles(E)
    BY <1>1, <1>2, <2>1 DEF NoDoubles
  <2>3. ASSUME NEW t
        PROVE  InList(t, E) <=> InList(t, list) /\ t # list[1]
    <3>1. ASSUME NEW k \in 1 .. n - 1, E[k] = t
          PROVE  InList(t, list) /\ t # list[1]
      BY <1>1, <2>1, <3>1 DEF NoDoubles, InList
    <3>2. ASSUME NEW l \in 1 .. n, list[l] = t, t # list[1]
          PROVE  InList(t, E)
      <4>1. l - 1 \in 1 .. n - 1 /\ E[l - 1] = t
        BY <1>1, <2>1, <3>2
      <4>2. QED BY <1>2, <4>1 DEF InList
    <3>3. QED BY <1>2, <3>1, <3>2 DEF InList
  <2>4. QED BY <1>3, <2>2, <2>3 DEF E, GetItem
<1>4. CASE idx = n - 1
  <2>1. \A k \in 1 .. n - 1 : E[k] = list[k]
    BY <1>1, <1>2, <1>4
  <2> HIDE DEF E
  <2>2. NoDoubles(E)
    BY <1>1, <1>2, <2>1 DEF NoDoubles
  <2>3. ASSUME NEW t
        PROVE  InList(t, E) <=> InList(t, list) /\ t # list[n]
    <3>1. ASSUME NEW k \in 1 .. n - 1, E[k] = t
          PROVE  InList(t, list) /\ t # list[n]
      BY <1>1, <2>1, <3>1 DEF NoDoubles, InList
    <3>2. ASSUME NEW l \in 1 .. n, list[l] = t, t # list[n]
          PROVE  InList(t, E)
      <4>1. l \in 1 .. n - 1 /\ E[l] = t
        BY <1>1, <2>1, <3>2
      <4>2. QED BY <1>2, <4>1 DEF InList
    <3>3. QED BY <1>2, <3>1, <3>2 DEF InList
  <2>4. QED BY <1>4, <2>2, <2>3 DEF E, GetItem
<1>5. QED BY <1>3, <1>4 DEF AtEnd

\* input() adds every task once, so there are finitely many of them and a
\* list has room for all.
LEMMA TasksFit ==
  /\ IsFiniteSet(Tasks)
  /\ Cardinality(Tasks) \in Nat
  /\ Cardinality(Tasks) <= MaxListItems
<1> DEFINE m == Len(Arrival)
<1>1. m \in Nat /\ Arrival \in [1 .. m -> Tasks] /\ m <= MaxListItems
  BY LenProperties, ArrivalAssumption
<1>2. Arrival \in Surjection(1 .. m, Tasks)
  BY <1>1, ArrivalAssumption DEF Surjection
<1>3. IsFiniteSet(1 .. m) /\ Cardinality(1 .. m) = m
  <2>1. m \in Nat
    BY <1>1
  <2> HIDE DEF m
  <2>2. QED BY <2>1, FS_Interval
<1>4. IsFiniteSet(Tasks) /\ Cardinality(Tasks) <= m
  BY <1>2, <1>3, FS_Surjection
<1>5. Cardinality(Tasks) \in Nat
  BY <1>4, FS_CardinalityType
<1>6. QED BY <1>1, <1>4, <1>5, ListCapacity

\* A list without doubles and the tasks that are not in it are together no
\* more than there are tasks.
LEMMA ListIsShort ==
  ASSUME NEW list \in Seq(Tasks), NoDoubles(list),
         NEW S \in SUBSET Tasks, \A u \in S : ~InList(u, list)
  PROVE  /\ Cardinality(S) \in Nat
         /\ Len(list) + Cardinality(S) <= Cardinality(Tasks)
<1> DEFINE n == Len(list)
<1>1. n \in Nat /\ list \in [1 .. n -> Tasks]
  BY LenProperties
<1>2. IsFiniteSet(S) /\ Cardinality(S) \in Nat
  BY TasksFit, FS_Subset, FS_CardinalityType
<1>3. /\ IsFiniteSet(Tasks \ S)
      /\ Cardinality(Tasks \ S) = Cardinality(Tasks) - Cardinality(S)
  <2>1. /\ IsFiniteSet(Tasks \ S)
        /\ Cardinality(Tasks \ S)
             = Cardinality(Tasks) - Cardinality(Tasks \cap S)
    BY TasksFit, FS_Difference
  <2>2. Tasks \cap S = S
    OBVIOUS
  <2>3. QED BY <2>1, <2>2
<1>4. ASSUME n > Cardinality(Tasks \ S)
      PROVE  FALSE
  <2>1. IsFiniteSet(1 .. n) /\ Cardinality(1 .. n) = n
    BY <1>1, FS_Interval
  <2>2. list \in [1 .. n -> Tasks \ S]
    BY <1>1 DEF InList
  <2>3. \E k, l \in 1 .. n : k # l /\ list[k] = list[l]
    BY <1>3, <1>4, <2>1, <2>2, FS_PigeonHole
  <2>4. QED BY <2>3 DEF NoDoubles
<1>5. QED BY <1>1, <1>2, <1>3, <1>4, TasksFit

\* A list without doubles has room for a task that is not in it.
LEMMA ListHasRoom ==
  ASSUME NEW list \in Seq(Tasks), NoDoubles(list),
         NEW t \in Tasks, ~InList(t, list)
  PROVE  /\ Len(list) + 1 <= Cardinality(Tasks)
         /\ AddItem(list, t) = Append(list, t)
<1>1. Cardinality({t}) = 1
  BY FS_Singleton
<1>2. Len(list) + 1 <= Cardinality(Tasks)
  <2>1. Len(list) + Cardinality({t}) <= Cardinality(Tasks)
    BY ListIsShort
  <2>2. QED BY <1>1, <2>1
<1>3. QED
  BY <1>2, TasksFit, ListCapacity, LenProperties DEF AddItem

\* Two tasks that are not in it leave room for two.
LEMMA ListHasRoomForTwo ==
  ASSUME NEW list \in Seq(Tasks), NoDoubles(list),
         NEW t \in Tasks, ~InList(t, list),
         NEW u \in Tasks, ~InList(u, list), t # u
  PROVE  Len(list) + 2 <= Cardinality(Tasks)
<1>1. Cardinality({t, u}) = 2
  <2> DEFINE T == {t}
  <2>1. IsFiniteSet(T) /\ Cardinality(T) = 1 /\ u \notin T
    BY FS_Singleton
  <2>2. {t, u} = T \cup {u}
    OBVIOUS
  <2> HIDE DEF T
  <2>3. Cardinality(T \cup {u}) = Cardinality(T) + 1
    BY <2>1, FS_AddElement
  <2>4. Cardinality(T \cup {u}) = 2
    BY <2>1, <2>3
  <2>5. QED BY <2>2, <2>4
<1>2. Len(list) + Cardinality({t, u}) <= Cardinality(Tasks)
  BY ListIsShort
<1>3. QED BY <1>1, <1>2

\* AddItem adds exactly the new item.
LEMMA AddItemAdds ==
  ASSUME NEW list \in Seq(Tasks), NoDoubles(list),
         NEW t \in Tasks, ~InList(t, list)
  PROVE  /\ NoDoubles(AddItem(list, t))
         /\ \A u : InList(u, AddItem(list, t)) <=> InList(u, list) \/ u = t
<1>1. AddItem(list, t) = Append(list, t)
  BY ListHasRoom
<1>2. /\ Len(Append(list, t)) = Len(list) + 1 /\ Len(list) \in Nat
      /\ \A k \in 1 .. Len(list) : Append(list, t)[k] = list[k]
      /\ Append(list, t)[Len(list) + 1] = t
  OBVIOUS
<1> DEFINE A == Append(list, t)
<1> HIDE DEF A
<1>3. /\ Len(A) = Len(list) + 1 /\ Len(list) \in Nat
      /\ \A k \in 1 .. Len(list) : A[k] = list[k]
      /\ A[Len(list) + 1] = t
  BY <1>2 DEF A
<1>4. NoDoubles(A)
  <2>1. SUFFICES ASSUME NEW k \in 1 .. Len(A), NEW l \in 1 .. Len(A),
                        A[k] = A[l]
                 PROVE  k = l
    BY DEF NoDoubles
  <2>2. k \in 1 .. Len(list) \/ k = Len(list) + 1
    BY <1>3
  <2>3. l \in 1 .. Len(list) \/ l = Len(list) + 1
    BY <1>3
  <2>4. QED BY <1>3, <2>1, <2>2, <2>3 DEF NoDoubles, InList
<1>5. ASSUME NEW u
      PROVE  InList(u, A) <=> InList(u, list) \/ u = t
  <2>1. ASSUME NEW k \in 1 .. Len(A), A[k] = u
        PROVE  InList(u, list) \/ u = t
    <3>1. k \in 1 .. Len(list) \/ k = Len(list) + 1
      BY <1>3
    <3>2. QED BY <1>3, <2>1, <3>1 DEF InList
  <2>2. ASSUME NEW k \in 1 .. Len(list), list[k] = u
        PROVE  InList(u, A)
    <3>1. k \in 1 .. Len(A) /\ A[k] = u
      BY <1>3, <2>2
    <3>2. QED BY <3>1 DEF InList
  <2>3. InList(t, A)
    <3>1. Len(list) + 1 \in 1 .. Len(A)
      BY <1>3
    <3>2. QED BY <1>3, <3>1 DEF InList
  <2>4. QED BY <2>1, <2>2, <2>3 DEF InList
<1>6. QED BY <1>1, <1>4, <1>5 DEF A

\* An item of a list is in it.
LEMMA ItemInList ==
  ASSUME NEW S, NEW list \in Seq(S), NEW idx \in Nat, idx < Len(list)
  PROVE  InList(GetItem(list, idx), list)
<1>1. idx + 1 \in 1 .. Len(list)
  BY LenProperties
<1>2. QED BY <1>1 DEF InList, GetItem

\* Pop takes the head of a non-empty list without doubles.
LEMMA PopRemoves ==
  ASSUME NEW S, NEW list \in Seq(S), NoDoubles(list), Len(list) > 0
  PROVE  /\ NoDoubles(Pop(list))
         /\ \A t : InList(t, Pop(list)) <=> InList(t, list) /\ t # Head(list)
         /\ InList(Head(list), list) /\ Head(list) \in S
<1>1. Head(list) = GetItem(list, 0) /\ GetItem(list, 0) \in S
  BY LenProperties, GetItemType DEF GetItem
<1>2. QED
  BY <1>1, ExtractRemoves, ItemInList, LenProperties DEF Pop, AtEnd

CInv == IInv /\ NoTaskLostOrDoubled

\* At the start every task is once in g_input.
LEMMA InitConserved == Init => NoTaskLostOrDoubled
<1> SUFFICES ASSUME Init PROVE NoTaskLostOrDoubled
  OBVIOUS
<1>1. \A t : ~InList(t, <<>>)
  BY DEF InList
<1>2. NoDoubles(<<>>)
  BY DEF NoDoubles
<1>3. NoDoubles(Arrival) /\ \A t \in Tasks : InList(t, Arrival)
  BY ArrivalAssumption DEF NoDoubles, InList
<1>4. QED
  BY <1>1, <1>2, <1>3 DEF Init, NoTaskLostOrDoubled, NoTaskDoubled,
                          NoTaskLost, Disjoint

-----------------------------------------------------------------------------
(***************************************************************************)
(* The moves.  A step changes at most two lists: it takes a task from one  *)
(* and puts it at the end of another.                                      *)
(***************************************************************************)

\* The list old loses t and nothing else.
Takes(old, t, new) ==
  /\ InList(t, old)
  /\ NoDoubles(new)
  /\ \A u \in Tasks : InList(u, new) <=> InList(u, old) /\ u # t

\* The list old gains t, at its end, and nothing else.
Puts(old, t, new) ==
  /\ ~InList(t, old)
  /\ NoDoubles(new)
  /\ \A u \in Tasks : InList(u, new) <=> InList(u, old) \/ u = t
  /\ Len(new) = Len(old) + 1
  /\ \A k \in 1 .. Len(old) : new[k] = old[k]
  /\ new[Len(old) + 1] = t
  /\ Len(new) <= Cardinality(Tasks)

\* The items that stay keep their place, or all move down by one.
KeepsOrder(old, new, first) ==
  /\ Len(new) = Len(old) - 1
  /\ \A k \in 1 .. Len(new) : new[k] = old[IF first THEN k + 1 ELSE k]

\* Extract takes the item at an end.
LEMMA ExtractTakes ==
  ASSUME NEW list \in Seq(Tasks), NoDoubles(list),
         NEW idx \in Nat, idx < Len(list), AtEnd(list, idx)
  PROVE  /\ GetItem(list, idx) \in Tasks
         /\ Takes(list, GetItem(list, idx), Extract(list, idx))
         /\ KeepsOrder(list, Extract(list, idx), idx = 0)
<1>1. GetItem(list, idx) \in Tasks /\ InList(GetItem(list, idx), list)
  BY GetItemType, ItemInList
<1>2. Takes(list, GetItem(list, idx), Extract(list, idx))
  BY <1>1, ExtractRemoves DEF Takes
<1>3. KeepsOrder(list, Extract(list, idx), idx = 0)
  <2> DEFINE n == Len(list)
             E == [k \in 1 .. n - 1 |-> IF k <= idx THEN list[k]
                                        ELSE list[k - idx + 1]]
  <2>1. Extract(list, idx) = E /\ Len(Extract(list, idx)) = n - 1
        /\ n \in Nat /\ n > 0
    BY ExtractType, LenProperties DEF Extract
  <2>2. CASE idx = 0
    <3>1. \A k \in 1 .. n - 1 : E[k] = list[k + 1]
      BY <2>1, <2>2
    <3>2. QED BY <2>1, <2>2, <3>1 DEF KeepsOrder
  <2>3. CASE idx # 0
    <3>1. \A k \in 1 .. n - 1 : E[k] = list[k]
      BY <2>1, <2>3 DEF AtEnd
    <3>2. QED BY <2>1, <2>3, <3>1 DEF KeepsOrder
  <2>4. QED BY <2>2, <2>3
<1>4. QED BY <1>1, <1>2, <1>3

\* Pop takes the head.
LEMMA PopTakes ==
  ASSUME NEW list \in Seq(Tasks), NoDoubles(list), Len(list) > 0
  PROVE  /\ Head(list) = list[1] /\ Head(list) \in Tasks
         /\ Takes(list, Head(list), Pop(list))
         /\ KeepsOrder(list, Pop(list), TRUE)
<1>1. Head(list) = GetItem(list, 0) /\ GetItem(list, 0) = list[1]
  BY LenProperties DEF GetItem
<1>2. /\ GetItem(list, 0) \in Tasks
      /\ Takes(list, GetItem(list, 0), Extract(list, 0))
      /\ KeepsOrder(list, Extract(list, 0), 0 = 0)
  BY ExtractTakes, LenProperties DEF AtEnd
<1>3. QED BY <1>1, <1>2 DEF Pop

\* AddItem puts a new item.
LEMMA AddItemPuts ==
  ASSUME NEW list \in Seq(Tasks), NoDoubles(list),
         NEW t \in Tasks, ~InList(t, list)
  PROVE  Puts(list, t, AddItem(list, t))
<1>1. /\ NoDoubles(AddItem(list, t))
      /\ \A u : InList(u, AddItem(list, t)) <=> InList(u, list) \/ u = t
  BY AddItemAdds
<1>2. /\ Len(list) + 1 <= Cardinality(Tasks)
      /\ AddItem(list, t) = Append(list, t)
  BY ListHasRoom
<1>3. /\ Len(Append(list, t)) = Len(list) + 1 /\ Len(list) \in Nat
      /\ \A k \in 1 .. Len(list) : Append(list, t)[k] = list[k]
      /\ Append(list, t)[Len(list) + 1] = t
  OBVIOUS
<1>4. QED BY <1>1, <1>2, <1>3 DEF Puts

\* What the state tells about the lists.
LEMMA ListsOfCInv ==
  CInv => /\ g_ready \in Seq(Tasks) /\ g_active \in Seq(Tasks)
          /\ g_io \in Seq(Tasks) /\ g_input \in Seq(Tasks)
          /\ i \in Nat /\ Len(g_active) \in {0, 1}
          /\ currentTime \in [Tasks -> Nat]
          /\ table \in [Tasks -> Descriptor]
          /\ since \in [Tasks -> Nat]
          /\ g_currentTick \in Nat /\ g_q \in 0 .. Quant
          /\ NoTaskDoubled /\ NoTaskLost
<1> SUFFICES ASSUME CInv
             PROVE  Len(g_active) \in {0, 1}
  BY DEF CInv, IInv, TypeOK, NoTaskLostOrDoubled
<1>1. g_active \in Seq(Tasks) /\ Len(g_active) <= 1
  BY DEF CInv, IInv, TypeOK
<1>2. \A n \in Nat : n <= 1 => n \in {0, 1}
  OBVIOUS
<1>3. Len(g_active) \in Nat
  BY <1>1, LenProperties
<1>4. QED BY <1>1, <1>2, <1>3

\* checkInputQueue takes an arrived task from g_input and puts it into
\* g_ready.
LEMMA AdmitMoves ==
  CInv /\ ExtractsAtEnds /\ Admit =>
    /\ pc = "checkInputQueue"
    /\ \E t \in Tasks :
         /\ Takes(g_input, t, g_input') /\ Puts(g_ready, t, g_ready')
         /\ ~InList(t, g_active) /\ ~InList(t, g_io)
         /\ table[t].startTime <= g_currentTick
         /\ since' = [since EXCEPT ![t] = g_currentTick]
    /\ UNCHANGED <<g_active, g_io, g_q, g_currentTick, currentTime, table,
                   pc, i>>
<1> SUFFICES ASSUME CInv, ExtractsAtEnds, Admit
             PROVE  \E t \in Tasks :
                      /\ Takes(g_input, t, g_input')
                      /\ Puts(g_ready, t, g_ready')
                      /\ ~InList(t, g_active) /\ ~InList(t, g_io)
                      /\ table[t].startTime <= g_currentTick
                      /\ since' = [since EXCEPT ![t] = g_currentTick]
  BY DEF Admit
<1> DEFINE t == GetItem(g_input, i)
<1>1. /\ g_input' = Extract(g_input, i) /\ g_ready' = AddItem(g_ready, t)
      /\ AtEnd(g_input, i) /\ i < Len(g_input)
      /\ table[t].startTime <= g_currentTick /\ Stamp(t)
  BY DEF Admit, ExtractsAtEnds
<1>2. t \in Tasks /\ Takes(g_input, t, g_input')
  BY <1>1, ListsOfCInv, ExtractTakes DEF NoTaskDoubled
<1>3. ~InList(t, g_ready) /\ ~InList(t, g_active) /\ ~InList(t, g_io)
  BY <1>2, ListsOfCInv DEF NoTaskDoubled, Disjoint, Takes
<1> HIDE DEF t
<1>4. Puts(g_ready, t, g_ready')
  BY <1>1, <1>2, <1>3, ListsOfCInv, AddItemPuts DEF NoTaskDoubled
<1>5. QED BY <1>1, <1>2, <1>3, <1>4 DEF Stamp

\* The first loop of pingTasks advances the active task, which finishes,
\* moves to g_io or stays.
LEMMA PingActiveMoves ==
  CInv /\ PingActive =>
    /\ pc = "pingActive" /\ i = 0
    /\ \E t \in Tasks, now \in Nat :
         /\ InList(t, g_active) /\ g_active[1] = t /\ Len(g_active) = 1
         /\ ~InList(t, g_ready) /\ ~InList(t, g_io) /\ ~InList(t, g_input)
         /\ now <= currentTime[t] + 1
         /\ currentTime' = [currentTime EXCEPT ![t] = now]
         /\ \/ /\ IsFinished(table[t], now)
               /\ Takes(g_active, t, g_active') /\ Len(g_active') = 0
               /\ UNCHANGED <<g_io, i>>
               /\ since' = [since EXCEPT ![t] = g_currentTick]
            \/ /\ IsIoState(table[t], now)
               /\ Takes(g_active, t, g_active') /\ Len(g_active') = 0
               /\ Puts(g_io, t, g_io')
               /\ UNCHANGED i
               /\ since' = [since EXCEPT ![t] = g_currentTick]
            \/ i' = i + 1 /\ UNCHANGED <<g_active, g_io, since>>
    /\ UNCHANGED <<g_ready, g_input, g_q, g_currentTick, table, pc>>
<1> SUFFICES ASSUME CInv, PingActive
             PROVE  /\ i = 0
                    /\ \E t \in Tasks, now \in Nat :
                         /\ InList(t, g_active) /\ g_active[1] = t
                         /\ Len(g_active) = 1
                         /\ ~InList(t, g_ready) /\ ~InList(t, g_io)
                         /\ ~InList(t, g_input)
                         /\ now <= currentTime[t] + 1
                         /\ currentTime' = [currentTime EXCEPT ![t] = now]
                         /\ \/ /\ IsFinished(table[t], now)
                               /\ Takes(g_active, t, g_active')
                               /\ Len(g_active') = 0
                               /\ UNCHANGED <<g_io, i>>
                               /\ since' = [since EXCEPT ![t] = g_currentTick]
                            \/ /\ IsIoState(table[t], now)
                               /\ Takes(g_active, t, g_active')
                               /\ Len(g_active') = 0
                               /\ Puts(g_io, t, g_io')
                               /\ UNCHANGED i
                               /\ since' = [since EXCEPT ![t] = g_currentTick]
                            \/ i' = i + 1 /\ UNCHANGED <<g_active, g_io, since>>
  BY DEF PingActive
<1> DEFINE t   == GetItem(g_active, i)
           now == Tick(table[t], currentTime[t])
<1>1. /\ i < Len(g_active)
      /\ currentTime' = [currentTime EXCEPT ![t] = now]
  BY DEF PingActive
<1>2. i = 0 /\ Len(g_active) = 1
  <2>1. /\ i \in Nat /\ g_active \in Seq(Tasks)
        /\ Len(g_active) \in {0, 1}
    BY ListsOfCInv
  <2>2. i < Len(g_active)
    BY <1>1
  <2>3. Len(g_active) = 1
    BY <2>1, <2>2
  <2>4. QED BY <2>1, <2>2, <2>3
<1>3. t = Head(g_active) /\ t = g_active[1] /\ t \in Tasks
      /\ Takes(g_active, t, Pop(g_active)) /\ Len(Pop(g_active)) = 0
  <2>1. g_active \in Seq(Tasks) /\ NoDoubles(g_active)
    BY ListsOfCInv DEF NoTaskDoubled
  <2>2. /\ Head(g_active) = g_active[1] /\ Head(g_active) \in Tasks
        /\ Takes(g_active, Head(g_active), Pop(g_active))
        /\ KeepsOrder(g_active, Pop(g_active), TRUE)
    <3>1. Len(g_active) > 0
      BY <1>2
    <3>2. QED BY <2>1, <3>1, PopTakes, Zenon
  <2>3. t = g_active[1]
    BY <1>2 DEF GetItem
  <2>4. Len(Pop(g_active)) = 0
    BY <1>2, <2>2 DEF KeepsOrder
  <2>5. QED BY <2>2, <2>3, <2>4
<1>4. /\ InList(t, g_active) /\ ~InList(t, g_ready) /\ ~InList(t, g_io)
      /\ ~InList(t, g_input)
  BY <1>3, ListsOfCInv DEF NoTaskDoubled, Disjoint, Takes
<1>5. now \in Nat /\ now <= currentTime[t] + 1
  BY <1>3, ListsOfCInv DEF Tick
<1>6. CASE IsFinished(table[t], now)
  <2>1. g_active' = Pop(g_active) /\ Stamp(t) /\ UNCHANGED <<g_io, i>>
    BY <1>6 DEF PingActive
  <2> HIDE DEF t, now
  <2>2. QED BY <1>1, <1>2, <1>3, <1>4, <1>5, <1>6, <2>1 DEF Stamp
<1>7. CASE ~IsFinished(table[t], now) /\ IsIoState(table[t], now)
  <2>1. /\ g_active' = Pop(g_active) /\ g_io' = AddItem(g_io, t)
        /\ Stamp(t) /\ UNCHANGED i
    BY <1>7 DEF PingActive
  <2> HIDE DEF t, now
  <2>2. Puts(g_io, t, g_io')
    BY <1>3, <1>4, <2>1, ListsOfCInv, AddItemPuts DEF NoTaskDoubled
  <2>3. QED BY <1>1, <1>2, <1>3, <1>4, <1>5, <1>7, <2>1, <2>2 DEF Stamp
<1>8. CASE ~IsFinished(table[t], now) /\ ~IsIoState(table[t], now)
  <2>1. i' = i + 1 /\ UNCHANGED <<g_active, g_io, since>>
    BY <1>8 DEF PingActive
  <2> HIDE DEF t, now
  <2>2. QED BY <1>1, <1>2, <1>3, <1>4, <1>5, <2>1
<1>9. QED BY <1>6, <1>7, <1>8

\* The second loop of pingTasks advances a task of g_io, which stays or goes
\* back to g_ready, one step back in time.
LEMMA PingIoMoves ==
  CInv /\ ExtractsAtEnds /\ PingIo =>
    /\ pc = "pingIo" /\ i < Len(g_io) /\ i' = i + 1
    /\ \E t \in Tasks, now \in Nat :
         /\ InList(t, g_io) /\ g_io[i + 1] = t
         /\ ~InList(t, g_ready) /\ ~InList(t, g_active) /\ ~InList(t, g_input)
         /\ now <= currentTime[t] + 1
         /\ \/ /\ IsIoState(table[t], now)
               /\ now = Tick(table[t], currentTime[t])
               /\ currentTime' = [currentTime EXCEPT ![t] = now]
               /\ UNCHANGED <<g_io, g_ready, since>>
            \/ /\ Takes(g_io, t, g_io') /\ KeepsOrder(g_io, g_io', i = 0)
               /\ Puts(g_ready, t, g_ready')
               /\ currentTime' = [currentTime EXCEPT ![t] = now - 1]
               /\ since' = [since EXCEPT ![t] = g_currentTick]
    /\ UNCHANGED <<g_active, g_input, g_q, g_currentTick, table, pc>>
<1> SUFFICES ASSUME CInv, ExtractsAtEnds, PingIo
             PROVE  \E t \in Tasks, now \in Nat :
                      /\ InList(t, g_io) /\ g_io[i + 1] = t
                      /\ ~InList(t, g_ready) /\ ~InList(t, g_active)
                      /\ ~InList(t, g_input)
                      /\ now <= currentTime[t] + 1
                      /\ \/ /\ IsIoState(table[t], now)
                            /\ now = Tick(table[t], currentTime[t])
                            /\ currentTime' = [currentTime EXCEPT ![t] = now]
                            /\ UNCHANGED <<g_io, g_ready, since>>
                         \/ /\ Takes(g_io, t, g_io')
                            /\ KeepsOrder(g_io, g_io', i = 0)
                            /\ Puts(g_ready, t, g_ready')
                            /\ currentTime' = [currentTime EXCEPT ![t] = now - 1]
                            /\ since' = [since EXCEPT ![t] = g_currentTick]
  BY DEF PingIo
<1> DEFINE t   == GetItem(g_io, i)
           now == Tick(table[t], currentTime[t])
<1>1. i < Len(g_io) /\ pc = "pingIo"
  BY DEF PingIo
<1>2. t \in Tasks /\ InList(t, g_io) /\ t = g_io[i + 1]
  BY <1>1, ListsOfCInv, GetItemType, ItemInList DEF GetItem
<1>3. ~InList(t, g_ready) /\ ~InList(t, g_active) /\ ~InList(t, g_input)
  BY <1>2, ListsOfCInv DEF NoTaskDoubled, Disjoint
<1>4. now \in Nat /\ now <= currentTime[t] + 1
  BY <1>2, ListsOfCInv DEF Tick
<1>5. CASE IsIoState(table[t], now)
  <2>1. /\ currentTime' = [currentTime EXCEPT ![t] = now]
        /\ UNCHANGED <<g_io, g_ready, since>>
    BY <1>5 DEF PingIo
  <2>2. now = Tick(table[t], currentTime[t])
    OBVIOUS
  <2> HIDE DEF t, now
  <2>3. QED BY <1>2, <1>3, <1>4, <1>5, <2>1, <2>2
<1>6. CASE ~IsIoState(table[t], now)
  <2>1. /\ g_io' = Extract(g_io, i) /\ g_ready' = AddItem(g_ready, t)
        /\ currentTime' = [currentTime EXCEPT ![t] = now - 1]
        /\ Stamp(t)
    BY <1>6 DEF PingIo, BackInTime
  <2>2. AtEnd(g_io, i)
    BY <1>1, <1>6 DEF ExtractsAtEnds
  <2>3. Takes(g_io, t, g_io') /\ KeepsOrder(g_io, g_io', i = 0)
    BY <1>1, <2>1, <2>2, ListsOfCInv, ExtractTakes DEF NoTaskDoubled
  <2> HIDE DEF t, now
  <2>4. Puts(g_ready, t, g_ready')
    BY <1>2, <1>3, <2>1, ListsOfCInv, AddItemPuts DEF NoTaskDoubled
  <2>5. QED BY <1>2, <1>3, <1>4, <2>1, <2>3, <2>4 DEF Stamp
<1>7. QED BY <1>5, <1>6

\* The active task goes to the end of g_ready.
LEMMA LeaveCpuMoves ==
  CInv /\ LeaveCpu =>
    /\ pc = "leaveCpu" /\ pc' = "occupyCpu" /\ g_q' = Quant
    /\ \/ \E t \in Tasks :
            /\ Takes(g_active, t, g_active') /\ Len(g_active') = 0
            /\ Puts(g_ready, t, g_ready')
            /\ ~InList(t, g_io) /\ ~InList(t, g_input)
            /\ since' = [since EXCEPT ![t] = g_currentTick]
       \/ Len(g_active) = 0 /\ UNCHANGED <<g_active, g_ready, since>>
    /\ UNCHANGED <<g_io, g_input, g_currentTick, currentTime, table, i>>
<1> SUFFICES ASSUME CInv, LeaveCpu
             PROVE  \/ \E t \in Tasks :
                         /\ Takes(g_active, t, g_active')
                         /\ Len(g_active') = 0
                         /\ Puts(g_ready, t, g_ready')
                         /\ ~InList(t, g_io) /\ ~InList(t, g_input)
                         /\ since' = [since EXCEPT ![t] = g_currentTick]
                    \/ /\ Len(g_active) = 0
                       /\ UNCHANGED <<g_active, g_ready, since>>
  BY DEF LeaveCpu
<1>1. g_active' = Pop(g_active)
  BY DEF LeaveCpu
<1>2. CASE Len(g_active) = 1
  <2> DEFINE t == Head(g_active)
  <2>1. g_ready' = AddItem(g_ready, t) /\ Stamp(t)
    BY <1>2 DEF LeaveCpu
  <2>2. Len(g_active) > 0 /\ g_active \in Seq(Tasks) /\ NoDoubles(g_active)
    BY <1>2, ListsOfCInv DEF NoTaskDoubled
  <2>3. /\ t \in Tasks /\ Takes(g_active, t, Pop(g_active))
        /\ KeepsOrder(g_active, Pop(g_active), TRUE)
    BY <2>2, PopTakes
  <2>4. Len(g_active') = 0
    BY <1>1, <1>2, <2>3 DEF KeepsOrder
  <2>5. ~InList(t, g_ready) /\ ~InList(t, g_io) /\ ~InList(t, g_input)
    BY <2>3, ListsOfCInv DEF NoTaskDoubled, Disjoint, Takes
  <2> HIDE DEF t
  <2>6. Puts(g_ready, t, g_ready')
    BY <2>1, <2>3, <2>5, ListsOfCInv, AddItemPuts DEF NoTaskDoubled
  <2>7. QED BY <1>1, <2>1, <2>3, <2>4, <2>5, <2>6 DEF Stamp
<1>3. CASE Len(g_active) = 0
  <2>1. g_active' = g_active
    BY <1>1, <1>3, ListsOfCInv, PopType
  <2>2. UNCHANGED <<g_ready, since>>
    BY <1>3 DEF LeaveCpu
  <2>3. QED BY <1>3, <2>1, <2>2
<1>4. QED BY <1>2, <1>3, ListsOfCInv

\* The head of g_ready becomes the active task.
LEMMA OccupyCpuMoves ==
  CInv /\ OccupyCpu =>
    /\ pc = "occupyCpu" /\ pc' = "endOfTick" /\ Len(g_active) = 0
    /\ \/ \E t \in Tasks :
            /\ Takes(g_ready, t, g_ready') /\ KeepsOrder(g_ready, g_ready', TRUE)
            /\ Puts(g_active, t, g_active')
            /\ ~InList(t, g_io) /\ ~InList(t, g_input)
            /\ since' = [since EXCEPT ![t] = g_currentTick]
       \/ Len(g_ready) = 0 /\ UNCHANGED <<g_active, g_ready, since>>
    /\ UNCHANGED <<g_io, g_input, g_q, g_currentTick, currentTime, table, i>>
<1> SUFFICES ASSUME CInv, OccupyCpu
             PROVE  \/ \E t \in Tasks :
                         /\ Takes(g_ready, t, g_ready')
                         /\ KeepsOrder(g_ready, g_ready', TRUE)
                         /\ Puts(g_active, t, g_active')
                         /\ ~InList(t, g_io) /\ ~InList(t, g_input)
                         /\ since' = [since EXCEPT ![t] = g_currentTick]
                    \/ /\ Len(g_ready) = 0
                       /\ UNCHANGED <<g_active, g_ready, since>>
  BY DEF OccupyCpu, CInv, IInv
<1>1. g_ready' = Pop(g_ready)
  BY DEF OccupyCpu
<1>2. CASE Len(g_ready) > 0
  <2> DEFINE t == Head(g_ready)
  <2>1. g_active' = AddItem(g_active, t) /\ Stamp(t)
    BY <1>2 DEF OccupyCpu
  <2>2. g_ready \in Seq(Tasks) /\ NoDoubles(g_ready)
    BY ListsOfCInv DEF NoTaskDoubled
  <2>3. /\ t \in Tasks /\ Takes(g_ready, t, g_ready')
        /\ KeepsOrder(g_ready, g_ready', TRUE)
    BY <1>1, <1>2, <2>2, PopTakes
  <2>4. ~InList(t, g_active) /\ ~InList(t, g_io) /\ ~InList(t, g_input)
    BY <2>3, ListsOfCInv DEF NoTaskDoubled, Disjoint, Takes
  <2> HIDE DEF t
  <2>5. Puts(g_active, t, g_active')
    BY <2>1, <2>3, <2>4, ListsOfCInv, AddItemPuts DEF NoTaskDoubled
  <2>6. QED BY <2>1, <2>3, <2>4, <2>5 DEF Stamp
<1>3. CASE ~(Len(g_ready) > 0)
  <2>1. g_ready \in Seq(Tasks)
    BY ListsOfCInv
  <2>2. Len(g_ready) = 0
    BY <1>3, <2>1, LenProperties
  <2>3. g_ready' = g_ready
    BY <1>1, <2>1, <2>2, PopType
  <2>4. UNCHANGED <<g_active, since>>
    BY <1>3 DEF OccupyCpu
  <2>5. QED BY <2>2, <2>3, <2>4
<1>4. QED BY <1>2, <1>3

\* The steps that leave the lists alone.
QuietStep ==
  \/ Schedule \/ NotYetArrived \/ StartPing \/ StartPingIo \/ EndPing
  \/ JustWork \/ EndOfTick \/ Terminating \/ UNCHANGED vars

\* They change neither the tasks nor the history.
LEMMA QuietSteps ==
  QuietStep => UNCHANGED <<g_ready, g_active, g_io, g_input, currentTime,
                           table, since>>
BY DEF QuietStep, Schedule, NotYetArrived, StartPing, StartPingIo, EndPing,
       JustWork, EndOfTick, Terminating, vars, lists

\* Every step that extracts at an end only keeps every task in one place.
LEMMA NextConserved ==
  CInv /\ ExtractsAtEnds /\ [Next]_vars => NoTaskLostOrDoubled'
<1> SUFFICES ASSUME CInv, ExtractsAtEnds, [Next]_vars
             PROVE  NoTaskDoubled' /\ NoTaskLost'
  BY DEF NoTaskLostOrDoubled
<1>0. NoTaskDoubled /\ NoTaskLost /\ currentTime \in [Tasks -> Nat]
  BY ListsOfCInv
<1>1. CASE Admit
  <2>1. PICK t \in Tasks : /\ Takes(g_input, t, g_input')
                           /\ Puts(g_ready, t, g_ready')
                           /\ ~InList(t, g_active) /\ ~InList(t, g_io)
    BY <1>1, AdmitMoves
  <2>2. UNCHANGED <<g_active, g_io, currentTime, table>>
    BY <1>1, AdmitMoves
  <2>3. QED
    BY <1>0, <2>1, <2>2 DEF NoTaskDoubled, NoTaskLost, Disjoint, Takes, Puts
<1>2. CASE PingActive
  <2>1. PICK t \in Tasks, now \in Nat :
          /\ InList(t, g_active)
          /\ ~InList(t, g_ready) /\ ~InList(t, g_io) /\ ~InList(t, g_input)
          /\ currentTime' = [currentTime EXCEPT ![t] = now]
          /\ \/ /\ IsFinished(table[t], now)
                /\ Takes(g_active, t, g_active') /\ UNCHANGED g_io
             \/ Takes(g_active, t, g_active') /\ Puts(g_io, t, g_io')
             \/ UNCHANGED <<g_active, g_io>>
    BY <1>2, PingActiveMoves
  <2>2. UNCHANGED <<g_ready, g_input, table>>
    BY <1>2, PingActiveMoves
  <2>3. /\ currentTime'[t] = now
        /\ \A u \in Tasks : u # t => currentTime'[u] = currentTime[u]
    BY <1>0, <2>1
  <2>4. NoTaskDoubled'
    BY <1>0, <2>1, <2>2 DEF NoTaskDoubled, Disjoint, Takes, Puts
  <2>5. NoTaskLost'
    BY <1>0, <2>1, <2>2, <2>3 DEF NoTaskLost, Takes, Puts
  <2>6. QED BY <2>4, <2>5
<1>3. CASE PingIo
  <2>1. PICK t \in Tasks, now \in Nat :
          /\ InList(t, g_io)
          /\ ~InList(t, g_ready) /\ ~InList(t, g_active) /\ ~InList(t, g_input)
          /\ \/ /\ currentTime' = [currentTime EXCEPT ![t] = now]
                /\ UNCHANGED <<g_io, g_ready>>
             \/ /\ currentTime' = [currentTime EXCEPT ![t] = now - 1]
                /\ Takes(g_io, t, g_io') /\ Puts(g_ready, t, g_ready')
    BY <1>3, PingIoMoves
  <2>2. UNCHANGED <<g_active, g_input, table>>
    BY <1>3, PingIoMoves
  <2>3. \A u \in Tasks : u # t => currentTime'[u] = currentTime[u]
    BY <1>0, <2>1
  <2>4. NoTaskDoubled'
    BY <1>0, <2>1, <2>2 DEF NoTaskDoubled, Disjoint, Takes, Puts
  <2>5. NoTaskLost'
    BY <1>0, <2>1, <2>2, <2>3 DEF NoTaskLost, Takes, Puts
  <2>6. QED BY <2>4, <2>5
<1>4. CASE LeaveCpu
  <2>1. UNCHANGED <<g_io, g_input, currentTime, table>>
    BY <1>4, LeaveCpuMoves
  <2>2. CASE UNCHANGED <<g_active, g_ready>>
    BY <1>0, <2>1, <2>2 DEF NoTaskDoubled, NoTaskLost
  <2>3. ASSUME NEW t \in Tasks, Takes(g_active, t, g_active'),
               Puts(g_ready, t, g_ready'),
               ~InList(t, g_io), ~InList(t, g_input)
        PROVE  NoTaskDoubled' /\ NoTaskLost'
    BY <1>0, <2>1, <2>3 DEF NoTaskDoubled, NoTaskLost, Disjoint, Takes, Puts
  <2>4. QED BY <1>4, <2>2, <2>3, LeaveCpuMoves
<1>5. CASE OccupyCpu
  <2>1. UNCHANGED <<g_io, g_input, currentTime, table>>
    BY <1>5, OccupyCpuMoves
  <2>2. CASE UNCHANGED <<g_active, g_ready>>
    BY <1>0, <2>1, <2>2 DEF NoTaskDoubled, NoTaskLost
  <2>3. ASSUME NEW t \in Tasks, Takes(g_ready, t, g_ready'),
               Puts(g_active, t, g_active'),
               ~InList(t, g_io), ~InList(t, g_input)
        PROVE  NoTaskDoubled' /\ NoTaskLost'
    BY <1>0, <2>1, <2>3 DEF NoTaskDoubled, NoTaskLost, Disjoint, Takes, Puts
  <2>4. QED BY <1>5, <2>2, <2>3, OccupyCpuMoves
<1>6. CASE QuietStep
  BY <1>0, <1>6, QuietSteps DEF NoTaskDoubled, NoTaskLost
<1>7. QED
  BY <1>1, <1>2, <1>3, <1>4, <1>5, <1>6 DEF Next, QuietStep

\* With any number of tasks, no task is lost or doubled in a run that
\* extracts at the ends of g_input and g_io only.
THEOREM ConservedIfExtractsAtEnds ==
  Spec /\ []ExtractsAtEnds => []NoTaskLostOrDoubled
<1>1. Init => CInv
  BY InitIInv, InitConserved DEF CInv
<1>2. CInv /\ ExtractsAtEnds /\ [Next]_vars => CInv'
  BY NextIInv, NextConserved DEF CInv
<1>3. CInv => NoTaskLostOrDoubled
  BY DEF CInv
<1>4. QED BY <1>1, <1>2, <1>3, PTL DEF Spec

AtMostTwoTasks == \E a, b : Tasks = {a, b}

\* Two tasks fill at most two places of a list, which are both ends of it.
LEMMA TwoTasksAtEnds == AtMostTwoTasks /\ CInv => ExtractsAtEnds
<1> SUFFICES ASSUME AtMostTwoTasks, CInv PROVE ExtractsAtEnds
  OBVIOUS
<1>1. ASSUME NEW list \in Seq(Tasks), NoDoubles(list),
             NEW idx \in Nat, idx < Len(list)
      PROVE  AtEnd(list, idx)
  <2>1. PICK a, b : Tasks = {a, b}
    BY DEF AtMostTwoTasks
  <2>2. ASSUME Len(list) > 2
        PROVE  FALSE
    <3>1. /\ list[1] \in {a, b} /\ list[2] \in {a, b} /\ list[3] \in {a, b}
          /\ 1 \in 1 .. Len(list) /\ 2 \in 1 .. Len(list)
          /\ 3 \in 1 .. Len(list)
      BY <2>1, <2>2, LenProperties
    <3>2. list[1] # list[2] /\ list[1] # list[3] /\ list[2] # list[3]
      BY <1>1, <3>1 DEF NoDoubles
    <3>3. QED BY <3>1, <3>2
  <2>3. QED BY <1>1, <2>2, LenProperties DEF AtEnd
<1>2. /\ g_input \in Seq(Tasks) /\ NoDoubles(g_input)
      /\ g_io \in Seq(Tasks) /\ NoDoubles(g_io) /\ i \in Nat
  BY DEF CInv, IInv, TypeOK, NoTaskLostOrDoubled, NoTaskDoubled
<1>3. QED BY <1>1, <1>2 DEF ExtractsAtEnds

\* The two tasks that input() creates are never lost or doubled, whatever
\* their lengths, arrival times and bursts are.
THEOREM TwoTasksConserved == AtMostTwoTasks => (Spec => []NoTaskLostOrDoubled)
<1> SUFFICES ASSUME AtMostTwoTasks PROVE Spec => []NoTaskLostOrDoubled
  OBVIOUS
<1>1. Init => CInv
  BY InitIInv, InitConserved DEF CInv
<1>2. CInv /\ [Next]_vars => CInv'
  BY NextIInv, NextConserved, TwoTasksAtEnds DEF CInv
<1>3. CInv => NoTaskLostOrDoubled
  BY DEF CInv
<1>4. QED BY <1>1, <1>2, <1>3, PTL DEF Spec

-----------------------------------------------------------------------------
(***************************************************************************)
(* The clock.  QuantumAccounting, BoundedWait and NeverAheadOfClock speak  *)
(* of the end of a tick; the invariants below say what holds in the middle *)
(* of one.  They need every task to be in one list only, since a task that *)
(* is in two is stamped, or advanced, in the one on behalf of the other.   *)
(***************************************************************************)

\* The clock has ticked and schedule() has not yet counted the tick.
AfterTick == IF pc = "schedule" THEN 1 ELSE 0

\* What the active task has left of its quantum.
Remaining == IF Len(g_active) = 0 THEN 0 ELSE g_q

QuantumInv ==
  /\ pc = "occupyCpu" => g_q = Quant
  /\ pc # "done" =>
       \A t \in Tasks :
         InList(t, g_active) => g_currentTick - since[t] = Quant - g_q + AfterTick

\* The wait so far, a quantum for each task ahead and the rest of the
\* running one are together no more than a quantum for each other task.
WaitInv ==
  /\ pc = "schedule" /\ Len(g_ready) > 0 => Len(g_active) > 0
  /\ pc # "done" =>
       \A k \in 1 .. Len(g_ready) :
         g_currentTick - since[g_ready[k]] + (k - 1) * Quant + Remaining
           <= (Cardinality(Tasks) - 1) * Quant + AfterTick

\* pingTasks has not yet advanced the active task in this tick ...
BeforePing ==
  pc \in {"schedule", "checkInputQueue"} \/ (pc = "pingActive" /\ i = 0)

\* ... and it is past place k of g_io.
Pinged(k) ==
  pc \in {"leaveCpu", "occupyCpu", "endOfTick"} \/ (pc = "pingIo" /\ k <= i)

\* The ticks since the task has arrived.
Due(t) == g_currentTick - table[t].startTime

ClockInv ==
  pc # "done" =>
    /\ \A t \in Tasks :
         /\ InList(t, g_input) => currentTime[t] = 0
         /\ InList(t, g_ready) => currentTime[t] <= Due(t)
         /\ InList(t, g_active) =>
              currentTime[t] <= Due(t) - (IF BeforePing THEN 1 ELSE 0)
    /\ \A k \in 1 .. Len(g_io) :
         currentTime[g_io[k]] <= Due(g_io[k]) + (IF Pinged(k) THEN 1 ELSE 0)

TimeInv == QuantumInv /\ WaitInv /\ ClockInv

\* Nothing has happened at the start.
LEMMA InitTime == Init => TimeInv
<1> SUFFICES ASSUME Init PROVE TimeInv
  OBVIOUS
<1>1. \A t : ~InList(t, <<>>)
  BY DEF InList
<1>2. QED
  BY <1>1 DEF Init, TimeInv, QuantumInv, WaitInv, ClockInv

\* Every step keeps the account of the quantum.
LEMMA NextQuantum ==
  CInv /\ QuantumInv /\ ExtractsAtEnds /\ [Next]_vars => QuantumInv'
<1> SUFFICES ASSUME CInv, QuantumInv, ExtractsAtEnds, [Next]_vars
             PROVE  QuantumInv'
  OBVIOUS
<1> USE ClockAssumption
<1>0. /\ since \in [Tasks -> Nat] /\ g_currentTick \in Nat
      /\ g_q \in 0 .. Quant /\ NoTaskDoubled
  BY ListsOfCInv
<1>1. CASE Admit
  <2>1. PICK t \in Tasks : /\ ~InList(t, g_active)
                           /\ since' = [since EXCEPT ![t] = g_currentTick]
    BY <1>1, AdmitMoves
  <2>2. UNCHANGED <<g_active, g_q, g_currentTick, pc>>
    BY <1>1, AdmitMoves
  <2>3. QED BY <1>0, <2>1, <2>2 DEF QuantumInv, AfterTick
<1>2. CASE PingActive
  <2>1. PICK t \in Tasks :
          \/ Takes(g_active, t, g_active')
             /\ since' = [since EXCEPT ![t] = g_currentTick]
          \/ UNCHANGED <<g_active, since>>
    BY <1>2, PingActiveMoves
  <2>2. UNCHANGED <<g_q, g_currentTick, pc>>
    BY <1>2, PingActiveMoves
  <2>3. QED BY <1>0, <2>1, <2>2 DEF QuantumInv, AfterTick, Takes
<1>3. CASE PingIo
  <2>1. PICK t \in Tasks : /\ ~InList(t, g_active)
                           /\ \/ since' = [since EXCEPT ![t] = g_currentTick]
                              \/ UNCHANGED since
    BY <1>3, PingIoMoves
  <2>2. UNCHANGED <<g_active, g_q, g_currentTick, pc>>
    BY <1>3, PingIoMoves
  <2>3. QED BY <1>0, <2>1, <2>2 DEF QuantumInv, AfterTick
<1>4. CASE LeaveCpu
  <2>1. Len(g_active') = 0 /\ g_q' = Quant
    BY <1>4, LeaveCpuMoves
  <2>2. \A t : ~InList(t, g_active')
    BY <2>1 DEF InList
  <2>3. QED BY <2>1, <2>2 DEF QuantumInv
<1>5. CASE OccupyCpu
  <2>1. /\ pc = "occupyCpu" /\ pc' = "endOfTick" /\ Len(g_active) = 0
        /\ UNCHANGED <<g_q, g_currentTick>>
    BY <1>5, OccupyCpuMoves
  <2>2. g_q = Quant /\ \A t : ~InList(t, g_active)
    BY <2>1 DEF QuantumInv, InList
  <2>3. \/ \E t \in Tasks : /\ Puts(g_active, t, g_active')
                            /\ since' = [since EXCEPT ![t] = g_currentTick]
        \/ UNCHANGED g_active
    BY <1>5, OccupyCpuMoves
  <2>4. CASE UNCHANGED g_active
    BY <2>1, <2>2, <2>4 DEF QuantumInv
  <2>5. ASSUME NEW t \in Tasks, Puts(g_active, t, g_active'),
               since' = [since EXCEPT ![t] = g_currentTick]
        PROVE  QuantumInv'
    BY <1>0, <2>1, <2>2, <2>5 DEF QuantumInv, AfterTick, Puts
  <2>6. QED BY <2>3, <2>4, <2>5
<1>6. CASE Schedule
  <2>1. /\ pc = "schedule" /\ pc' = "checkInputQueue" /\ g_q' = g_q - 1
        /\ UNCHANGED <<g_active, g_currentTick, since>>
    BY <1>6 DEF Schedule, lists
  <2>2. QED BY <1>0, <2>1 DEF QuantumInv, AfterTick
<1>7. CASE EndOfTick
  <2>1. /\ pc = "endOfTick" /\ pc' \in {"done", "schedule"}
        /\ g_currentTick' = g_currentTick + 1
        /\ UNCHANGED <<g_active, g_q, since>>
    BY <1>7 DEF EndOfTick, lists
  <2>2. QED BY <1>0, <2>1 DEF QuantumInv, AfterTick
<1>8. CASE \/ NotYetArrived \/ StartPing \/ StartPingIo \/ EndPing
           \/ JustWork \/ Terminating \/ UNCHANGED vars
  <2>1. /\ UNCHANGED <<g_active, g_q, g_currentTick, since>>
        /\ \/ UNCHANGED pc
           \/ pc \notin {"schedule", "done"}
              /\ pc' \notin {"schedule", "occupyCpu", "done"}
    BY <1>8 DEF NotYetArrived, StartPing, StartPingIo, EndPing, JustWork,
                Terminating, vars, lists
  <2>2. QED BY <2>1 DEF QuantumInv, AfterTick
<1>9. QED
  BY <1>1, <1>2, <1>3, <1>4, <1>5, <1>6, <1>7, <1>8 DEF Next

\* A larger number of quanta is more time.
LEMMA QuantaOrder ==
  ASSUME NEW a \in Int, NEW b \in Int, a <= b
  PROVE  /\ a * Quant \in Int /\ b * Quant \in Int
         /\ a * Quant <= b * Quant
         /\ (a + 1) * Quant = a * Quant + Quant
<1>1. PICK c \in Nat : b = a + c
  <2>1. b - a \in Nat /\ b = a + (b - a)
    OBVIOUS
  <2>2. QED BY <2>1
<1>2. Quant \in Nat /\ c * Quant \in Nat
  BY ClockAssumption
<1>3. b * Quant = a * Quant + c * Quant
  BY <1>1, <1>2
<1>4. QED BY <1>1, <1>2, <1>3

\* A task that is put at the end of g_ready waits for the tasks that are
\* ahead of it and for the active one, which are other tasks than it.
LEMMA PutWaits ==
  ASSUME CInv, WaitInv, NEW t \in Tasks, Puts(g_ready, t, g_ready'),
         since' = [since EXCEPT ![t] = g_currentTick],
         g_currentTick' = g_currentTick,
         pc \notin {"schedule", "done"}, pc' \notin {"schedule", "done"},
         \/ Remaining' = 0
         \/ ~InList(t, g_active) /\ UNCHANGED <<g_active, g_q>>
  PROVE  WaitInv'
<1> DEFINE n == Len(g_ready)
           N == Cardinality(Tasks)
<1>1. /\ g_ready \in Seq(Tasks) /\ NoDoubles(g_ready) /\ n \in Nat
      /\ since \in [Tasks -> Nat] /\ g_currentTick \in Nat
      /\ g_q \in 0 .. Quant /\ Quant \in Nat /\ N \in Nat
      /\ Remaining \in 0 .. Quant
  BY ListsOfCInv, LenProperties, ClockAssumption, TasksFit
     DEF NoTaskDoubled, Remaining
<1>2. /\ Len(g_ready') = n + 1 /\ g_ready'[n + 1] = t /\ n + 1 <= N
      /\ \A k \in 1 .. n : g_ready'[k] = g_ready[k]
  BY DEF Puts
<1>3. /\ Remaining' \in 0 .. Quant /\ Remaining' <= Remaining
      /\ Remaining' > 0 => n + 2 <= N
  <2>1. CASE Remaining' = 0
    BY <1>1, <2>1
  <2>2. CASE ~InList(t, g_active) /\ UNCHANGED <<g_active, g_q>>
    <3>1. Remaining' = Remaining
      BY <2>2 DEF Remaining
    <3>2. ASSUME Remaining > 0
          PROVE  n + 2 <= N
      <4>1. Len(g_active) = 1 /\ g_active \in Seq(Tasks)
        BY <3>2, ListsOfCInv DEF Remaining
      <4>2. PICK a \in Tasks : g_active[1] = a
        BY <4>1
      <4>3. InList(a, g_active)
        BY <4>1, <4>2 DEF InList
      <4>4. a # t /\ ~InList(a, g_ready) /\ ~InList(t, g_ready)
        BY <2>2, <4>3, ListsOfCInv DEF NoTaskDoubled, Disjoint, Puts
      <4>5. QED BY <1>1, <4>4, ListHasRoomForTwo
    <3>3. QED BY <1>1, <3>1, <3>2
  <2>3. QED BY <2>1, <2>2
<1> HIDE DEF n, N
<1>4. n * Quant + Remaining' <= (N - 1) * Quant
  <2>1. CASE Remaining' = 0
    <3>1. n <= N - 1 /\ n \in Int /\ N - 1 \in Int
      BY <1>1, <1>2
    <3>2. n * Quant <= (N - 1) * Quant /\ n * Quant \in Int
      BY <3>1, QuantaOrder, Zenon
    <3>3. QED BY <1>1, <2>1, <3>2
  <2>2. CASE Remaining' > 0
    <3>1. /\ n + 1 <= N - 1 /\ n <= n
          /\ n \in Int /\ n + 1 \in Int /\ N - 1 \in Int
      BY <1>1, <1>3, <2>2
    <3>2. (n + 1) * Quant <= (N - 1) * Quant /\ (n + 1) * Quant \in Int
          /\ (N - 1) * Quant \in Int
      BY <3>1, QuantaOrder, Zenon
    <3>3. (n + 1) * Quant = n * Quant + Quant /\ n * Quant \in Int
      BY <3>1, QuantaOrder, Zenon
    <3>4. PICK x \in Int, z \in Int :
            x = n * Quant /\ z = (N - 1) * Quant
      BY <3>2, <3>3
    <3>5. x + Quant <= z
      BY <3>2, <3>3, <3>4
    <3>6. PICK r \in 0 .. Quant : r = Remaining'
      BY <1>3
    <3>7. x \in Int /\ z \in Int /\ r \in Int /\ Quant \in Int /\ r <= Quant
      BY <1>1, <3>4, <3>6
    <3>8. x + r <= z
      BY <3>5, <3>7
    <3>9. QED BY <3>4, <3>6, <3>8
  <2>3. QED BY <1>3, <2>1, <2>2
<1>5. ASSUME NEW k \in 1 .. n + 1
      PROVE  g_currentTick - since'[g_ready'[k]] + (k - 1) * Quant + Remaining'
               <= (N - 1) * Quant
  <2>1. CASE k = n + 1
    <3>1. since'[g_ready'[k]] = g_currentTick
      BY <1>1, <1>2, <2>1
    <3>2. (k - 1) * Quant = n * Quant
      BY <1>1, <2>1
    <3>3. PICK x \in Int, z \in Int :
            x = n * Quant /\ z = (N - 1) * Quant
      BY <1>1
    <3>4. g_currentTick - since'[g_ready'[k]] = 0
      BY <1>1, <3>1
    <3>5. 0 + x + Remaining' <= z
      BY <1>3, <1>4, <3>3
    <3>6. QED BY <3>2, <3>3, <3>4, <3>5
  <2>2. CASE k \in 1 .. n
    <3>1. g_ready'[k] = g_ready[k] /\ g_ready[k] \in Tasks /\ g_ready[k] # t
      BY <1>1, <1>2, <2>2 DEF Puts, InList
    <3>2. since'[g_ready'[k]] = since[g_ready[k]]
      BY <1>1, <3>1
    <3>3. g_currentTick - since[g_ready[k]] + (k - 1) * Quant + Remaining
            <= (N - 1) * Quant
      <4>1. (N - 1) * Quant + AfterTick = (N - 1) * Quant
        BY <1>1 DEF AfterTick
      <4>2. QED BY <2>2, <4>1 DEF WaitInv, n, N
    <3>4. PICK q \in Int, b \in Int :
            q = (k - 1) * Quant /\ b = (N - 1) * Quant
      BY <1>1
    <3>5. since[g_ready[k]] \in Nat
      BY <1>1, <3>1
    <3>6. g_currentTick - since[g_ready[k]] + q + Remaining' <= b
      BY <1>1, <1>3, <3>3, <3>4, <3>5
    <3>7. QED BY <3>2, <3>4, <3>6
  <2>3. QED BY <1>1, <2>1, <2>2
<1>6. (N - 1) * Quant + AfterTick' = (N - 1) * Quant
  BY <1>1 DEF AfterTick
<1>7. QED BY <1>2, <1>5, <1>6 DEF WaitInv, n, N

\* Every step keeps the bound on the wait.
LEMMA NextWait ==
  CInv /\ WaitInv /\ ExtractsAtEnds /\ [Next]_vars => WaitInv'
<1> SUFFICES ASSUME CInv, WaitInv, ExtractsAtEnds, [Next]_vars
             PROVE  WaitInv'
  OBVIOUS
<1> DEFINE N == Cardinality(Tasks)
<1>0. /\ g_ready \in Seq(Tasks) /\ Len(g_ready) \in Nat
      /\ since \in [Tasks -> Nat] /\ g_currentTick \in Nat
      /\ g_q \in 0 .. Quant /\ Quant \in Nat /\ N \in Nat
      /\ Remaining \in 0 .. Quant /\ (N - 1) * Quant \in Int
      /\ \A k \in 1 .. Len(g_ready) :
           /\ g_ready[k] \in Tasks /\ since[g_ready[k]] \in Nat
           /\ k \in Int /\ (k - 1) * Quant \in Int
  <2>1. /\ g_ready \in Seq(Tasks) /\ Len(g_ready) \in Nat
        /\ since \in [Tasks -> Nat] /\ g_currentTick \in Nat
        /\ g_q \in 0 .. Quant /\ Quant \in Nat /\ N \in Nat
        /\ Remaining \in 0 .. Quant
    BY ListsOfCInv, LenProperties, ClockAssumption, TasksFit DEF Remaining
  <2>2. (N - 1) * Quant \in Int
    BY <2>1
  <2>3. QED BY <2>1, <2>2
<1> HIDE DEF N
\* A step that moves no task into or within g_ready shortens every wait or
\* leaves it as it is.
<1>1. ASSUME UNCHANGED g_ready,
             pc # "done", pc' # "done",
             \A k \in 1 .. Len(g_ready) : since'[g_ready[k]] = since[g_ready[k]],
             Remaining' \in Int, g_currentTick' \in Int,
             Len(g_ready) > 0 =>
               g_currentTick' + Remaining' - AfterTick'
                 <= g_currentTick + Remaining - AfterTick,
             pc' = "schedule" /\ Len(g_ready) > 0 => Len(g_active') > 0
      PROVE  WaitInv'
  <2>1. ASSUME NEW k \in 1 .. Len(g_ready)
        PROVE  g_currentTick' - since'[g_ready'[k]] + (k - 1) * Quant + Remaining'
                 <= (N - 1) * Quant + AfterTick'
    <3>1. g_currentTick - since[g_ready[k]] + (k - 1) * Quant + Remaining
            <= (N - 1) * Quant + AfterTick
      BY <1>1 DEF WaitInv, N
    <3>2. PICK q \in Int, b \in Int, s \in Int :
            /\ q = (k - 1) * Quant /\ b = (N - 1) * Quant
            /\ s = since[g_ready[k]]
      BY <1>0
    <3>3. PICK a1 \in Int, a2 \in Int : a1 = AfterTick /\ a2 = AfterTick'
      BY DEF AfterTick
    <3>4. PICK r1 \in Int, r2 \in Int : r1 = Remaining /\ r2 = Remaining'
      BY <1>0, <1>1
    <3>5. PICK c1 \in Int, c2 \in Int :
            c1 = g_currentTick /\ c2 = g_currentTick'
      BY <1>0, <1>1
    <3>6. c2 + r2 - a2 <= c1 + r1 - a1
      <4>1. Len(g_ready) > 0
        BY <1>0
      <4>2. QED BY <1>1, <3>3, <3>4, <3>5, <4>1
    <3>7. c1 - s + q + r1 <= b + a1
      BY <3>1, <3>2, <3>3, <3>4, <3>5
    <3>8. c2 - s + q + r2 <= b + a2
      <4>1. /\ q \in Int /\ b \in Int /\ s \in Int /\ a1 \in Int /\ a2 \in Int
            /\ r1 \in Int /\ r2 \in Int /\ c1 \in Int /\ c2 \in Int
        BY <3>2, <3>3, <3>4, <3>5
      <4>2. QED BY <3>6, <3>7, <4>1
    <3>9. since'[g_ready'[k]] = s
      BY <1>1, <3>2
    <3>10. QED BY <3>2, <3>3, <3>4, <3>5, <3>8, <3>9
  <2>2. QED BY <1>1, <2>1 DEF WaitInv, N
<1>2. CASE Admit
  <2>1. PICK t \in Tasks : /\ Puts(g_ready, t, g_ready') /\ ~InList(t, g_active)
                           /\ since' = [since EXCEPT ![t] = g_currentTick]
    BY <1>2, AdmitMoves
  <2>2. /\ pc = "checkInputQueue"
        /\ UNCHANGED <<g_active, g_q, g_currentTick, pc>>
    BY <1>2, AdmitMoves
  <2>3. QED BY <2>1, <2>2, PutWaits
<1>3. CASE PingActive
  <2>1. PICK t \in Tasks :
          /\ ~InList(t, g_ready)
          /\ \/ /\ Len(g_active') = 0
                /\ since' = [since EXCEPT ![t] = g_currentTick]
             \/ UNCHANGED <<g_active, since>>
    BY <1>3, PingActiveMoves
  <2>2. /\ pc = "pingActive"
        /\ UNCHANGED <<g_ready, g_q, g_currentTick, pc>>
    BY <1>3, PingActiveMoves
  <2>3. \A k \in 1 .. Len(g_ready) : since'[g_ready[k]] = since[g_ready[k]]
    BY <1>0, <2>1 DEF InList
  <2>4. Remaining' \in Int /\ Remaining' <= Remaining
    BY <1>0, <2>1, <2>2 DEF Remaining
  <2>5. PICK a \in Int : a = AfterTick /\ a = AfterTick'
    BY <2>2 DEF AfterTick
  <2>6. g_currentTick' + Remaining' - AfterTick'
          <= g_currentTick + Remaining - AfterTick
    <3>1. PICK c \in Int, r1 \in Int, r2 \in Int :
            c = g_currentTick /\ r1 = Remaining /\ r2 = Remaining'
      BY <1>0, <2>4
    <3>2. r2 <= r1
      BY <2>4, <3>1
    <3>3. c + r2 - a <= c + r1 - a
      <4>1. c \in Int /\ r1 \in Int /\ r2 \in Int /\ a \in Int
        BY <2>5, <3>1
      <4>2. QED BY <3>2, <4>1
    <3>4. QED BY <2>2, <2>5, <3>1, <3>3
  <2>7. QED BY <1>0, <1>1, <2>2, <2>3, <2>4, <2>6
<1>4. CASE PingIo
  <2>1. PICK t \in Tasks :
          /\ ~InList(t, g_active)
          /\ \/ UNCHANGED <<g_ready, since>>
             \/ /\ Puts(g_ready, t, g_ready')
                /\ since' = [since EXCEPT ![t] = g_currentTick]
    BY <1>4, PingIoMoves
  <2>2. pc = "pingIo" /\ UNCHANGED <<g_active, g_q, g_currentTick, pc>>
    BY <1>4, PingIoMoves
  <2>3. CASE UNCHANGED <<g_ready, since>>
    BY <2>2, <2>3 DEF WaitInv, Remaining, AfterTick
  <2>4. CASE ~UNCHANGED <<g_ready, since>>
    BY <2>1, <2>2, <2>4, PutWaits
  <2>5. QED BY <2>3, <2>4
<1>5. CASE LeaveCpu
  <2>1. /\ pc = "leaveCpu" /\ pc' = "occupyCpu"
        /\ UNCHANGED g_currentTick
    BY <1>5, LeaveCpuMoves
  <2>2. CASE Len(g_active) = 0 /\ UNCHANGED <<g_active, g_ready, since>>
    <3>1. Remaining = 0 /\ Remaining' = 0
      BY <2>2 DEF Remaining
    <3>2. QED BY <2>1, <2>2, <3>1 DEF WaitInv, AfterTick
  <2>3. ASSUME NEW t \in Tasks, Len(g_active') = 0,
               Puts(g_ready, t, g_ready'),
               since' = [since EXCEPT ![t] = g_currentTick]
        PROVE  WaitInv'
    <3>1. Remaining' = 0
      BY <2>3 DEF Remaining
    <3>2. QED BY <2>1, <2>3, <3>1, PutWaits
  <2>4. QED BY <1>5, <2>2, <2>3, LeaveCpuMoves
<1>6. CASE OccupyCpu
  <2>1. /\ pc = "occupyCpu" /\ pc' = "endOfTick" /\ Len(g_active) = 0
        /\ UNCHANGED <<g_q, g_currentTick>>
    BY <1>6, OccupyCpuMoves
  <2>2. CASE Len(g_ready) = 0 /\ UNCHANGED g_ready
    BY <2>1, <2>2 DEF WaitInv
  <2>3. ASSUME NEW t \in Tasks, Takes(g_ready, t, g_ready'),
               KeepsOrder(g_ready, g_ready', TRUE),
               since' = [since EXCEPT ![t] = g_currentTick]
        PROVE  WaitInv'
    <3>1. Remaining = 0 /\ Remaining' \in 0 .. Quant
      BY <1>0, <2>1 DEF Remaining
    <3>2. AfterTick = 0 /\ AfterTick' = 0
      BY <2>1 DEF AfterTick
    <3>3. ASSUME NEW k \in 1 .. Len(g_ready')
          PROVE  g_currentTick - since'[g_ready'[k]] + (k - 1) * Quant + Remaining'
                   <= (N - 1) * Quant
      <4>1. /\ k \in Int /\ k + 1 \in 1 .. Len(g_ready)
            /\ g_ready'[k] = g_ready[k + 1]
        BY <1>0, <2>3 DEF KeepsOrder
      <4>2. g_ready'[k] # t
        <5>1. g_ready'[k] \in Tasks /\ InList(g_ready'[k], g_ready')
          BY <1>0, <4>1 DEF InList
        <5>2. QED BY <2>3, <5>1 DEF Takes
      <4>3. since'[g_ready'[k]] = since[g_ready[k + 1]]
        BY <1>0, <2>3, <4>1, <4>2
      <4>4. g_currentTick - since[g_ready[k + 1]] + ((k + 1) - 1) * Quant
              + Remaining <= (N - 1) * Quant + AfterTick
        BY <2>1, <4>1 DEF WaitInv, N
      <4>5. (k + 1) - 1 = (k - 1) + 1 /\ k - 1 \in Int /\ k - 1 <= k - 1
        BY <4>1
      <4>6. ((k - 1) + 1) * Quant = (k - 1) * Quant + Quant
        BY <4>5, QuantaOrder, Zenon
      <4>7. ((k + 1) - 1) * Quant = (k - 1) * Quant + Quant
        BY <4>5, <4>6
      <4>8. PICK q \in Int, b \in Int, s \in Int :
              /\ q = (k - 1) * Quant /\ b = (N - 1) * Quant
              /\ s = since[g_ready[k + 1]]
        BY <1>0, <4>1
      <4>9. g_currentTick - s + (q + Quant) + 0 <= b + 0
        BY <3>1, <3>2, <4>4, <4>7, <4>8
      <4>10. PICK r \in 0 .. Quant : r = Remaining'
        BY <3>1
      <4>11. /\ g_currentTick \in Int /\ s \in Int /\ q \in Int /\ b \in Int
             /\ r \in Int /\ Quant \in Int /\ r <= Quant
        BY <1>0, <4>8, <4>10
      <4>12. g_currentTick - s + q + r <= b
        BY <4>9, <4>11
      <4>13. QED BY <4>3, <4>8, <4>10, <4>12
    <3>4. (N - 1) * Quant + AfterTick' = (N - 1) * Quant
      BY <1>0, <3>2
    <3>5. QED BY <2>1, <3>3, <3>4 DEF WaitInv, N
  <2>4. QED BY <1>6, <2>2, <2>3, OccupyCpuMoves
<1>7. CASE Schedule
  <2>1. /\ pc = "schedule" /\ pc' = "checkInputQueue" /\ g_q' = g_q - 1
        /\ UNCHANGED <<g_ready, g_active, g_currentTick, since>>
    BY <1>7 DEF Schedule, lists
  <2>2. AfterTick = 1 /\ AfterTick' = 0
    BY <2>1 DEF AfterTick
  <2>3. Remaining' \in Int
    BY <1>0, <2>1 DEF Remaining
  <2>4. ASSUME Len(g_ready) > 0
        PROVE  g_currentTick' + Remaining' - AfterTick'
                 <= g_currentTick + Remaining - AfterTick
    <3>1. Len(g_active) = 1
      BY <2>1, <2>4, ListsOfCInv DEF WaitInv
    <3>2. Remaining' = Remaining - 1
      BY <2>1, <3>1 DEF Remaining
    <3>3. QED BY <1>0, <2>1, <2>2, <3>2
  <2>5. QED BY <1>0, <1>1, <2>1, <2>3, <2>4
<1>8. CASE EndOfTick
  <2>1. /\ pc = "endOfTick" /\ pc' \in {"done", "schedule"}
        /\ g_currentTick' = g_currentTick + 1
        /\ UNCHANGED <<g_ready, g_active, g_q, since>>
    BY <1>8 DEF EndOfTick, lists
  <2>2. CASE pc' = "done"
    BY <2>2 DEF WaitInv
  <2>3. CASE pc' = "schedule"
    <3>1. AfterTick = 0 /\ AfterTick' = 1
      BY <2>1, <2>3 DEF AfterTick
    <3>2. Remaining' = Remaining
      BY <2>1 DEF Remaining
    <3>3. Len(g_ready) > 0 => Len(g_active) > 0
      BY <2>1 DEF CInv, IInv, WorkConserving
    <3>4. g_currentTick' + Remaining' - AfterTick'
            <= g_currentTick + Remaining - AfterTick
      BY <1>0, <2>1, <3>1, <3>2
    <3>5. QED BY <1>0, <1>1, <2>1, <2>3, <3>2, <3>3, <3>4
  <2>4. QED BY <2>1, <2>2, <2>3
<1>9. CASE \/ NotYetArrived \/ StartPing \/ StartPingIo \/ EndPing
           \/ JustWork \/ Terminating \/ UNCHANGED vars
  <2>1. /\ UNCHANGED <<g_ready, g_active, g_q, g_currentTick, since>>
        /\ \/ UNCHANGED pc
           \/ pc \notin {"schedule", "done"} /\ pc' \notin {"schedule", "done"}
    BY <1>9 DEF NotYetArrived, StartPing, StartPingIo, EndPing, JustWork,
                Terminating, vars, lists
  <2>2. QED BY <2>1 DEF WaitInv, Remaining, AfterTick
<1>10. QED
  BY <1>2, <1>3, <1>4, <1>5, <1>6, <1>7, <1>8, <1>9 DEF Next

\* Every step keeps the tasks behind the clock.
LEMMA NextClock ==
  CInv /\ ClockInv /\ ExtractsAtEnds /\ [Next]_vars => ClockInv'
<1> SUFFICES ASSUME CInv, ClockInv, ExtractsAtEnds, [Next]_vars
             PROVE  ClockInv'
  OBVIOUS
<1>0. /\ NoTaskDoubled /\ currentTime \in [Tasks -> Nat]
      /\ g_currentTick \in Nat /\ i \in Nat
      /\ g_io \in Seq(Tasks) /\ Len(g_io) \in Nat
      /\ \A k \in 1 .. Len(g_io) : g_io[k] \in Tasks /\ InList(g_io[k], g_io)
      /\ \A u \in Tasks : table[u].startTime \in Nat /\ Due(u) \in Int
  <2>1. /\ NoTaskDoubled /\ currentTime \in [Tasks -> Nat]
        /\ g_currentTick \in Nat /\ i \in Nat
        /\ g_io \in Seq(Tasks) /\ Len(g_io) \in Nat
        /\ table \in [Tasks -> Descriptor]
    BY ListsOfCInv, LenProperties
  <2>2. \A u \in Tasks : table[u].startTime \in Nat
    BY <2>1 DEF Descriptor
  <2>3. \A u \in Tasks : Due(u) \in Int
    BY <2>1, <2>2 DEF Due
  <2>4. QED BY <2>1, <2>2, <2>3 DEF InList
<1>1. CASE Admit
  <2>1. PICK t \in Tasks : /\ Takes(g_input, t, g_input')
                           /\ Puts(g_ready, t, g_ready')
                           /\ table[t].startTime <= g_currentTick
    BY <1>1, AdmitMoves
  <2>2. /\ pc = "checkInputQueue"
        /\ UNCHANGED <<g_active, g_io, g_currentTick, currentTime, table,
                       pc, i>>
    BY <1>1, AdmitMoves
  <2>3. currentTime[t] = 0 /\ 0 <= Due(t)
    BY <1>0, <2>1, <2>2 DEF ClockInv, Takes, Due
  <2>4. QED
    BY <1>0, <2>1, <2>2, <2>3
       DEF ClockInv, Takes, Puts, Due, BeforePing, Pinged
<1>2. CASE PingActive
  <2>1. PICK t \in Tasks, now \in Nat :
          /\ InList(t, g_active)
          /\ ~InList(t, g_ready) /\ ~InList(t, g_io) /\ ~InList(t, g_input)
          /\ now <= currentTime[t] + 1
          /\ currentTime' = [currentTime EXCEPT ![t] = now]
          /\ \/ Takes(g_active, t, g_active') /\ UNCHANGED <<g_io, i>>
             \/ /\ Takes(g_active, t, g_active') /\ Puts(g_io, t, g_io')
                /\ UNCHANGED i
             \/ i' = i + 1 /\ UNCHANGED <<g_active, g_io>>
    BY <1>2, PingActiveMoves
  <2>2. /\ pc = "pingActive" /\ i = 0
        /\ UNCHANGED <<g_ready, g_input, g_currentTick, table, pc>>
    BY <1>2, PingActiveMoves
  <2>3. currentTime[t] <= Due(t) - 1
    BY <2>1, <2>2 DEF ClockInv, BeforePing
  <2>4. now <= Due(t) /\ currentTime'[t] = now
        /\ \A u \in Tasks : u # t => currentTime'[u] = currentTime[u]
    <3>1. currentTime[t] \in Nat /\ Due(t) \in Int
      BY <1>0
    <3>2. now <= Due(t)
      BY <2>1, <2>3, <3>1
    <3>3. QED BY <1>0, <2>1, <3>2
  <2>5. \A u : Due(u)' = Due(u)
    BY <2>2 DEF Due
  <2>6. ASSUME NEW u \in Tasks
        PROVE  /\ InList(u, g_input') => currentTime'[u] = 0
               /\ InList(u, g_ready') => currentTime'[u] <= Due(u)
               /\ InList(u, g_active') =>
                    currentTime'[u] <= Due(u) - (IF BeforePing' THEN 1 ELSE 0)
    <3>1. CASE u = t
      <4>1. InList(u, g_active') => ~BeforePing'
        BY <2>1, <2>2, <3>1 DEF Takes, BeforePing
      <4>2. currentTime'[u] <= Due(u) - 0
        BY <1>0, <2>4, <3>1
      <4>3. QED BY <2>1, <2>2, <2>4, <3>1, <4>1, <4>2
    <3>2. CASE u # t
      <4>1. /\ InList(u, g_input) => currentTime[u] = 0
            /\ InList(u, g_ready) => currentTime[u] <= Due(u)
            /\ InList(u, g_active) => currentTime[u] <= Due(u) - 1
        BY <2>2 DEF ClockInv, BeforePing
      <4>2. InList(u, g_active') => InList(u, g_active)
        BY <2>1 DEF Takes
      <4>3. currentTime[u] <= Due(u) - 1 => currentTime[u] <= Due(u) - 0
        <5>1. currentTime[u] \in Nat /\ Due(u) \in Int
          BY <1>0
        <5>2. QED BY <5>1
      <4>4. QED BY <2>2, <2>4, <3>2, <4>1, <4>2, <4>3
    <3>3. QED BY <3>1, <3>2
  <2>7. ASSUME NEW k \in 1 .. Len(g_io')
        PROVE  currentTime'[g_io'[k]] <= Due(g_io'[k]) + 0
    <3>1. \/ k \in 1 .. Len(g_io) /\ g_io'[k] = g_io[k]
          \/ g_io'[k] = t
      <4>1. CASE UNCHANGED g_io
        BY <4>1
      <4>2. CASE Puts(g_io, t, g_io')
        <5>1. k \in 1 .. Len(g_io) \/ k = Len(g_io) + 1
          BY <1>0, <4>2 DEF Puts
        <5>2. QED BY <4>2, <5>1 DEF Puts
      <4>3. QED BY <2>1, <4>1, <4>2
    <3>2. CASE k \in 1 .. Len(g_io) /\ g_io'[k] = g_io[k]
      <4>1. currentTime[g_io[k]] <= Due(g_io[k]) + 0
        BY <2>2, <3>2 DEF ClockInv, Pinged
      <4>2. g_io[k] # t /\ g_io[k] \in Tasks
        BY <1>0, <2>1, <3>2
      <4>3. QED BY <2>4, <3>2, <4>1, <4>2
    <3>3. CASE g_io'[k] = t
      BY <1>0, <2>4, <3>3
    <3>4. QED BY <3>1, <3>2, <3>3
  <2>8. \A k : ~Pinged(k)'
    BY <2>2 DEF Pinged
  <2>9. QED BY <2>2, <2>5, <2>6, <2>7, <2>8 DEF ClockInv
<1>3. CASE PingIo
  <2>1. PICK t \in Tasks, now \in Nat :
          /\ InList(t, g_io) /\ g_io[i + 1] = t
          /\ ~InList(t, g_ready) /\ ~InList(t, g_active) /\ ~InList(t, g_input)
          /\ now <= currentTime[t] + 1
          /\ \/ /\ currentTime' = [currentTime EXCEPT ![t] = now]
                /\ UNCHANGED <<g_io, g_ready>>
             \/ /\ currentTime' = [currentTime EXCEPT ![t] = now - 1]
                /\ Takes(g_io, t, g_io') /\ KeepsOrder(g_io, g_io', i = 0)
                /\ Puts(g_ready, t, g_ready')
    BY <1>3, PingIoMoves
  <2>2. /\ pc = "pingIo" /\ i < Len(g_io) /\ i' = i + 1
        /\ UNCHANGED <<g_active, g_input, g_currentTick, table, pc>>
    BY <1>3, PingIoMoves
  <2>3. /\ \A u : Due(u)' = Due(u)
        /\ ~BeforePing /\ ~BeforePing'
        /\ \A k : /\ Pinged(k) <=> k <= i
                  /\ Pinged(k)' <=> k <= i + 1
    BY <2>2 DEF Due, BeforePing, Pinged
  <2>4. currentTime[t] <= Due(t) + 0
    <3>1. i + 1 \in 1 .. Len(g_io) /\ ~(i + 1 <= i)
      BY <1>0, <2>2
    <3>2. QED BY <2>1, <2>2, <2>3, <3>1 DEF ClockInv
  <2>5. now <= Due(t) + 1 /\ now - 1 <= Due(t)
    <3>1. currentTime[t] \in Nat /\ Due(t) \in Int
      BY <1>0
    <3>2. QED BY <2>1, <2>4, <3>1
  <2>6. \A u \in Tasks : u # t => currentTime'[u] = currentTime[u]
    BY <1>0, <2>1
  <2>7. ASSUME NEW u \in Tasks
        PROVE  /\ InList(u, g_input') => currentTime'[u] = 0
               /\ InList(u, g_ready') => currentTime'[u] <= Due(u)
               /\ InList(u, g_active') => currentTime'[u] <= Due(u) - 0
    <3>1. CASE u = t
      <4>1. InList(u, g_ready') => currentTime'[u] = now - 1
        BY <1>0, <2>1, <3>1
      <4>2. QED BY <2>1, <2>2, <2>5, <3>1, <4>1
    <3>2. CASE u # t
      <4>1. InList(u, g_ready') => InList(u, g_ready)
        BY <2>1, <3>2 DEF Puts
      <4>2. QED BY <2>2, <2>3, <2>6, <3>2, <4>1 DEF ClockInv
    <3>3. QED BY <3>1, <3>2
  <2>8. ASSUME NEW k \in 1 .. Len(g_io')
        PROVE  currentTime'[g_io'[k]]
                 <= Due(g_io'[k]) + (IF k <= i + 1 THEN 1 ELSE 0)
    <3>0. \A u \in Tasks : currentTime[u] \in Int /\ Due(u) \in Int
      BY <1>0
    <3>1. CASE UNCHANGED g_io /\ currentTime' = [currentTime EXCEPT ![t] = now]
      <4>1. CASE k = i + 1
        <5>1. currentTime'[g_io'[k]] = now /\ g_io'[k] = t
          BY <1>0, <2>1, <3>1, <4>1
        <5>2. QED BY <1>0, <2>5, <4>1, <5>1
      <4>2. CASE k # i + 1
        <5>1. g_io[k] # t /\ g_io[k] \in Tasks
          BY <1>0, <2>1, <2>2, <3>1, <4>2 DEF NoTaskDoubled, NoDoubles
        <5>2. currentTime'[g_io'[k]] = currentTime[g_io[k]]
          BY <2>6, <3>1, <5>1
        <5>3. currentTime[g_io[k]]
                <= Due(g_io[k]) + (IF k <= i THEN 1 ELSE 0)
          BY <2>2, <2>3, <3>1 DEF ClockInv
        <5>4. k <= i <=> k <= i + 1
          BY <1>0, <4>2
        <5>5. QED BY <3>1, <5>2, <5>3, <5>4
      <4>3. QED BY <4>1, <4>2
    <3>2. CASE Takes(g_io, t, g_io') /\ KeepsOrder(g_io, g_io', i = 0)
      <4>1. PICK l \in 1 .. Len(g_io) :
              /\ g_io'[k] = g_io[l] /\ g_io'[k] # t
              /\ l <= i => k <= i + 1
        <5>1. InList(g_io'[k], g_io') /\ k \in Int
          BY DEF InList
        <5>2. PICK l \in 1 .. Len(g_io) : g_io'[k] = g_io[l]
                                          /\ (l <= i => k <= i + 1)
          <6>1. Len(g_io') = Len(g_io) - 1
            BY <3>2 DEF KeepsOrder
          <6>2. CASE i = 0
            <7>1. k + 1 \in 1 .. Len(g_io) /\ ~(k + 1 <= i)
              BY <1>0, <5>1, <6>1, <6>2
            <7>2. g_io'[k] = g_io[k + 1]
              BY <3>2, <6>2 DEF KeepsOrder
            <7>3. QED BY <7>1, <7>2
          <6>3. CASE i # 0
            <7>1. k \in 1 .. Len(g_io) /\ (k <= i => k <= i + 1)
              BY <1>0, <5>1, <6>1
            <7>2. g_io'[k] = g_io[k]
              BY <3>2, <6>3 DEF KeepsOrder
            <7>3. QED BY <7>1, <7>2
          <6>4. QED BY <6>2, <6>3
        <5>3. QED BY <1>0, <3>2, <5>1, <5>2 DEF Takes
      <4>2. g_io[l] \in Tasks /\ currentTime'[g_io'[k]] = currentTime[g_io[l]]
        BY <1>0, <2>6, <4>1
      <4>3. currentTime[g_io[l]] <= Due(g_io[l]) + (IF l <= i THEN 1 ELSE 0)
        BY <2>2, <2>3 DEF ClockInv
      <4>4. currentTime[g_io[l]]
              <= Due(g_io[l]) + (IF k <= i + 1 THEN 1 ELSE 0)
        <5>1. currentTime[g_io[l]] \in Int /\ Due(g_io[l]) \in Int
          BY <3>0, <4>2
        <5>2. QED BY <4>1, <4>3, <5>1
      <4>5. QED BY <4>1, <4>2, <4>4
    <3>3. QED BY <2>1, <3>1, <3>2
  <2>9. QED BY <2>2, <2>3, <2>7, <2>8 DEF ClockInv
<1>4. CASE LeaveCpu
  <2>1. /\ pc = "leaveCpu" /\ pc' = "occupyCpu"
        /\ UNCHANGED <<g_io, g_input, g_currentTick, currentTime, table, i>>
    BY <1>4, LeaveCpuMoves
  <2>2. CASE UNCHANGED <<g_active, g_ready>>
    BY <2>1, <2>2 DEF ClockInv, BeforePing, Pinged, Due
  <2>3. ASSUME NEW t \in Tasks, Takes(g_active, t, g_active'),
               Puts(g_ready, t, g_ready')
        PROVE  ClockInv'
    <3>1. currentTime[t] <= Due(t)
      <4>1. currentTime[t] <= Due(t) - 0 /\ Due(t) \in Int
        BY <1>0, <2>1, <2>3 DEF ClockInv, BeforePing, Takes
      <4>2. QED BY <4>1
    <3>2. QED
      BY <2>1, <2>3, <3>1
         DEF ClockInv, BeforePing, Pinged, Due, Takes, Puts
  <2>4. QED BY <1>4, <2>2, <2>3, LeaveCpuMoves
<1>5. CASE OccupyCpu
  <2>1. /\ pc = "occupyCpu" /\ pc' = "endOfTick"
        /\ UNCHANGED <<g_io, g_input, g_currentTick, currentTime, table, i>>
    BY <1>5, OccupyCpuMoves
  <2>2. CASE UNCHANGED <<g_active, g_ready>>
    BY <2>1, <2>2 DEF ClockInv, BeforePing, Pinged, Due
  <2>3. ASSUME NEW t \in Tasks, Takes(g_ready, t, g_ready'),
               Puts(g_active, t, g_active')
        PROVE  ClockInv'
    <3>1. currentTime[t] <= Due(t) - 0
      <4>1. currentTime[t] <= Due(t) /\ Due(t) \in Int
        BY <1>0, <2>1, <2>3 DEF ClockInv, Takes
      <4>2. QED BY <4>1
    <3>2. QED
      BY <2>1, <2>3, <3>1
         DEF ClockInv, BeforePing, Pinged, Due, Takes, Puts
  <2>4. QED BY <1>5, <2>2, <2>3, OccupyCpuMoves
<1>6. CASE StartPingIo
  <2>1. /\ pc = "pingActive" /\ pc' = "pingIo" /\ i' = 0 /\ i >= Len(g_active)
        /\ UNCHANGED <<g_ready, g_active, g_io, g_input, g_currentTick,
                       currentTime, table>>
    BY <1>6 DEF StartPingIo, lists
  <2>2. \A t : InList(t, g_active) => ~BeforePing
    <3>1. Len(g_active) = 0 \/ ~BeforePing
      BY <1>0, <2>1, ListsOfCInv DEF BeforePing
    <3>2. QED BY <3>1 DEF InList
  <2>3. \A k \in 1 .. Len(g_io) : ~Pinged(k) /\ ~Pinged(k)'
    BY <2>1 DEF Pinged
  <2>4. ~BeforePing' /\ \A u : Due(u)' = Due(u)
    BY <2>1 DEF BeforePing, Due
  <2>5. QED BY <2>1, <2>2, <2>3, <2>4 DEF ClockInv
<1>7. CASE EndPing
  <2>1. /\ pc = "pingIo" /\ pc' = "leaveCpu"
        /\ UNCHANGED <<g_ready, g_active, g_io, g_input, g_currentTick,
                       currentTime, table, i>>
    BY <1>7 DEF EndPing, lists
  <2>2. ~BeforePing /\ ~BeforePing' /\ \A u : Due(u)' = Due(u)
    BY <2>1 DEF BeforePing, Due
  <2>3. ASSUME NEW k \in 1 .. Len(g_io)
        PROVE  currentTime[g_io[k]] <= Due(g_io[k]) + 1
    <3>1. currentTime[g_io[k]] <= Due(g_io[k]) + (IF Pinged(k) THEN 1 ELSE 0)
      BY <2>1 DEF ClockInv
    <3>2. currentTime[g_io[k]] \in Int /\ Due(g_io[k]) \in Int
      BY <1>0
    <3>3. QED BY <3>1, <3>2
  <2>4. \A k : Pinged(k)'
    BY <2>1 DEF Pinged
  <2>5. QED BY <2>1, <2>2, <2>3, <2>4 DEF ClockInv
<1>8. CASE EndOfTick
  <2>1. /\ pc = "endOfTick" /\ pc' \in {"done", "schedule"}
        /\ g_currentTick' = g_currentTick + 1
        /\ UNCHANGED <<g_ready, g_active, g_io, g_input, currentTime, table>>
    BY <1>8 DEF EndOfTick, lists
  <2>2. CASE pc' = "done"
    BY <2>2 DEF ClockInv
  <2>3. CASE pc' = "schedule"
    <3>1. \A u \in Tasks : Due(u)' = Due(u) + 1
      <4>1. SUFFICES ASSUME NEW u \in Tasks
                     PROVE  Due(u)' = Due(u) + 1
        OBVIOUS
      <4>2. PICK s \in Nat, c \in Nat :
              s = table[u].startTime /\ c = g_currentTick
        BY <1>0
      <4>3. Due(u) = c - s /\ Due(u)' = (c + 1) - s
        BY <2>1, <4>2 DEF Due
      <4>4. QED BY <4>2, <4>3
    <3>2. /\ ~BeforePing /\ BeforePing'
          /\ \A k : Pinged(k) /\ ~Pinged(k)'
      BY <2>1, <2>3 DEF BeforePing, Pinged
    <3>3. ASSUME NEW u \in Tasks
          PROVE  /\ InList(u, g_input) => currentTime[u] = 0
                 /\ InList(u, g_ready) => currentTime[u] <= Due(u) + 1
                 /\ InList(u, g_active) => currentTime[u] <= (Due(u) + 1) - 1
      <4>1. /\ InList(u, g_input) => currentTime[u] = 0
            /\ InList(u, g_ready) => currentTime[u] <= Due(u)
            /\ InList(u, g_active) => currentTime[u] <= Due(u) - 0
        BY <2>1, <3>2 DEF ClockInv
      <4>2. currentTime[u] \in Int /\ Due(u) \in Int
        BY <1>0
      <4>3. QED BY <4>1, <4>2
    <3>4. ASSUME NEW k \in 1 .. Len(g_io)
          PROVE  /\ g_io[k] \in Tasks
                 /\ currentTime[g_io[k]] <= (Due(g_io[k]) + 1) + 0
      <4>1. currentTime[g_io[k]] <= Due(g_io[k]) + 1
        BY <2>1, <3>2 DEF ClockInv
      <4>2. g_io[k] \in Tasks /\ Due(g_io[k]) \in Int
        BY <1>0
      <4>3. QED BY <4>1, <4>2
    <3>5. QED BY <2>1, <3>1, <3>2, <3>3, <3>4 DEF ClockInv
  <2>4. QED BY <2>1, <2>2, <2>3
<1>9. CASE Schedule \/ NotYetArrived \/ StartPing
  <2>1. /\ BeforePing /\ BeforePing' /\ pc # "done"
        /\ \A k : ~Pinged(k) /\ ~Pinged(k)'
        /\ UNCHANGED <<g_ready, g_active, g_io, g_input, g_currentTick,
                       currentTime, table>>
    BY <1>9 DEF Schedule, NotYetArrived, StartPing, lists, BeforePing, Pinged
  <2>2. \A u : Due(u)' = Due(u)
    BY <2>1 DEF Due
  <2>3. QED BY <2>1, <2>2 DEF ClockInv
<1>10. CASE JustWork \/ Terminating \/ UNCHANGED vars
  <2>1. /\ pc' = "done" => pc = "done"
        /\ pc = "done" => pc' = "done"
        /\ BeforePing' <=> BeforePing
        /\ \A k : Pinged(k)' <=> Pinged(k)
        /\ UNCHANGED <<g_ready, g_active, g_io, g_input, g_currentTick,
                       currentTime, table>>
    BY <1>10 DEF JustWork, Terminating, vars, lists, BeforePing, Pinged
  <2>2. \A u : Due(u)' = Due(u)
    BY <2>1 DEF Due
  <2>3. QED BY <2>1, <2>2 DEF ClockInv
<1>11. QED
  BY <1>1, <1>2, <1>3, <1>4, <1>5, <1>6, <1>7, <1>8, <1>9, <1>10 DEF Next

\* All of it holds in a run that extracts at the ends only ...
LEMMA TimeInvariance == Spec /\ []ExtractsAtEnds => [](CInv /\ TimeInv)
<1>1. Init => CInv /\ TimeInv
  BY InitIInv, InitConserved, InitTime DEF CInv
<1>2. CInv /\ TimeInv /\ ExtractsAtEnds /\ [Next]_vars => (CInv /\ TimeInv)'
  BY NextIInv, NextConserved, NextQuantum, NextWait, NextClock
     DEF CInv, TimeInv
<1>3. QED BY <1>1, <1>2, PTL DEF Spec

\* ... which every run with at most two tasks does.
LEMMA TwoTasksExtractAtEnds == AtMostTwoTasks => (Spec => []ExtractsAtEnds)
<1> SUFFICES ASSUME AtMostTwoTasks PROVE Spec => []ExtractsAtEnds
  OBVIOUS
<1>1. Init => CInv
  BY InitIInv, InitConserved DEF CInv
<1>2. CInv /\ [Next]_vars => CInv'
  BY NextIInv, NextConserved, TwoTasksAtEnds DEF CInv
<1>3. CInv => ExtractsAtEnds
  BY TwoTasksAtEnds
<1>4. QED BY <1>1, <1>2, <1>3, PTL DEF Spec

\* At the end of a tick g_q is the quantum less the ticks that the active
\* task has had.
LEMMA AccountingHolds == CInv /\ TimeInv => QuantumAccounting
<1> SUFFICES ASSUME CInv, TimeInv, pc = "endOfTick",
                    NEW k \in 1 .. Len(g_active)
             PROVE  /\ g_q \in 1 .. Quant
                    /\ g_currentTick - since[g_active[k]] = Quant - g_q
  BY DEF QuantumAccounting
<1>1. g_active[k] \in Tasks /\ InList(g_active[k], g_active)
  BY ListsOfCInv DEF InList
<1>2. g_q \in 1 .. Quant
  BY DEF CInv, IInv
<1>3. g_currentTick - since[g_active[k]] = Quant - g_q + 0
  BY <1>1 DEF TimeInv, QuantumInv, AfterTick
<1>4. Quant - g_q + 0 = Quant - g_q
  BY <1>2, ClockAssumption
<1>5. QED BY <1>2, <1>3, <1>4

\* No ready task waits longer than a quantum for each other task.
LEMMA WaitHolds == CInv /\ TimeInv => BoundedWait
<1> SUFFICES ASSUME CInv, TimeInv, pc = "endOfTick",
                    NEW k \in 1 .. Len(g_ready)
             PROVE  g_currentTick - since[g_ready[k]]
                      <= (Cardinality(Tasks) - 1) * Quant
  BY DEF BoundedWait
<1>1. /\ g_ready[k] \in Tasks /\ since[g_ready[k]] \in Nat
      /\ g_currentTick \in Nat /\ Remaining \in Nat
  BY ListsOfCInv DEF Remaining
<1>2. g_currentTick - since[g_ready[k]] + (k - 1) * Quant + Remaining
        <= (Cardinality(Tasks) - 1) * Quant + 0
  BY DEF TimeInv, WaitInv, AfterTick
<1>3. (k - 1) * Quant \in Nat /\ (Cardinality(Tasks) - 1) * Quant \in Int
  <2>1. k - 1 \in Nat /\ Quant \in Nat /\ Cardinality(Tasks) - 1 \in Int
    BY ClockAssumption, TasksFit
  <2>2. QED BY <2>1
<1>4. PICK w \in Int, q \in Nat, r \in Nat, b \in Int :
        /\ w = g_currentTick - since[g_ready[k]]
        /\ q = (k - 1) * Quant /\ r = Remaining
        /\ b = (Cardinality(Tasks) - 1) * Quant
  <2>1. g_currentTick - since[g_ready[k]] \in Int
    BY <1>1
  <2>2. QED BY <1>1, <1>3, <2>1, Zenon
<1>5. w + q + r <= b + 0
  BY <1>2, <1>4
<1>6. w <= b
  <2>1. w \in Int /\ q \in Nat /\ r \in Nat /\ b \in Int
    BY <1>4
  <2>2. QED BY <1>5, <2>1
<1>7. QED BY <1>4, <1>6

\* No task is ahead of the clock, but by the step of a running burst.
LEMMA ClockHolds == CInv /\ TimeInv => NeverAheadOfClock
<1> SUFFICES ASSUME CInv, TimeInv, pc = "endOfTick", NEW t \in Tasks
             PROVE  /\ InList(t, g_ready) \/ InList(t, g_active) =>
                         currentTime[t] + table[t].startTime <= g_currentTick
                    /\ InList(t, g_io) =>
                         currentTime[t] + table[t].startTime <= g_currentTick + 1
  BY DEF NeverAheadOfClock
<1>1. PICK c \in Nat, s \in Nat, n \in Nat :
        /\ c = currentTime[t] /\ s = table[t].startTime /\ n = g_currentTick
  BY ListsOfCInv DEF Descriptor
<1>2. Due(t) = n - s
  BY <1>1 DEF Due
<1>3. ~BeforePing /\ \A k : Pinged(k)
  BY DEF BeforePing, Pinged
<1>4. /\ InList(t, g_ready) => c <= n - s
      /\ InList(t, g_active) => c <= (n - s) - 0
      /\ InList(t, g_io) => c <= (n - s) + 1
  BY <1>1, <1>2, <1>3 DEF TimeInv, ClockInv, InList
<1>5. c \in Nat /\ s \in Nat /\ n \in Nat
  BY <1>1
<1>6. /\ InList(t, g_ready) \/ InList(t, g_active) => c + s <= n
      /\ InList(t, g_io) => c + s <= n + 1
  BY <1>4, <1>5
<1>7. QED BY <1>1, <1>6

\* The count-down of the quantum is the account of the active task's time,
\* with any number of tasks, in a run that extracts at the ends only.
THEOREM QuantumIsAccounted == Spec /\ []ExtractsAtEnds => []QuantumAccounting
BY TimeInvariance, AccountingHolds, PTL

\* No task starves in such a run: round-robin's bound on the wait holds in
\* spite of early dispatches, arrivals and returns from I/O.
THEOREM WaitIsBounded == Spec /\ []ExtractsAtEnds => []BoundedWait
BY TimeInvariance, WaitHolds, PTL

\* The double step into a burst and the step back out of it cancel out.
THEOREM BurstStepsCancel == Spec /\ []ExtractsAtEnds => []NeverAheadOfClock
BY TimeInvariance, ClockHolds, PTL

\* The two tasks that input() creates have all three, without a condition.
THEOREM TwoTasksOnTime ==
  AtMostTwoTasks =>
    (Spec => [](QuantumAccounting /\ BoundedWait /\ NeverAheadOfClock))
<1> SUFFICES ASSUME AtMostTwoTasks
             PROVE  Spec => [](QuantumAccounting /\ BoundedWait
                                 /\ NeverAheadOfClock)
  OBVIOUS
<1>1. Spec => []ExtractsAtEnds
  BY TwoTasksExtractAtEnds
<1>2. QED
  BY <1>1, TimeInvariance, AccountingHolds, WaitHolds, ClockHolds, PTL

-----------------------------------------------------------------------------
(***************************************************************************)
(* I/O bursts.  A tick brings a task in g_io one step on in its burst, or  *)
(* passes over it since the task ahead of it was extracted, and then it is *)
(* one place nearer to the head.  The time in g_io and the place are       *)
(* together no more than the steps taken and one for each task.            *)
(***************************************************************************)

\* What addIo is called with: each burst ends before the task does, and the
\* task is on the CPU for a step between two of its bursts.
BurstsApart ==
  \A f \in TaskTables, t \in Tasks : \A b, c \in f[t].io :
    /\ b.start + b.length < f[t].length
    /\ \/ b = c
       \/ b.start + b.length + 1 < c.start
       \/ c.start + c.length + 1 < b.start

\* The steps that t has taken in its burst b, and one for each task, less the
\* ticks since it came into g_io.
Slack(t, b) ==
  (currentTime[t] - b.start + Cardinality(Tasks)) - (g_currentTick - since[t])

\* The task t, at place k of g_io, is on time in its burst b.
OnTime(t, k, b) ==
  /\ InBurst(b, currentTime[t])
  /\ k + (IF Pinged(k) THEN 1 ELSE 0) <= Slack(t, b)

BurstInv ==
  /\ table \in TaskTables
  /\ pc # "done" =>
       \A k \in 1 .. Len(g_io) : \E b \in table[g_io[k]].io : OnTime(g_io[k], k, b)

\* A step of the clock leaves the task in the same burst or ends the burst.
LEMMA SameBurst ==
  ASSUME BurstsApart, TableAssumption, NEW f \in TaskTables, NEW t \in Tasks,
         NEW b \in f[t].io, NEW c \in f[t].io, NEW time \in Nat,
         InBurst(b, time), InBurst(c, Tick(f[t], time))
  PROVE  b = c /\ Tick(f[t], time) = time + 1
<1>1. f[t] \in Descriptor
  BY DEF TableAssumption
<1>2. PICK bs \in Nat, bl \in Nat, cs \in Nat, cl \in Nat, n \in Nat :
        /\ bs = b.start /\ bl = b.length /\ cs = c.start /\ cl = c.length
        /\ n = f[t].length
  <2>1. b \in Burst /\ c \in Burst /\ f[t].length \in Nat
    BY <1>1 DEF Descriptor
  <2>2. QED BY <2>1 DEF Burst
<1>3. /\ bs + bl < n
      /\ b = c \/ bs + bl + 1 < cs \/ cs + cl + 1 < bs
  BY <1>2 DEF BurstsApart
<1>4. time >= bs /\ time - bs <= bl
  BY <1>2 DEF InBurst
<1>5. time < n
  BY <1>2, <1>3, <1>4
<1>6. Tick(f[t], time) = time + 1
  BY <1>2, <1>5 DEF Tick
<1>7. time + 1 >= cs /\ (time + 1) - cs <= cl
  BY <1>2, <1>6 DEF InBurst
<1>8. b = c
  BY <1>2, <1>3, <1>4, <1>7
<1>9. QED BY <1>6, <1>8

\* The slack is a number, which one step of the task and one of the clock
\* change by one.
LEMMA SlackMoves ==
  ASSUME CInv, NEW t \in Tasks, NEW b \in table[t].io, UNCHANGED <<table, since>>
  PROVE  /\ Slack(t, b) \in Int
         /\ currentTime'[t] = currentTime[t] /\ UNCHANGED g_currentTick
              => Slack(t, b)' = Slack(t, b)
         /\ currentTime'[t] = currentTime[t] + 1 /\ UNCHANGED g_currentTick
              => Slack(t, b)' = Slack(t, b) + 1
         /\ currentTime'[t] = currentTime[t] /\ g_currentTick' = g_currentTick + 1
              => Slack(t, b)' = Slack(t, b) - 1
<1>1. /\ g_currentTick \in Nat /\ since[t] \in Nat /\ currentTime[t] \in Nat
      /\ Cardinality(Tasks) \in Nat /\ table[t] \in Descriptor
  BY ListsOfCInv, TasksFit
<1>2. b.start \in Nat
  BY <1>1 DEF Descriptor, Burst
<1>3. ASSUME NEW c \in Nat, NEW s \in Nat, NEW m \in Nat, NEW bs \in Nat, NEW n \in Nat
      PROVE  /\ (m - bs + n) - (c - s) \in Int
             /\ (m + 1 - bs + n) - (c - s) = (m - bs + n) - (c - s) + 1
             /\ (m - bs + n) - (c + 1 - s) = (m - bs + n) - (c - s) - 1
  <2>1. c \in Int /\ s \in Int /\ m \in Int /\ bs \in Int /\ n \in Int
    OBVIOUS
  <2>2. QED BY <2>1
<1>4. QED BY <1>1, <1>2, <1>3 DEF Slack

\* A step that leaves a task of g_io alone keeps it on time.
LEMMA StaysOnTime ==
  ASSUME CInv, NEW k \in Nat, NEW l \in Nat, NEW t \in Tasks,
         NEW b \in table[t].io, OnTime(t, l, b),
         UNCHANGED <<g_currentTick, table>>,
         currentTime'[t] = currentTime[t], since'[t] = since[t],
         k + (IF Pinged(k)' THEN 1 ELSE 0) <= l + (IF Pinged(l) THEN 1 ELSE 0)
  PROVE  OnTime(t, k, b)'
<1>1. /\ g_currentTick \in Nat /\ since[t] \in Nat /\ currentTime[t] \in Nat
      /\ Cardinality(Tasks) \in Nat /\ table[t] \in Descriptor
  BY ListsOfCInv, TasksFit
<1>2. b.start \in Nat
  BY <1>1 DEF Descriptor, Burst
<1>3. Slack(t, b)' = Slack(t, b) /\ Slack(t, b) \in Int
  BY <1>1, <1>2 DEF Slack
<1>4. l + (IF Pinged(l) THEN 1 ELSE 0) <= Slack(t, b)
  BY DEF OnTime
<1>5. k + (IF Pinged(k)' THEN 1 ELSE 0) <= Slack(t, b)
  BY <1>3, <1>4
<1>6. QED BY <1>3, <1>5 DEF OnTime

\* Nor does a step that leaves all of them alone.
LEMMA StayOnTime ==
  ASSUME CInv, BurstInv, pc # "done", UNCHANGED <<g_io, g_currentTick, table>>,
         \A k \in 1 .. Len(g_io) : /\ currentTime'[g_io[k]] = currentTime[g_io[k]]
                                   /\ since'[g_io[k]] = since[g_io[k]]
                                   /\ Pinged(k)' <=> Pinged(k)
  PROVE  BurstInv'
<1>1. ASSUME NEW k \in 1 .. Len(g_io)
      PROVE  \E b \in table[g_io[k]].io : OnTime(g_io[k], k, b)'
  <2>1. PICK b \in table[g_io[k]].io : OnTime(g_io[k], k, b)
    BY DEF BurstInv
  <2>2. g_io[k] \in Tasks /\ k \in Nat
    BY ListsOfCInv
  <2>3. (IF Pinged(k)' THEN 1 ELSE 0) = (IF Pinged(k) THEN 1 ELSE 0)
    OBVIOUS
  <2>4. k + (IF Pinged(k)' THEN 1 ELSE 0) <= k + (IF Pinged(k) THEN 1 ELSE 0)
    BY <2>2
  <2>5. OnTime(g_io[k], k, b)'
    BY <2>1, <2>2, <2>4, StaysOnTime
  <2>6. QED BY <2>5
<1>2. QED BY <1>1 DEF BurstInv

\* Every step keeps the tasks in g_io on time.
LEMMA NextBurst ==
  ASSUME BurstsApart, CInv, BurstInv, ExtractsAtEnds, [Next]_vars
  PROVE  BurstInv'
<1> DEFINE N == Cardinality(Tasks)
<1>0. /\ NoTaskDoubled /\ currentTime \in [Tasks -> Nat]
      /\ since \in [Tasks -> Nat] /\ table \in TaskTables
      /\ g_currentTick \in Nat /\ i \in Nat /\ N \in Nat
      /\ g_io \in Seq(Tasks) /\ Len(g_io) \in Nat
      /\ \A k \in 1 .. Len(g_io) : g_io[k] \in Tasks /\ InList(g_io[k], g_io)
  <2>1. /\ NoTaskDoubled /\ currentTime \in [Tasks -> Nat]
        /\ since \in [Tasks -> Nat]
        /\ g_currentTick \in Nat /\ i \in Nat
        /\ g_io \in Seq(Tasks) /\ Len(g_io) \in Nat
    BY ListsOfCInv, LenProperties
  <2>2. QED BY <2>1, TasksFit DEF InList, BurstInv
<1>1. CASE Admit
  <2>1. PICK t \in Tasks : /\ ~InList(t, g_io)
                           /\ since' = [since EXCEPT ![t] = g_currentTick]
    BY <1>1, AdmitMoves
  <2>2. /\ pc = "checkInputQueue"
        /\ UNCHANGED <<g_io, g_currentTick, currentTime, table, pc, i>>
    BY <1>1, AdmitMoves
  <2>3. \A k \in 1 .. Len(g_io) : since'[g_io[k]] = since[g_io[k]]
    BY <1>0, <2>1
  <2>4. \A k : Pinged(k)' <=> Pinged(k)
    BY <2>2 DEF Pinged
  <2>5. QED BY <2>2, <2>3, <2>4, StayOnTime
<1>2. CASE PingActive
  <2>1. PICK t \in Tasks, now \in Nat :
          /\ ~InList(t, g_io)
          /\ currentTime' = [currentTime EXCEPT ![t] = now]
          /\ \/ /\ IsFinished(table[t], now) /\ UNCHANGED g_io
                /\ since' = [since EXCEPT ![t] = g_currentTick]
             \/ /\ IsIoState(table[t], now) /\ Puts(g_io, t, g_io')
                /\ since' = [since EXCEPT ![t] = g_currentTick]
             \/ UNCHANGED <<g_io, since>>
    BY <1>2, PingActiveMoves
  <2>2. pc = "pingActive" /\ UNCHANGED <<g_currentTick, table, pc>>
    BY <1>2, PingActiveMoves
  <2>3. ASSUME NEW k \in 1 .. Len(g_io)
        PROVE  /\ since'[g_io[k]] = since[g_io[k]]
               /\ currentTime'[g_io[k]] = currentTime[g_io[k]]
    <3>1. g_io[k] # t /\ g_io[k] \in Tasks
      BY <1>0, <2>1
    <3>2. QED BY <1>0, <2>1, <3>1
  <2>4. \A k : ~Pinged(k) /\ ~Pinged(k)'
    BY <2>2 DEF Pinged
  <2>5. CASE UNCHANGED g_io
    BY <2>2, <2>3, <2>4, <2>5, StayOnTime
  <2>6. CASE /\ IsIoState(table[t], now) /\ Puts(g_io, t, g_io')
             /\ since' = [since EXCEPT ![t] = g_currentTick]
    <3>1. PICK b \in table[t].io : InBurst(b, now)
      BY <2>6 DEF IsIoState
    <3>2. currentTime'[t] = now /\ since'[t] = g_currentTick
      BY <1>0, <2>1, <2>6
    <3>3. Len(g_io) + 1 <= N
      BY <2>6 DEF Puts
    <3>4. ASSUME NEW k, k = Len(g_io) + 1
          PROVE  OnTime(t, k, b)'
      <4>1. b.start \in Nat /\ now - b.start >= 0
        <5>1. table[t] \in Descriptor
          BY <1>0, TableAssumption
        <5>2. b.start \in Nat
          BY <5>1 DEF Descriptor, Burst
        <5>3. QED BY <3>1, <5>2 DEF InBurst
      <4>2. ASSUME NEW m \in Nat, NEW c \in Nat, NEW s \in Nat, m <= N, now - s >= 0
            PROVE  m + 0 <= (now - s + N) - (c - c)
        <5>1. now \in Int /\ N \in Int /\ m \in Int /\ c \in Int /\ s \in Int
          BY <1>0
        <5>2. QED BY <4>2, <5>1
      <4>3. Len(g_io) + 1 \in Nat
        BY <1>0
      <4>4. k + 0
              <= (now - b.start + N) - (g_currentTick - g_currentTick)
        BY <1>0, <3>3, <3>4, <4>1, <4>2, <4>3
      <4>5. Slack(t, b)' = (now - b.start + N) - (g_currentTick - g_currentTick)
        BY <2>2, <3>2 DEF Slack
      <4>6. QED BY <2>4, <3>1, <3>2, <4>4, <4>5 DEF OnTime
    <3>5. ASSUME NEW k \in 1 .. Len(g_io')
          PROVE  \E c \in table[g_io'[k]].io : OnTime(g_io[k], k, c)'
      <4>1. k \in 1 .. Len(g_io) \/ k = Len(g_io) + 1
        BY <1>0, <2>6 DEF Puts
      <4>2. CASE k = Len(g_io) + 1
        <5>1. g_io'[k] = t
          BY <2>6, <4>2 DEF Puts
        <5>2. QED BY <3>4, <4>2, <5>1
      <4>3. CASE k \in 1 .. Len(g_io)
        <5>1. g_io'[k] = g_io[k]
          BY <2>6, <4>3 DEF Puts
        <5>2. PICK u \in Tasks : u = g_io[k]
          BY <1>0, <4>3
        <5>3. PICK c \in table[u].io : OnTime(u, k, c)
          BY <2>2, <4>3, <5>2 DEF BurstInv
        <5>4. k + (IF Pinged(k)' THEN 1 ELSE 0) <= k + (IF Pinged(k) THEN 1 ELSE 0)
          BY <2>4
        <5>5. OnTime(u, k, c)'
          BY <2>2, <2>3, <4>3, <5>2, <5>3, <5>4, StaysOnTime
        <5>6. QED BY <2>2, <5>1, <5>2, <5>5
      <4>4. QED BY <4>1, <4>2, <4>3
    <3>6. QED BY <1>0, <2>2, <3>5 DEF BurstInv
  <2>7. QED BY <2>1, <2>5, <2>6
<1>3. CASE PingIo
  <2>1. PICK t \in Tasks, now \in Nat :
          /\ g_io[i + 1] = t
          /\ \/ /\ IsIoState(table[t], now)
                /\ now = Tick(table[t], currentTime[t])
                /\ currentTime' = [currentTime EXCEPT ![t] = now]
                /\ UNCHANGED <<g_io, since>>
             \/ /\ Takes(g_io, t, g_io') /\ KeepsOrder(g_io, g_io', i = 0)
                /\ currentTime' = [currentTime EXCEPT ![t] = now - 1]
                /\ since' = [since EXCEPT ![t] = g_currentTick]
    BY <1>3, PingIoMoves
  <2>2. /\ pc = "pingIo" /\ i < Len(g_io) /\ i' = i + 1
        /\ UNCHANGED <<g_currentTick, table, pc>>
    BY <1>3, PingIoMoves
  <2>3. \A k : /\ Pinged(k) <=> k <= i
               /\ Pinged(k)' <=> k <= i + 1
    BY <2>2 DEF Pinged
  <2>4. \A u \in Tasks : u # t => /\ currentTime'[u] = currentTime[u]
                                  /\ since'[u] = since[u]
    BY <1>0, <2>1
  <2>5. ASSUME NEW k \in 1 .. Len(g_io')
        PROVE  \E b \in table[g_io'[k]].io : OnTime(g_io[k], k, b)'
    <3>0. k \in Nat
      OBVIOUS
    <3>1. CASE UNCHANGED <<g_io, since>> /\ k = i + 1
               /\ IsIoState(table[t], now)
               /\ now = Tick(table[t], currentTime[t])
               /\ currentTime' = [currentTime EXCEPT ![t] = now]
      <4>1. PICK b \in table[t].io : OnTime(t, k, b)
        <5>1. k \in 1 .. Len(g_io) /\ g_io[k] = t
          BY <2>1, <3>1
        <5>2. QED BY <2>2, <5>1 DEF BurstInv
      <4>2. PICK c \in table[t].io : InBurst(c, now)
        BY <3>1 DEF IsIoState
      <4>3. b = c /\ now = currentTime[t] + 1
        BY <1>0, <3>1, <4>1, <4>2, SameBurst, TableAssumption DEF OnTime
      <4>4. ~Pinged(k) /\ Pinged(k)'
        <5>1. ~(k <= i) /\ k <= i + 1
          BY <1>0, <3>1
        <5>2. QED BY <2>3, <5>1
      <4>5. currentTime'[t] = now
        BY <1>0, <3>1
      <4>6. Slack(t, b) \in Int /\ Slack(t, b)' = Slack(t, b) + 1
        BY <2>2, <3>1, <4>3, <4>5, SlackMoves
      <4>7. k + 0 <= Slack(t, b)
        BY <4>1, <4>4 DEF OnTime
      <4>8. k + 1 <= Slack(t, b)'
        BY <3>0, <4>6, <4>7
      <4>9. OnTime(t, k, b)'
        BY <4>2, <4>3, <4>4, <4>5, <4>8 DEF OnTime
      <4>10. QED BY <2>1, <2>2, <3>1, <4>9
    <3>2. CASE UNCHANGED <<g_io, since>> /\ k # i + 1
      <4>1. PICK u \in Tasks : u = g_io[k] /\ u # t
        <5>1. k \in 1 .. Len(g_io) /\ i + 1 \in 1 .. Len(g_io)
          BY <1>0, <2>2, <3>2
        <5>2. g_io[k] # g_io[i + 1]
          BY <1>0, <3>2, <5>1 DEF NoTaskDoubled, NoDoubles
        <5>3. QED BY <1>0, <2>1, <5>1, <5>2
      <4>2. (k <= i <=> k <= i + 1)
        BY <1>0, <3>0, <3>2
      <4>3. k + (IF Pinged(k)' THEN 1 ELSE 0) <= k + (IF Pinged(k) THEN 1 ELSE 0)
        BY <2>3, <3>0, <4>2
      <4>4. PICK b \in table[u].io : OnTime(u, k, b)
        BY <2>2, <3>2, <4>1 DEF BurstInv
      <4>5. OnTime(u, k, b)'
        BY <2>2, <2>4, <3>0, <4>1, <4>3, <4>4, StaysOnTime
      <4>6. QED BY <2>2, <3>2, <4>1, <4>5
    <3>3. CASE /\ Takes(g_io, t, g_io') /\ KeepsOrder(g_io, g_io', i = 0)
      <4>1. PICK l \in 1 .. Len(g_io) :
              /\ g_io'[k] = g_io[l]
              /\ (l = k + 1 /\ i = 0) \/ (l = k /\ (k <= i <=> k <= i + 1))
        <5>1. Len(g_io') = Len(g_io) - 1
          BY <3>3 DEF KeepsOrder
        <5>2. CASE i = 0
          <6>1. k + 1 \in 1 .. Len(g_io)
            BY <1>0, <5>1
          <6>2. g_io'[k] = g_io[k + 1]
            BY <3>3, <5>2 DEF KeepsOrder
          <6>3. QED BY <5>2, <6>1, <6>2
        <5>3. CASE i # 0
          <6>1. k \in 1 .. Len(g_io)
            BY <1>0, <5>1
          <6>2. g_io'[k] = g_io[k]
            BY <3>3, <5>3 DEF KeepsOrder
          <6>3. k # i + 1
            <7>1. InList(g_io'[k], g_io')
              BY DEF InList
            <7>2. g_io'[k] # t
              BY <1>0, <3>3, <6>1, <6>2, <7>1 DEF Takes
            <7>3. QED BY <2>1, <6>2, <7>2
          <6>4. (k <= i <=> k <= i + 1)
            BY <1>0, <3>0, <6>3
          <6>5. QED BY <6>1, <6>2, <6>4
        <5>4. QED BY <5>2, <5>3
      <4>2. PICK u \in Tasks : u = g_io[l] /\ u # t
        <5>1. InList(g_io'[k], g_io')
          BY DEF InList
        <5>2. QED BY <1>0, <3>3, <4>1, <5>1 DEF Takes
      <4>3. PICK b \in table[u].io : OnTime(u, l, b)
        BY <2>2, <4>2 DEF BurstInv
      <4>4. k + (IF Pinged(k)' THEN 1 ELSE 0) <= l + (IF Pinged(l) THEN 1 ELSE 0)
        <5>1. k + (IF k <= i + 1 THEN 1 ELSE 0) <= l + (IF l <= i THEN 1 ELSE 0)
          <6>1. i \in Nat /\ k \in Nat /\ l \in Nat /\ k >= 1 /\ l >= 1
            BY <1>0, <3>0
          <6>2. CASE l = k + 1 /\ i = 0
            BY <6>1, <6>2
          <6>3. CASE l = k /\ (k <= i <=> k <= i + 1)
            BY <6>1, <6>3
          <6>4. QED BY <4>1, <6>2, <6>3
        <5>2. QED BY <2>3, <5>1
      <4>5. OnTime(u, k, b)'
        <5>1. l \in Nat
          OBVIOUS
        <5>2. QED BY <2>2, <2>4, <3>0, <4>2, <4>3, <4>4, <5>1, StaysOnTime
      <4>6. QED BY <2>2, <4>1, <4>2, <4>5
    <3>4. QED BY <2>1, <3>1, <3>2, <3>3
  <2>6. QED BY <1>0, <2>2, <2>5 DEF BurstInv
<1>4. CASE LeaveCpu \/ OccupyCpu
  <2>1. /\ pc \in {"leaveCpu", "occupyCpu"} /\ pc' \in {"occupyCpu", "endOfTick"}
        /\ UNCHANGED <<g_io, g_currentTick, currentTime, table, i>>
    BY <1>4, LeaveCpuMoves, OccupyCpuMoves
  <2>2. \A k \in 1 .. Len(g_io) : since'[g_io[k]] = since[g_io[k]]
    <3>1. UNCHANGED since
          \/ \E t \in Tasks : /\ ~InList(t, g_io)
                             /\ since' = [since EXCEPT ![t] = g_currentTick]
      BY <1>4, LeaveCpuMoves, OccupyCpuMoves
    <3>2. QED BY <1>0, <3>1
  <2>3. \A k : Pinged(k) /\ Pinged(k)'
    BY <2>1 DEF Pinged
  <2>4. QED BY <2>1, <2>2, <2>3, StayOnTime
<1>5. CASE StartPingIo
  <2>1. /\ pc = "pingActive" /\ pc' = "pingIo" /\ i' = 0
        /\ UNCHANGED <<g_io, g_currentTick, currentTime, table, since>>
    BY <1>5 DEF StartPingIo, lists
  <2>2. \A k \in 1 .. Len(g_io) : ~Pinged(k) /\ ~Pinged(k)'
    BY <2>1 DEF Pinged
  <2>3. QED BY <2>1, <2>2, StayOnTime
<1>6. CASE EndPing
  <2>1. /\ pc = "pingIo" /\ pc' = "leaveCpu" /\ i >= Len(g_io)
        /\ UNCHANGED <<g_io, g_currentTick, currentTime, table, since>>
    BY <1>6 DEF EndPing, lists
  <2>2. \A k \in 1 .. Len(g_io) : Pinged(k) /\ Pinged(k)'
    BY <1>0, <2>1 DEF Pinged
  <2>3. QED BY <2>1, <2>2, StayOnTime
<1>7. CASE EndOfTick
  <2>1. /\ pc = "endOfTick" /\ pc' \in {"done", "schedule"}
        /\ g_currentTick' = g_currentTick + 1
        /\ UNCHANGED <<g_io, currentTime, table, since>>
    BY <1>7 DEF EndOfTick, lists
  <2>2. CASE pc' = "done"
    BY <1>0, <2>1, <2>2 DEF BurstInv
  <2>3. CASE pc' = "schedule"
    <3>1. ASSUME NEW k \in 1 .. Len(g_io)
          PROVE  \E b \in table[g_io[k]].io : OnTime(g_io[k], k, b)'
      <4>1. PICK b \in table[g_io[k]].io : OnTime(g_io[k], k, b)
        BY <2>1 DEF BurstInv
      <4>2. Pinged(k) /\ ~Pinged(k)'
        BY <2>1, <2>3 DEF Pinged
      <4>3. g_io[k] \in Tasks
        BY <1>0
      <4>4. /\ Slack(g_io[k], b) \in Int
            /\ Slack(g_io[k], b)' = Slack(g_io[k], b) - 1
        BY <2>1, <4>3, SlackMoves
      <4>5. k + 1 <= Slack(g_io[k], b)
        BY <4>1, <4>2 DEF OnTime
      <4>6. k + 0 <= Slack(g_io[k], b)'
        BY <4>4, <4>5
      <4>7. OnTime(g_io[k], k, b)'
        BY <2>1, <4>1, <4>2, <4>6 DEF OnTime
      <4>8. QED BY <4>7
    <3>2. QED BY <1>0, <2>1, <3>1 DEF BurstInv
  <2>4. QED BY <2>1, <2>2, <2>3
<1>8. CASE Schedule \/ NotYetArrived \/ StartPing
  <2>1. /\ pc # "done" /\ \A k : ~Pinged(k) /\ ~Pinged(k)'
        /\ UNCHANGED <<g_io, g_currentTick, currentTime, table, since>>
    BY <1>8 DEF Schedule, NotYetArrived, StartPing, lists, Pinged
  <2>2. QED BY <2>1, StayOnTime
<1>9. CASE JustWork \/ Terminating \/ UNCHANGED vars
  <2>1. /\ pc' = "done" <=> pc = "done"
        /\ \A k : Pinged(k)' <=> Pinged(k)
        /\ UNCHANGED <<g_io, g_currentTick, currentTime, table, since>>
    BY <1>9 DEF JustWork, Terminating, vars, lists, Pinged
  <2>2. CASE pc = "done"
    BY <1>0, <2>1, <2>2 DEF BurstInv
  <2>3. CASE pc # "done"
    BY <2>1, <2>3, StayOnTime
  <2>4. QED BY <2>2, <2>3
<1>10. QED
  BY <1>1, <1>2, <1>3, <1>4, <1>5, <1>6, <1>7, <1>8, <1>9 DEF Next

LEMMA BurstInvariance ==
  BurstsApart => (Spec /\ []ExtractsAtEnds => [](CInv /\ BurstInv))
<1> SUFFICES ASSUME BurstsApart
             PROVE  Spec /\ []ExtractsAtEnds => [](CInv /\ BurstInv)
  OBVIOUS
<1>1. Init => CInv /\ BurstInv
  <2>1. Init => BurstInv
    BY DEF Init, BurstInv
  <2>2. QED BY <2>1, InitIInv, InitConserved DEF CInv
<1>2. CInv /\ BurstInv /\ ExtractsAtEnds /\ [Next]_vars => (CInv /\ BurstInv)'
  BY NextIInv, NextConserved, NextBurst DEF CInv
<1>3. QED BY <1>1, <1>2, PTL DEF Spec

\* A task that is on time when the tick ends is at least at the first place,
\* and at the end of its burst at the latest.
LEMMA BurstHolds == CInv /\ BurstInv => BurstEndsInTime
<1> SUFFICES ASSUME CInv, BurstInv, pc = "endOfTick",
                    NEW k \in 1 .. Len(g_io)
             PROVE  \E b \in table[g_io[k]].io :
                      /\ InBurst(b, currentTime[g_io[k]])
                      /\ g_currentTick - since[g_io[k]]
                           < b.length + Cardinality(Tasks) - 1
  BY DEF BurstEndsInTime
<1> DEFINE t == g_io[k]
<1>1. PICK b \in table[t].io : OnTime(t, k, b)
  BY DEF BurstInv
<1>2. /\ g_currentTick \in Nat /\ since[t] \in Nat /\ currentTime[t] \in Nat
      /\ Cardinality(Tasks) \in Nat /\ b.start \in Nat /\ b.length \in Nat
  <2>1. t \in Tasks
    BY ListsOfCInv
  <2>2. table[t] \in Descriptor
    BY <2>1, ListsOfCInv
  <2>3. b \in Burst
    BY <2>2 DEF Descriptor
  <2>4. QED BY <2>1, <2>3, ListsOfCInv, TasksFit DEF Burst
<1>3. ASSUME NEW c \in Nat, NEW s \in Nat, NEW m \in Nat, NEW bs \in Nat,
             NEW bl \in Nat, NEW n \in Nat,
             k + 1 <= (m - bs + n) - (c - s), m - bs <= bl
      PROVE  c - s < bl + n - 1
  <2>1. c \in Int /\ s \in Int /\ m \in Int /\ bs \in Int /\ bl \in Int
        /\ n \in Int /\ k \in Int /\ 1 <= k
    OBVIOUS
  <2>2. QED BY <1>3, <2>1
<1>4. Pinged(k)
  BY DEF Pinged
<1>5. /\ k + 1 <= (currentTime[t] - b.start + Cardinality(Tasks))
                    - (g_currentTick - since[t])
      /\ InBurst(b, currentTime[t]) /\ currentTime[t] - b.start <= b.length
  BY <1>1, <1>4 DEF OnTime, Slack, InBurst
<1> HIDE DEF t
<1>6. g_currentTick - since[t] < b.length + Cardinality(Tasks) - 1
  BY <1>2, <1>3, <1>5
<1>7. QED BY <1>5, <1>6 DEF t

\* A task leaves g_io at most n - 1 ticks after its burst is due, where n is the
\* number of tasks: the I/O loop passes over it no more often than there are
\* other tasks.  This bounds bursts from above only.
THEOREM BurstsEndInTime ==
  BurstsApart => (Spec /\ []ExtractsAtEnds => []BurstEndsInTime)
<1> SUFFICES ASSUME BurstsApart
             PROVE  Spec /\ []ExtractsAtEnds => []BurstEndsInTime
  OBVIOUS
<1>1. Spec /\ []ExtractsAtEnds => [](CInv /\ BurstInv)
  BY BurstInvariance
<1>2. QED BY <1>1, BurstHolds, PTL

\* With two tasks, such as input() creates, a task leaves g_io at most one tick
\* after its burst is due: one tick late if both bursts end together.
THEOREM TwoTasksBurstsEndInTime ==
  AtMostTwoTasks /\ BurstsApart => (Spec => []BurstEndsInTime)
<1> SUFFICES ASSUME AtMostTwoTasks, BurstsApart
             PROVE  Spec => []BurstEndsInTime
  OBVIOUS
<1>1. Spec => []ExtractsAtEnds
  BY TwoTasksExtractAtEnds
<1>2. Spec /\ []ExtractsAtEnds => []BurstEndsInTime
  BY BurstsEndInTime
<1>3. QED BY <1>1, <1>2, PTL

-----------------------------------------------------------------------------
(***************************************************************************)
(* The scheduler implements the process state diagram.                     *)
(***************************************************************************)

\* The state of a task is the list that it is in.
LEMMA StateOfLists ==
  ASSUME NoTaskDoubled, NEW t \in Tasks
  PROVE  /\ InList(t, g_input)  => StateOf(t) = "input"
         /\ InList(t, g_ready)  => StateOf(t) = "ready"
         /\ InList(t, g_active) => StateOf(t) = "active"
         /\ InList(t, g_io)     => StateOf(t) = "io"
         /\ \/ InList(t, g_input) \/ InList(t, g_ready)
            \/ InList(t, g_active) \/ InList(t, g_io)
            \/ StateOf(t) = "finished"
BY DEF StateOf, NoTaskDoubled, Disjoint

\* So it is after a step.
LEMMA NextStateOfLists ==
  ASSUME NoTaskDoubled', NEW t \in Tasks
  PROVE  /\ InList(t, g_input')  => StateOf(t)' = "input"
         /\ InList(t, g_ready')  => StateOf(t)' = "ready"
         /\ InList(t, g_active') => StateOf(t)' = "active"
         /\ InList(t, g_io')     => StateOf(t)' = "io"
         /\ \/ InList(t, g_input') \/ InList(t, g_ready')
            \/ InList(t, g_active') \/ InList(t, g_io')
            \/ StateOf(t)' = "finished"
BY DEF StateOf, NoTaskDoubled, Disjoint

\* A task whose lists do not change keeps its state.
LEMMA SameLists ==
  ASSUME NEW t \in Tasks,
         InList(t, g_input') <=> InList(t, g_input),
         InList(t, g_ready') <=> InList(t, g_ready),
         InList(t, g_active') <=> InList(t, g_active),
         InList(t, g_io') <=> InList(t, g_io)
  PROVE  StateOf(t)' = StateOf(t)
BY DEF StateOf

\* A step that changes the state of one task only is a Move of it.
LEMMA OneMoves ==
  ASSUME NEW t \in Tasks, NEW from, NEW to,
         StateOf(t) = from, StateOf(t)' = to,
         \A u \in Tasks : u # t => StateOf(u)' = StateOf(u)
  PROVE  Lifecycle!Move(t, from, to)
BY DEF Lifecycle!Move

\* At the start every task is in g_input.
LEMMA InitRefines == Init => Lifecycle!Init
<1> SUFFICES ASSUME Init, NEW t \in Tasks PROVE StateOf(t) = "input"
  BY DEF Lifecycle!Init
<1>1. InList(t, g_input)
  BY ArrivalAssumption DEF Init, InList
<1>2. QED
  BY <1>1, InitConserved, StateOfLists DEF NoTaskLostOrDoubled

\* Every step is an edge of the diagram or a stutter.
LEMMA NextRefines ==
  CInv /\ ExtractsAtEnds /\ [Next]_vars
    => [Lifecycle!Next]_([t \in Tasks |-> StateOf(t)])
<1> SUFFICES ASSUME CInv, ExtractsAtEnds, [Next]_vars
             PROVE  [Lifecycle!Next]_([t \in Tasks |-> StateOf(t)])
  OBVIOUS
<1>0. NoTaskDoubled /\ NoTaskDoubled'
  BY NextConserved, ListsOfCInv DEF NoTaskLostOrDoubled
<1>1. CASE Admit
  <2>1. PICK t \in Tasks : /\ Takes(g_input, t, g_input')
                           /\ Puts(g_ready, t, g_ready')
    BY <1>1, AdmitMoves
  <2>2. UNCHANGED <<g_active, g_io>>
    BY <1>1, AdmitMoves
  <2>3. StateOf(t) = "input" /\ StateOf(t)' = "ready"
    BY <1>0, <2>1, StateOfLists, NextStateOfLists DEF Takes, Puts
  <2>4. \A u \in Tasks : u # t => StateOf(u)' = StateOf(u)
    BY <2>1, <2>2, SameLists DEF Takes, Puts
  <2>5. Lifecycle!Admit(t)
    BY <2>3, <2>4, OneMoves DEF Lifecycle!Admit
  <2>6. QED BY <2>5 DEF Lifecycle!Next
<1>2. CASE PingActive
  <2>1. PICK t \in Tasks :
          /\ InList(t, g_active) /\ ~InList(t, g_ready)
          /\ ~InList(t, g_io) /\ ~InList(t, g_input)
          /\ \/ Takes(g_active, t, g_active') /\ UNCHANGED g_io
             \/ Takes(g_active, t, g_active') /\ Puts(g_io, t, g_io')
             \/ UNCHANGED <<g_active, g_io>>
    BY <1>2, PingActiveMoves
  <2>2. UNCHANGED <<g_ready, g_input>>
    BY <1>2, PingActiveMoves
  <2>3. StateOf(t) = "active"
    BY <1>0, <2>1, StateOfLists
  <2>4. CASE Takes(g_active, t, g_active') /\ UNCHANGED g_io
    <3>1. StateOf(t)' = "finished"
      BY <1>0, <2>1, <2>2, <2>4, NextStateOfLists DEF Takes
    <3>2. \A u \in Tasks : u # t => StateOf(u)' = StateOf(u)
      BY <2>2, <2>4, SameLists DEF Takes
    <3>3. Lifecycle!Finish(t)
      BY <2>3, <3>1, <3>2, OneMoves DEF Lifecycle!Finish
    <3>4. QED BY <3>3 DEF Lifecycle!Next
  <2>5. CASE Takes(g_active, t, g_active') /\ Puts(g_io, t, g_io')
    <3>1. StateOf(t)' = "io"
      BY <1>0, <2>5, NextStateOfLists DEF Puts
    <3>2. \A u \in Tasks : u # t => StateOf(u)' = StateOf(u)
      BY <2>2, <2>5, SameLists DEF Takes, Puts
    <3>3. Lifecycle!Block(t)
      BY <2>3, <3>1, <3>2, OneMoves DEF Lifecycle!Block
    <3>4. QED BY <3>3 DEF Lifecycle!Next
  <2>6. CASE UNCHANGED <<g_active, g_io>>
    BY <2>2, <2>6, SameLists
  <2>7. QED BY <2>1, <2>4, <2>5, <2>6
<1>3. CASE PingIo
  <2>1. PICK t \in Tasks :
          /\ InList(t, g_io)
          /\ \/ UNCHANGED <<g_io, g_ready>>
             \/ Takes(g_io, t, g_io') /\ Puts(g_ready, t, g_ready')
    BY <1>3, PingIoMoves
  <2>2. UNCHANGED <<g_active, g_input>>
    BY <1>3, PingIoMoves
  <2>3. CASE UNCHANGED <<g_io, g_ready>>
    BY <2>2, <2>3, SameLists
  <2>4. CASE Takes(g_io, t, g_io') /\ Puts(g_ready, t, g_ready')
    <3>1. StateOf(t) = "io" /\ StateOf(t)' = "ready"
      BY <1>0, <2>1, <2>4, StateOfLists, NextStateOfLists DEF Puts
    <3>2. \A u \in Tasks : u # t => StateOf(u)' = StateOf(u)
      BY <2>2, <2>4, SameLists DEF Takes, Puts
    <3>3. Lifecycle!Unblock(t)
      BY <3>1, <3>2, OneMoves DEF Lifecycle!Unblock
    <3>4. QED BY <3>3 DEF Lifecycle!Next
  <2>5. QED BY <2>1, <2>3, <2>4
<1>4. CASE LeaveCpu
  <2>1. UNCHANGED <<g_io, g_input>>
    BY <1>4, LeaveCpuMoves
  <2>2. CASE UNCHANGED <<g_active, g_ready>>
    BY <2>1, <2>2, SameLists
  <2>3. ASSUME NEW t \in Tasks, Takes(g_active, t, g_active'),
               Puts(g_ready, t, g_ready')
        PROVE  Lifecycle!Next
    <3>1. StateOf(t) = "active" /\ StateOf(t)' = "ready"
      BY <1>0, <2>3, StateOfLists, NextStateOfLists DEF Takes, Puts
    <3>2. \A u \in Tasks : u # t => StateOf(u)' = StateOf(u)
      BY <2>1, <2>3, SameLists DEF Takes, Puts
    <3>3. Lifecycle!Preempt(t)
      BY <3>1, <3>2, OneMoves DEF Lifecycle!Preempt
    <3>4. QED BY <3>3 DEF Lifecycle!Next
  <2>4. QED BY <1>4, <2>2, <2>3, LeaveCpuMoves
<1>5. CASE OccupyCpu
  <2>1. UNCHANGED <<g_io, g_input>> /\ Len(g_active) = 0
    BY <1>5, OccupyCpuMoves
  <2>2. CASE UNCHANGED <<g_active, g_ready>>
    BY <2>1, <2>2, SameLists
  <2>3. ASSUME NEW t \in Tasks, Takes(g_ready, t, g_ready'),
               Puts(g_active, t, g_active')
        PROVE  Lifecycle!Next
    <3>1. StateOf(t) = "ready" /\ StateOf(t)' = "active"
      BY <1>0, <2>3, StateOfLists, NextStateOfLists DEF Takes, Puts
    <3>2. \A u \in Tasks : u # t => StateOf(u)' = StateOf(u)
      BY <2>1, <2>3, SameLists DEF Takes, Puts
    <3>3. \A u \in Tasks : StateOf(u) # "active"
      <4>1. \A u : ~InList(u, g_active)
        BY <2>1 DEF InList
      <4>2. QED BY <4>1 DEF StateOf
    <3>4. Lifecycle!Dispatch(t)
      BY <3>1, <3>2, <3>3, OneMoves DEF Lifecycle!Dispatch
    <3>5. QED BY <3>4 DEF Lifecycle!Next
  <2>4. QED BY <1>5, <2>2, <2>3, OccupyCpuMoves
<1>6. CASE QuietStep
  <2>1. UNCHANGED <<g_ready, g_active, g_io, g_input>>
    BY <1>6, QuietSteps
  <2>2. QED BY <2>1, SameLists
<1>7. QED
  BY <1>1, <1>2, <1>3, <1>4, <1>5, <1>6 DEF Next, QuietStep

\* In a run that extracts at the ends only, the four lists move a task along
\* the edges of the process state diagram, one task in a step.
THEOREM FollowsTheDiagram == Spec /\ []ExtractsAtEnds => RefinesLifecycle
<1>1. Init => Lifecycle!Init
  BY InitRefines
<1>2. CInv /\ TimeInv /\ ExtractsAtEnds /\ [Next]_vars
        => [Lifecycle!Next]_([t \in Tasks |-> StateOf(t)])
  BY NextRefines
<1>3. QED
  BY <1>1, <1>2, TimeInvariance, PTL DEF Spec, RefinesLifecycle, Lifecycle!Spec

\* So do the two tasks that input() creates, without a condition.
THEOREM TwoTasksFollowTheDiagram == AtMostTwoTasks => (Spec => RefinesLifecycle)
<1> SUFFICES ASSUME AtMostTwoTasks PROVE Spec => RefinesLifecycle
  OBVIOUS
<1>1. Spec => []ExtractsAtEnds
  BY TwoTasksExtractAtEnds
<1>2. QED BY <1>1, FollowsTheDiagram, PTL

=============================================================================
