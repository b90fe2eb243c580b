----------------------------- MODULE RoundRobin -----------------------------
(***************************************************************************)
(* The round-robin scheduler simulation of samples/rr/main.cpp.            *)
(*                                                                         *)
(* One scheduler tick is one turn of the loop in main: schedule() counts   *)
(* the quantum down, admits arrived tasks (checkInputQueue), lets the CPU  *)
(* and the I/O device advance their tasks (pingTasks) and, unless the      *)
(* active task may go on, dispatches the head of the ready list.  An       *)
(* action is one iteration of one of these loops; pc names the code that   *)
(* runs next and i is the loop index.                                      *)
(***************************************************************************)
EXTENDS RRList, RRTask, FiniteSets

CONSTANTS
  Tasks,          \* the tasks that input() creates
  Arrival,        \* the order in which input() adds them to g_input
  TaskTables,     \* the descriptors input() may give them
  Quant,          \* QUANT, 10 in the code
  MaxCounts       \* MAX_COUNTS, 500 in the code

ASSUME ArrivalAssumption ==
  /\ Arrival \in Seq(Tasks)
  /\ \A t \in Tasks : \E k \in 1 .. Len(Arrival) : Arrival[k] = t
  /\ \A k, l \in 1 .. Len(Arrival) : Arrival[k] = Arrival[l] => k = l
  /\ Len(Arrival) <= MaxListItems

ASSUME TableAssumption == TaskTables \subseteq [Tasks -> Descriptor]

ASSUME ClockAssumption == Quant \in Nat \ {0} /\ MaxCounts \in Nat

VARIABLES
  g_ready,          \* tasks that wait for the CPU
  g_active,         \* the task on the CPU
  g_io,             \* tasks inside an I/O burst
  g_input,          \* tasks that have not arrived
  g_q,              \* ticks left of the current quantum
  g_currentTick,    \* the clock
  g_isRescheduled,  \* set by pingTasks: dispatch at the end of this tick
  currentTime,      \* per task: how far it has come
  table,            \* per task: its descriptor, fixed by input()
  pc,               \* the code that runs next
  i,                \* loop index of checkInputQueue and pingTasks
  since             \* history: the tick at which a task entered its list

lists == <<g_ready, g_active, g_io, g_input>>

vars == <<g_ready, g_active, g_io, g_input, g_q, g_currentTick,
          g_isRescheduled, currentTime, table, pc, i, since>>

Labels == {"schedule", "checkInputQueue", "pingActive", "pingIo",
           "leaveCpu", "occupyCpu", "endOfTick", "done"}

TypeOK ==
  /\ g_ready \in Seq(Tasks)
  /\ g_active \in Seq(Tasks)
  /\ g_io \in Seq(Tasks)
  /\ g_input \in Seq(Tasks)
  /\ g_q \in 0 .. Quant
  /\ g_currentTick \in Nat
  /\ g_isRescheduled \in BOOLEAN
  /\ table \in [Tasks -> Descriptor]
  /\ currentTime \in [Tasks -> Nat]
  /\ \A t \in Tasks : currentTime[t] <= table[t].length
  /\ pc \in Labels
  /\ i \in Nat
  /\ since \in [Tasks -> Nat]

-----------------------------------------------------------------------------

Init ==
  /\ g_ready = <<>>
  /\ g_active = <<>>
  /\ g_io = <<>>
  /\ g_input = Arrival
  /\ g_q = Quant
  /\ g_currentTick = 0
  /\ g_isRescheduled = FALSE
  /\ currentTime = [t \in Tasks |-> 0]
  /\ table \in TaskTables
  /\ pc = "schedule"
  /\ i = 0
  /\ since = [t \in Tasks |-> 0]

\* The task moves to another list at this tick.
Stamp(t) == since' = [since EXCEPT ![t] = g_currentTick]

\* schedule() starts by taking one tick off the quantum.
Schedule ==
  /\ pc = "schedule"
  /\ g_q' = g_q - 1
  /\ i' = 0
  /\ pc' = "checkInputQueue"
  /\ UNCHANGED <<lists, g_currentTick, g_isRescheduled, currentTime, table,
                 since>>

\* checkInputQueue(): a task that has arrived goes to the ready list; the
\* index stays, since the next task is expected to move down to it.
Admit ==
  /\ pc = "checkInputQueue"
  /\ i < Len(g_input)
  /\ LET t == GetItem(g_input, i) IN
       /\ table[t].startTime <= g_currentTick
       /\ g_input' = Extract(g_input, i)
       /\ g_ready' = AddItem(g_ready, t)
       /\ Stamp(t)
  /\ UNCHANGED <<g_active, g_io, g_q, g_currentTick, g_isRescheduled,
                 currentTime, table, pc, i>>

NotYetArrived ==
  /\ pc = "checkInputQueue"
  /\ i < Len(g_input)
  /\ table[GetItem(g_input, i)].startTime > g_currentTick
  /\ i' = i + 1
  /\ UNCHANGED <<lists, g_q, g_currentTick, g_isRescheduled, currentTime,
                 table, pc, since>>

\* checkInputQueue() returns and pingTasks() is entered.
StartPing ==
  /\ pc = "checkInputQueue"
  /\ i >= Len(g_input)
  /\ g_isRescheduled' = FALSE
  /\ i' = 0
  /\ pc' = "pingActive"
  /\ UNCHANGED <<lists, g_q, g_currentTick, currentTime, table, since>>

\* First loop of pingTasks(): the task on the CPU advances by one; it
\* leaves the CPU when that finishes it or takes it into an I/O burst.
PingActive ==
  /\ pc = "pingActive"
  /\ i < Len(g_active)
  /\ LET t   == GetItem(g_active, i)
         now == Tick(table[t], currentTime[t])
     IN /\ currentTime' = [currentTime EXCEPT ![t] = now]
        /\ \/ /\ IsFinished(table[t], now)
              /\ g_active' = Pop(g_active)
              /\ g_isRescheduled' = TRUE
              /\ Stamp(t)
              /\ UNCHANGED <<g_io, i>>
           \/ /\ ~IsFinished(table[t], now)
              /\ IsIoState(table[t], now)
              /\ g_active' = Pop(g_active)
              /\ g_io' = AddItem(g_io, t)
              /\ g_isRescheduled' = TRUE
              /\ Stamp(t)
              /\ UNCHANGED i
           \/ /\ ~IsFinished(table[t], now)
              /\ ~IsIoState(table[t], now)
              /\ i' = i + 1
              /\ UNCHANGED <<g_active, g_io, g_isRescheduled, since>>
  /\ UNCHANGED <<g_ready, g_input, g_q, g_currentTick, table, pc>>

StartPingIo ==
  /\ pc = "pingActive"
  /\ i >= Len(g_active)
  /\ i' = 0
  /\ pc' = "pingIo"
  /\ UNCHANGED <<lists, g_q, g_currentTick, g_isRescheduled, currentTime,
                 table, since>>

\* Mutant: no step back.
BackInTime_Stays(time) == time

BackInTime(time) == time - 1

\* Second loop of pingTasks(): the I/O device advances a task, also one
\* that the first loop has just put there.  A task whose burst is over goes
\* back to the ready list, one step back in time so that the CPU can take
\* the step that ends the burst.  The index moves on in both cases.
PingIo ==
  /\ pc = "pingIo"
  /\ i < Len(g_io)
  /\ LET t   == GetItem(g_io, i)
         now == Tick(table[t], currentTime[t])
     IN \/ /\ IsIoState(table[t], now)
           /\ currentTime' = [currentTime EXCEPT ![t] = now]
           /\ UNCHANGED <<g_io, g_ready, g_isRescheduled, since>>
        \/ /\ ~IsIoState(table[t], now)
           /\ g_io' = Extract(g_io, i)
           /\ g_ready' = AddItem(g_ready, t)
           /\ currentTime' = [currentTime EXCEPT ![t] = BackInTime(now)]
           /\ g_isRescheduled' = TRUE
           /\ Stamp(t)
  /\ i' = i + 1
  /\ UNCHANGED <<g_active, g_input, g_q, g_currentTick, table, pc>>

EndPing ==
  /\ pc = "pingIo"
  /\ i >= Len(g_io)
  /\ pc' = "leaveCpu"
  /\ UNCHANGED <<lists, g_q, g_currentTick, g_isRescheduled, currentTime,
                 table, i, since>>

\* Mutants: each forgets one conjunct, the last is off by one.
MayGoOn_AnyQuant    == ~g_isRescheduled /\ Len(g_active) > 0
MayGoOn_IdleCpu     == g_q > 0 /\ ~g_isRescheduled
MayGoOn_OneMoreTick == g_q >= 0 /\ ~g_isRescheduled /\ Len(g_active) > 0

MayGoOn == g_q > 0 /\ ~g_isRescheduled /\ Len(g_active) > 0

JustWork ==
  /\ pc = "leaveCpu"
  /\ MayGoOn
  /\ pc' = "endOfTick"
  /\ UNCHANGED <<lists, g_q, g_currentTick, g_isRescheduled, currentTime,
                 table, i, since>>

\* The active task, if there is one, goes to the end of the ready list.
LeaveCpu ==
  /\ pc = "leaveCpu"
  /\ ~MayGoOn
  /\ g_q' = Quant
  /\ g_active' = Pop(g_active)
  /\ IF Len(g_active) > 0
     THEN /\ g_ready' = AddItem(g_ready, Head(g_active))
          /\ Stamp(Head(g_active))
     ELSE UNCHANGED <<g_ready, since>>
  /\ pc' = "occupyCpu"
  /\ UNCHANGED <<g_io, g_input, g_currentTick, g_isRescheduled, currentTime,
                 table, i>>

\* The head of the ready list, if there is one, gets the CPU.
OccupyCpu ==
  /\ pc = "occupyCpu"
  /\ g_ready' = Pop(g_ready)
  /\ IF Len(g_ready) > 0
     THEN /\ g_active' = AddItem(g_active, Head(g_ready))
          /\ Stamp(Head(g_ready))
     ELSE UNCHANGED <<g_active, since>>
  /\ pc' = "endOfTick"
  /\ UNCHANGED <<g_io, g_input, g_q, g_currentTick, g_isRescheduled,
                 currentTime, table, i>>

AllListsEmpty ==
  Len(g_ready) = 0 /\ Len(g_active) = 0 /\ Len(g_io) = 0 /\ Len(g_input) = 0

\* The clock ticks; main leaves its loop when nothing is left to schedule
\* or when the clock has passed MAX_COUNTS.
EndOfTick ==
  /\ pc = "endOfTick"
  /\ g_currentTick' = g_currentTick + 1
  /\ pc' = IF AllListsEmpty \/ g_currentTick + 1 > MaxCounts
           THEN "done" ELSE "schedule"
  /\ UNCHANGED <<lists, g_q, g_isRescheduled, currentTime, table, i, since>>

\* main has printed "DONE." and returned.
Terminating == pc = "done" /\ UNCHANGED vars

Next ==
  \/ Schedule
  \/ Admit \/ NotYetArrived \/ StartPing
  \/ PingActive \/ StartPingIo \/ PingIo \/ EndPing
  \/ JustWork \/ LeaveCpu \/ OccupyCpu
  \/ EndOfTick
  \/ Terminating

\* One thread runs main, so it never stops between two statements.
Spec == Init /\ [][Next]_vars /\ WF_vars(Next)

-----------------------------------------------------------------------------
(***************************************************************************)
(* Safety                                                                  *)
(***************************************************************************)

InList(t, list) == \E k \in 1 .. Len(list) : list[k] = t

NoDoubles(list) == \A k, l \in 1 .. Len(list) : list[k] = list[l] => k = l

Disjoint(list1, list2) == \A t \in Tasks : ~(InList(t, list1) /\ InList(t, list2))

\* A task is at most once in at most one of the four lists ...
NoTaskDoubled ==
  /\ NoDoubles(g_ready) /\ NoDoubles(g_active)
  /\ NoDoubles(g_io) /\ NoDoubles(g_input)
  /\ Disjoint(g_ready, g_active) /\ Disjoint(g_ready, g_io)
  /\ Disjoint(g_ready, g_input) /\ Disjoint(g_active, g_io)
  /\ Disjoint(g_active, g_input) /\ Disjoint(g_io, g_input)

\* ... and only a task that has run to its end is in none of them.
NoTaskLost ==
  \A t \in Tasks :
    \/ InList(t, g_ready) \/ InList(t, g_active)
    \/ InList(t, g_io) \/ InList(t, g_input)
    \/ IsFinished(table[t], currentTime[t])

\* No sequence of list operations of the scheduler, memmove included, loses
\* an unfinished task or doubles one.
NoTaskLostOrDoubled == NoTaskDoubled /\ NoTaskLost

\* schedule() never leaves the CPU idle while a task is ready, whatever
\* pingTasks did to the active task in the same tick.
WorkConserving == pc = "endOfTick" /\ Len(g_ready) > 0 => Len(g_active) > 0

\* The count-down g_q tells how long the active task has had the CPU, so no
\* task holds it for more than QUANT ticks, through all early dispatches.
QuantumAccounting ==
  pc = "endOfTick" =>
    \A k \in 1 .. Len(g_active) :
      /\ g_q \in 1 .. Quant
      /\ g_currentTick - since[g_active[k]] = Quant - g_q

\* A ready task gets the CPU after at most one quantum of each other task,
\* although tasks return from I/O and arrive all the time.
BoundedWait ==
  pc = "endOfTick" =>
    \A k \in 1 .. Len(g_ready) :
      g_currentTick - since[g_ready[k]] <= (Cardinality(Tasks) - 1) * Quant

\* pingTasks advances a task twice in the tick that takes it into a burst
\* and moves it one step back when the burst ends.  The two cancel out: no
\* task is ever ahead of the clock, counted from its arrival, except by the
\* one step of a running burst.
NeverAheadOfClock ==
  pc = "endOfTick" =>
    \A t \in Tasks :
      /\ InList(t, g_ready) \/ InList(t, g_active) =>
           currentTime[t] + table[t].startTime <= g_currentTick
      /\ InList(t, g_io) =>
           currentTime[t] + table[t].startTime <= g_currentTick + 1

\* A burst keeps its task in g_io for at most its length, plus one tick for
\* each other task: the I/O loop passes over the task that moves down when
\* another one is extracted.
BurstEndsInTime ==
  pc = "endOfTick" =>
    \A k \in 1 .. Len(g_io) :
      LET t == g_io[k] IN
        \E b \in table[t].io :
          /\ InBurst(b, currentTime[t])
          /\ g_currentTick - since[t] < b.length + Cardinality(Tasks) - 1

-----------------------------------------------------------------------------
(***************************************************************************)
(* Refinement                                                              *)
(***************************************************************************)

StateOf(t) == CASE InList(t, g_input)  -> "input"
                [] InList(t, g_ready)  -> "ready"
                [] InList(t, g_active) -> "active"
                [] InList(t, g_io)     -> "io"
                [] OTHER               -> "finished"

Lifecycle == INSTANCE CpuLifecycle WITH state <- [t \in Tasks |-> StateOf(t)]

\* Every loop iteration of the scheduler moves at most one task, and only
\* along an edge of the process state diagram.
RefinesLifecycle == Lifecycle!Spec

-----------------------------------------------------------------------------
(***************************************************************************)
(* Action properties and liveness                                          *)
(***************************************************************************)

\* A task that pingTasks sends back to the ready list has left g_io.
FinishedBurstLeavesIo ==
  [][\A t \in Tasks :
       PingIo /\ InList(t, g_ready') /\ ~InList(t, g_ready)
         => ~InList(t, g_io')]_vars

\* main stops by itself, every task having run to its end.
AllTasksFinish ==
  <>(/\ pc = "done"
     /\ \A t \in Tasks : IsFinished(table[t], currentTime[t]))

=============================================================================
