------------------------------- MODULE RRTask -------------------------------
(***************************************************************************)
(* The task of samples/rr/task.cpp.  A descriptor holds what init and      *)
(* addIo fix before the simulation starts: length, startTime and the set   *)
(* of I/O bursts.  The one field that changes later, currentTime, is the   *)
(* argument time here and a variable of module RoundRobin.                 *)
(***************************************************************************)
EXTENDS Integers

Burst == [start : Nat, length : Nat]

Descriptor == [length : Nat, startTime : Nat, io : SUBSET Burst]

\* The CPU and the I/O device both advance a task, never past its length.
Tick(d, time) == IF time < d.length THEN time + 1 ELSE time

\* Mutant: one tick too late, which Tick never reaches.
IsFinished_After(d, time) == time > d.length

IsFinished(d, time) == time >= d.length

\* Mutant: the burst is two ticks too long.
InBurst_Longer(b, time) == time >= b.start /\ time - b.start <= b.length + 2

InBurst(b, time) == time >= b.start /\ time - b.start <= b.length

IsIoState(d, time) == \E b \in d.io : InBurst(b, time)

=============================================================================
