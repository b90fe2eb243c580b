---------------------------- MODULE CpuLifecycle ----------------------------
(***************************************************************************)
(* What a single-CPU scheduler promises, whatever its queues look like:    *)
(* every task is in exactly one state, moves only along the edges of the   *)
(* process state diagram, and the CPU has at most one task.                *)
(***************************************************************************)
CONSTANT Tasks

VARIABLE state

States == {"input", "ready", "active", "io", "finished"}

TypeOK == state \in [Tasks -> States]

Init == state = [t \in Tasks |-> "input"]

Move(t, from, to) ==
  /\ state[t] = from
  /\ state' = [state EXCEPT ![t] = to]

Admit(t)    == Move(t, "input", "ready")
Finish(t)   == Move(t, "active", "finished")
Block(t)    == Move(t, "active", "io")
Unblock(t)  == Move(t, "io", "ready")
Preempt(t)  == Move(t, "active", "ready")
Dispatch(t) == /\ \A u \in Tasks : state[u] # "active"
               /\ Move(t, "ready", "active")

Next == \E t \in Tasks : \/ Admit(t)
                         \/ Finish(t)
                         \/ Block(t)
                         \/ Unblock(t)
                         \/ Preempt(t)
                         \/ Dispatch(t)

Spec == Init /\ [][Next]_state

-----------------------------------------------------------------------------

\* Two tasks never hold the CPU together.
AtMostOneActive ==
  \A t, u \in Tasks : state[t] = "active" /\ state[u] = "active" => t = u

=============================================================================
