----------------------------- MODULE SharedCell -----------------------------
(***************************************************************************)
(* The two processes of 1142/Vinogradow.Aleksey/3, which talk through one  *)
(* shared int: B writes a number when the cell is 0, A sleeps on it and    *)
(* writes 0 back, and after the last number B writes -1 to end A.  Neither *)
(* locks anything; every read of *adr is an action of its own.             *)
(***************************************************************************)
EXTENDS Integers, Sequences

CONSTANTS
  Numbers,      \* what rand() % 1000 + 1 may give
  Rounds        \* how many numbers B writes, 8 in the code

ASSUME NumberAssumption == Numbers \subseteq Nat \ {0}

ASSUME RoundAssumption == Rounds \in Nat

VARIABLES
  cell,         \* *adr
  a, b,         \* what A and B do next
  count,        \* B's count
  rand_zn,      \* B's number
  removed,      \* main has removed the segment
  sent, seen    \* history: the numbers B wrote, and A says it cleared

vars == <<cell, a, b, count, rand_zn, removed, sent, seen>>

\* main has created the segment, written 0 and forked.
Init ==
  /\ cell = 0
  /\ a = "attach" /\ b = "attach"
  /\ count = 0
  /\ rand_zn = 0
  /\ removed = FALSE
  /\ sent = <<>> /\ seen = <<>>

-----------------------------------------------------------------------------
(***************************************************************************)
(* rej_A                                                                   *)
(***************************************************************************)

UnchangedB == UNCHANGED <<b, count, rand_zn, removed, sent>>

AttachA ==
  /\ a = "attach"
  /\ ~removed
  /\ a' = "while"
  /\ UNCHANGED <<cell, seen>> /\ UnchangedB

\* The condition of the while loop, ...
While ==
  /\ a = "while"
  /\ a' = IF cell # -1 THEN "ifNumber" ELSE "exited"
  /\ UNCHANGED <<cell, seen>> /\ UnchangedB

\* ... and the two of the if, each of which reads the cell again.
IfNumber ==
  /\ a = "ifNumber"
  /\ a' = IF cell # 0 THEN "ifNotEnd" ELSE "while"
  /\ UNCHANGED <<cell, seen>> /\ UnchangedB

\* Mutant: the end mark is not told from a number the second time.
IfNotEnd_Any ==
  /\ a = "ifNotEnd"
  /\ a' = "sleep"
  /\ UNCHANGED <<cell, seen>> /\ UnchangedB

IfNotEnd ==
  /\ a = "ifNotEnd"
  /\ a' = IF cell # -1 THEN "sleep" ELSE "while"
  /\ UNCHANGED <<cell, seen>> /\ UnchangedB

\* A wakes up, names the number that it finds now ...
Wake ==
  /\ a = "sleep"
  /\ seen' = Append(seen, cell)
  /\ a' = "clear"
  /\ UNCHANGED cell /\ UnchangedB

\* ... and clears the cell.
Clear ==
  /\ a = "clear"
  /\ cell' = 0
  /\ a' = "while"
  /\ UNCHANGED seen /\ UnchangedB

A == AttachA \/ While \/ IfNumber \/ IfNotEnd \/ Wake \/ Clear

-----------------------------------------------------------------------------
(***************************************************************************)
(* rej_B                                                                   *)
(***************************************************************************)

UnchangedA == UNCHANGED <<a, seen, removed>>

AttachB ==
  /\ b = "attach"
  /\ ~removed
  /\ b' = "loop"
  /\ UNCHANGED <<cell, count, rand_zn, sent>> /\ UnchangedA

\* Mutant: B does not wait for A.
MayWrite_Always == TRUE

MayWrite == cell = 0
IsLast(c) == c > Rounds

\* The cell is free: B draws the next number, or is through.
Draw ==
  /\ b = "loop"
  /\ MayWrite
  /\ count' = count + 1
  /\ IF IsLast(count')
     THEN b' = "end" /\ UNCHANGED rand_zn
     ELSE b' = "write" /\ rand_zn' \in Numbers
  /\ UNCHANGED <<cell, sent>> /\ UnchangedA

\* The cell is not free: B sleeps and looks again.
Sleep ==
  /\ b = "loop"
  /\ ~MayWrite
  /\ UNCHANGED vars

Write ==
  /\ b = "write"
  /\ cell' = rand_zn
  /\ sent' = Append(sent, rand_zn)
  /\ b' = "loop"
  /\ UNCHANGED <<count, rand_zn>> /\ UnchangedA

End ==
  /\ b = "end"
  /\ cell' = -1
  /\ b' = "exited"
  /\ UNCHANGED <<count, rand_zn, sent>> /\ UnchangedA

B == AttachB \/ Draw \/ Sleep \/ Write \/ End

-----------------------------------------------------------------------------
\* The process that forked waits for the other one and removes the segment.
Remove ==
  /\ a = "exited" /\ b = "exited"
  /\ ~removed
  /\ removed' = TRUE
  /\ UNCHANGED <<cell, a, b, count, rand_zn, sent, seen>>

Terminating == removed /\ UNCHANGED vars

Next == A \/ B \/ Remove \/ Terminating

\* Both are processes of the operating system, which runs them all.
Spec == Init /\ [][Next]_vars /\ WF_vars(A) /\ WF_vars(B) /\ WF_vars(Remove)

-----------------------------------------------------------------------------
(***************************************************************************)
(* Properties                                                              *)
(***************************************************************************)

IsPrefix(s, t) == Len(s) <= Len(t) /\ \A k \in 1 .. Len(s) : s[k] = t[k]

\* Without any lock, no number is lost, cleared twice or cleared unseen: A
\* has seen all that B wrote, except for one that is still in the cell.
NothingLost ==
  /\ IsPrefix(seen, sent)
  /\ Len(sent) - Len(seen) = IF cell \in Numbers /\ a # "clear" THEN 1 ELSE 0

\* The end mark stands: nobody writes over it.
EndStands == [][cell = -1 => cell' = -1]_vars

\* Both processes end and the segment is removed.
BothEnd == <>removed

=============================================================================
