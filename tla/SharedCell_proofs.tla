------------------------- MODULE SharedCell_proofs -------------------------
(***************************************************************************)
(* Proofs about SharedCell, for any number of rounds: the two processes    *)
(* hand the one cell to each other without a lock, because each writes     *)
(* only when what it has read before can no longer be changed by the other.*)
(***************************************************************************)
EXTENDS SharedCell, SequenceTheorems, TLAPS

TypeInv ==
  /\ cell \in Numbers \cup {0, -1}
  /\ a \in {"attach", "while", "ifNumber", "ifNotEnd", "sleep", "clear",
            "exited"}
  /\ b \in {"attach", "loop", "write", "end", "exited"}
  /\ rand_zn \in Numbers \cup {0}
  /\ b = "write" => rand_zn \in Numbers
  /\ sent \in Seq(Numbers)
  /\ seen \in Seq(Numbers)

\* Whose turn it is: B writes to a cell that is 0, A clears a number, and the
\* end mark is there when B has ended, and not before.
TurnInv ==
  /\ b \in {"attach", "write", "end"} => cell = 0
  /\ b = "exited" <=> cell = -1
  /\ a = "ifNotEnd" => cell # 0
  /\ a \in {"sleep", "clear"} => cell \in Numbers

\* What B wrote is what A has named, and what it will name next.
SyncInv ==
  sent = IF cell \in Numbers /\ a # "clear" THEN Append(seen, cell) ELSE seen

IInv == TypeInv /\ TurnInv /\ SyncInv

-----------------------------------------------------------------------------
LEMMA InitInv == Init => IInv
BY NumberAssumption, EmptySeq DEF Init, IInv, TypeInv, TurnInv, SyncInv

\* Each step of the two processes keeps the invariant.
LEMMA StepInv == IInv /\ [Next]_vars => IInv'
<1> SUFFICES ASSUME IInv, [Next]_vars PROVE IInv'
  OBVIOUS
<1> USE NumberAssumption DEF IInv, TypeInv, TurnInv, SyncInv
<1>1. CASE AttachA \/ While \/ IfNumber \/ IfNotEnd
  BY <1>1 DEF AttachA, While, IfNumber, IfNotEnd, UnchangedB
<1>2. CASE Wake
  BY <1>2 DEF Wake, UnchangedB
<1>3. CASE Clear
  BY <1>3 DEF Clear, UnchangedB
<1>4. CASE AttachB \/ Sleep \/ Draw
  BY <1>4 DEF AttachB, Sleep, Draw, MayWrite, UnchangedA, vars
<1>5. CASE Write
  BY <1>5 DEF Write, UnchangedA
<1>6. CASE End
  BY <1>6 DEF End, UnchangedA
<1>7. CASE Remove \/ Terminating \/ UNCHANGED vars
  BY <1>7 DEF Remove, Terminating, vars
<1>8. QED
  BY <1>1, <1>2, <1>3, <1>4, <1>5, <1>6, <1>7 DEF Next, A, B

LEMMA AlwaysInv == Spec => []IInv
BY InitInv, StepInv, PTL DEF Spec

-----------------------------------------------------------------------------
\* What B writes into the unprotected cell A names, once and in order, however
\* the two are scheduled and however many rounds there are.
THEOREM NoNumberIsLost == Spec => []NothingLost
<1>1. IInv => NothingLost
  <2> SUFFICES ASSUME IInv PROVE NothingLost
    OBVIOUS
  <2> USE NumberAssumption DEF IInv, TypeInv, SyncInv
  <2>1. CASE cell \in Numbers /\ a # "clear"
    BY <2>1 DEF NothingLost, IsPrefix
  <2>2. CASE ~(cell \in Numbers /\ a # "clear")
    BY <2>2 DEF NothingLost, IsPrefix
  <2>3. QED BY <2>1, <2>2
<1>2. QED BY <1>1, AlwaysInv, PTL

\* The end mark, which B writes once, is not taken for a number and cleared.
THEOREM EndMarkStands == Spec => EndStands
<1>1. IInv /\ [Next]_vars => [cell = -1 => cell' = -1]_vars
  <2> SUFFICES ASSUME IInv, Next, cell = -1 PROVE cell' = -1
    OBVIOUS
  <2> USE NumberAssumption DEF IInv, TypeInv, TurnInv
  <2>1. CASE A
    BY <2>1 DEF A, AttachA, While, IfNumber, IfNotEnd, Wake, Clear, UnchangedB
  <2>2. CASE B
    BY <2>2 DEF B, AttachB, Draw, Sleep, Write, End, UnchangedA, vars
  <2>3. CASE Remove \/ Terminating
    BY <2>3 DEF Remove, Terminating, vars
  <2>4. QED BY <2>1, <2>2, <2>3 DEF Next
<1>2. QED BY <1>1, AlwaysInv, PTL DEF Spec, EndStands

=============================================================================
