------------------------------- MODULE RRList -------------------------------
(***************************************************************************)
(* The fixed-capacity list of samples/rr/list.cpp: an array of             *)
(* MAX_LIST_ITEMS pointers and a size.  A list is the sequence of its      *)
(* first size pointers; indices in the code start at 0, so the item with   *)
(* index idx is list[idx + 1].                                             *)
(***************************************************************************)
EXTENDS Integers, Sequences

CONSTANT MaxListItems      \* MAX_LIST_ITEMS, 10000 in the code

ASSUME ListCapacity == MaxListItems \in Nat \ {0}

-----------------------------------------------------------------------------

\* Mutant: the new item goes first.
AddItem_First(list, item) == <<item>> \o list

\* A full list drops the new item and only says so by its return value,
\* which no caller reads.
AddItem(list, item) ==
  IF Len(list) >= MaxListItems THEN list ELSE Append(list, item)

\* Every call in main.cpp and task.cpp is made with idx < size.
GetItem(list, idx) == list[idx + 1]

\* Mutant: the items after idx stay where they are.
Extract_KeepsTail(list, idx) ==
  IF Len(list) = 0 \/ idx >= Len(list) THEN list
                                       ELSE SubSeq(list, 1, Len(list) - 1)

\* The item is removed with memmove(data + idx, data + 1, size - idx - 1):
\* what moves down to idx is the tail that starts at index 1, whatever idx
\* is.  The two agree with each other only for idx = 0 and idx = size - 1.
Extract(list, idx) ==
  IF Len(list) = 0 \/ idx >= Len(list)
  THEN list
  ELSE [k \in 1 .. Len(list) - 1 |-> IF k <= idx THEN list[k]
                                                 ELSE list[k - idx + 1]]

\* Mutant: the item is read but not removed.
Pop_Peek(list) == list

Pop(list) == Extract(list, 0)

=============================================================================
