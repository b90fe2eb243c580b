----------------------------- MODULE BlockStore -----------------------------
(***************************************************************************)
(* What an allocator that compacts its memory promises: numbered blocks in *)
(* the order of their allocation, a request being refused only when the    *)
(* memory that is left is too small in total.                              *)
(***************************************************************************)
EXTENDS Integers, SequencesExt

CONSTANTS
  Size,         \* the size of the memory
  HeaderSize,   \* what a block takes besides its own size
  Sizes,        \* the sizes that are requested
  Ids           \* the numbers that are freed, rightly or not

VARIABLES
  blocks,       \* the sequence of [id, size] of the allocated blocks
  issued,       \* how many blocks were ever allocated
  answer        \* the last request and its result: a block's number for
                \*   ALLOC, 0 for FREE, or 0 and -1 if they are refused

vars == <<blocks, issued, answer>>

Used ==
  LET total[n \in 0 .. Len(blocks)] ==
        IF n = 0 THEN 0 ELSE total[n - 1] + HeaderSize + blocks[n].size
  IN total[Len(blocks)]

Answer(call, arg, result) == [call |-> call, arg |-> arg, result |-> result]

Init == blocks = <<>> /\ issued = 0 /\ answer = Answer("INIT", 0, 0)

HasRoom(s) == Used + HeaderSize + s <= Size

Alloc(s) ==
  /\ HasRoom(s)
  /\ blocks' = Append(blocks, [id |-> issued + 1, size |-> s])
  /\ issued' = issued + 1
  /\ answer' = Answer("ALLOC", s, issued + 1)

AllocRefused(s) ==
  /\ ~HasRoom(s)
  /\ answer' = Answer("ALLOC", s, 0)
  /\ UNCHANGED <<blocks, issued>>

Free(p) ==
  /\ \E k \in DOMAIN blocks : blocks[k].id = p /\ blocks' = RemoveAt(blocks, k)
  /\ answer' = Answer("FREE", p, 0)
  /\ UNCHANGED issued

FreeRefused(p) ==
  /\ \A k \in DOMAIN blocks : blocks[k].id # p
  /\ answer' = Answer("FREE", p, -1)
  /\ UNCHANGED <<blocks, issued>>

Next == \/ \E s \in Sizes : Alloc(s) \/ AllocRefused(s)
        \/ \E p \in Ids : Free(p) \/ FreeRefused(p)

Spec == Init /\ [][Next]_vars

=============================================================================
