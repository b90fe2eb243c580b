------------------------------ MODULE Allocator ------------------------------
(***************************************************************************)
(* The allocator of 504/krivohatskiy.sergey/03/src: a buffer with a doubly *)
(* linked list of blocks, whose headers are in the buffer itself.  A block *)
(* is always placed behind the last one; whenever one is freed, defrag     *)
(* slides the others together, moving headers and relinking them on the    *)
(* way.  Each turn of its loop is an action.                               *)
(***************************************************************************)
EXTENDS Integers, FiniteSets, Sequences

CONSTANTS
  Size,         \* allocator->size, in the model's units of memory
  HeaderSize,   \* sizeof(struct full_block_header)
  Sizes,        \* the sizes that main passes to alloc
  MaxBlocks     \* bound: this many blocks are allocated in a run

ASSUME SizeAssumption ==
  Size \in Nat /\ HeaderSize \in Nat \ {0} /\ Sizes \subseteq Nat

ASSUME MaxBlocksAssumption == MaxBlocks \in Nat

Null == -1

Addresses == 0 .. Size - 1

VARIABLES
  mem,               \* what is at each address
  first_full,
  last_full,
  full_blocks,
  allocated_blocks,
  header,            \* defrag's local variable
  pc,                \* the code that runs next
  answer             \* the last call, and what it returned

vars == <<mem, first_full, last_full, full_blocks, allocated_blocks, header,
          pc, answer>>

\* A cell of memory: a header, or one of the bytes that follow it, filled with
\* the number of the block it belongs to.
Cells == [next_full : Addresses \cup {Null}, prev_full : Addresses \cup {Null},
          size : Nat, id : Nat]

Byte(p) == [next_full |-> Null, prev_full |-> Null, size |-> 0, id |-> p]

\* Where the memory of the block at address a begins, and where it ends.
Memory(a) == a + HeaderSize
End(a) == Memory(a) + mem[a].size

Answer(call, arg, result) == [call |-> call, arg |-> arg, result |-> result]

Init ==
  /\ mem = [a \in Addresses |-> Byte(0)]
  /\ first_full = Null
  /\ last_full = Null
  /\ full_blocks = 0
  /\ allocated_blocks = 0
  /\ header = Null
  /\ pc = "idle"
  /\ answer = Answer("INIT", 0, 0)

\* The list: its n-th block, and the blocks by their addresses.
Follow[n \in Nat] ==
  IF n = 0 THEN first_full
  ELSE LET a == Follow[n - 1] IN IF a = Null THEN Null ELSE mem[a].next_full

Blocks == [n \in 1 .. full_blocks |-> Follow[n - 1]]

Linked == {Follow[n] : n \in 0 .. Size} \ {Null}

-----------------------------------------------------------------------------
(***************************************************************************)
(* alloc                                                                   *)
(***************************************************************************)

\* Mutant: the last block's own header is forgotten.
Place_NoHeader == IF full_blocks = 0 THEN 0 ELSE last_full + mem[last_full].size

\* Where the next block goes: behind the last one.
Place == IF full_blocks = 0 THEN 0 ELSE End(last_full)

\* Mutant: the room has to be larger than what is asked for.
HasRoom_Less(s) == Size - Place > s + HeaderSize

HasRoom(s) == Size - Place >= s + HeaderSize

AllocRefused(s) ==
  /\ pc = "idle"
  /\ ~HasRoom(s)
  /\ answer' = Answer("ALLOC", s, 0)
  /\ UNCHANGED <<mem, first_full, last_full, full_blocks, allocated_blocks,
                 header, pc>>

\* The memory with a new block in it, which its owner fills.
WithBlock(a, s, p) ==
  [x \in Addresses |->
     IF x = a
     THEN [next_full |-> Null, size |-> s, id |-> p,
           prev_full |-> IF full_blocks = 0 THEN Null ELSE last_full]
     ELSE IF x \in a + 1 .. a + HeaderSize + s - 1 THEN Byte(p)
     ELSE IF full_blocks # 0 /\ x = last_full
     THEN [mem[x] EXCEPT !.next_full = a]
     ELSE mem[x]]

Alloc(s) ==
  /\ pc = "idle"
  /\ HasRoom(s)
  /\ allocated_blocks < MaxBlocks
  /\ mem' = WithBlock(Place, s, allocated_blocks + 1)
  /\ first_full' = IF full_blocks = 0 THEN Place ELSE first_full
  /\ last_full' = Place
  /\ full_blocks' = full_blocks + 1
  /\ allocated_blocks' = allocated_blocks + 1
  /\ answer' = Answer("ALLOC", s, allocated_blocks + 1)
  /\ UNCHANGED <<header, pc>>

-----------------------------------------------------------------------------
(***************************************************************************)
(* allocator_free                                                          *)
(***************************************************************************)

Has(a, p) == a \in Linked /\ mem[a].id = p

FreeRefused(p) ==
  /\ pc = "idle"
  /\ p \notin 1 .. allocated_blocks \/ ~\E a \in Linked : Has(a, p)
  /\ answer' = Answer("FREE", p, -1)
  /\ UNCHANGED <<mem, first_full, last_full, full_blocks, allocated_blocks,
                 header, pc>>

\* The neighbours of the block at address a point to each other.
Unlink(a) ==
  [x \in Addresses |->
     IF x = mem[a].prev_full THEN [mem[x] EXCEPT !.next_full = mem[a].next_full]
     ELSE IF x = mem[a].next_full
     THEN [mem[x] EXCEPT !.prev_full = mem[a].prev_full]
     ELSE mem[x]]

Free(p) ==
  /\ pc = "idle"
  /\ p \in 1 .. allocated_blocks
  /\ \E a \in Linked :
       /\ Has(a, p)
       /\ mem' = Unlink(a)
       /\ first_full' = IF mem[a].prev_full = Null THEN mem[a].next_full
                        ELSE first_full
       /\ last_full' = IF mem[a].next_full = Null THEN mem[a].prev_full
                       ELSE last_full
  /\ full_blocks' = full_blocks - 1
  /\ pc' = "first"
  /\ answer' = Answer("FREE", p, 0)
  /\ UNCHANGED <<allocated_blocks, header>>

-----------------------------------------------------------------------------
(***************************************************************************)
(* defrag                                                                  *)
(***************************************************************************)

\* Mutant: the block's last unit stays behind.
Length_OneLess(a) == HeaderSize + mem[a].size - 1

Length(a) == HeaderSize + mem[a].size

\* memmove of the block at address from.
Moved(from, to) ==
  [x \in Addresses |->
     IF x \in to .. to + Length(from) - 1 THEN mem[x - to + from] ELSE mem[x]]

\* m with the block at address a as its successor's predecessor.
\* Mutant: the successor still has the address the block was moved from.
Relinked_Not(m, a) == m

Relinked(m, a) ==
  IF m[a].next_full = Null THEN m
  ELSE [m EXCEPT ![m[a].next_full].prev_full = a]

\* No block is left.
DefragNothing ==
  /\ pc = "first"
  /\ first_full = Null
  /\ pc' = "idle"
  /\ UNCHANGED <<mem, first_full, last_full, full_blocks, allocated_blocks,
                 header, answer>>

\* The first block moves to the start of the buffer.
DefragFirst ==
  /\ pc = "first"
  /\ first_full # Null
  /\ mem' = IF first_full = 0 THEN mem ELSE Relinked(Moved(first_full, 0), 0)
  /\ first_full' = 0
  /\ header' = 0
  /\ pc' = "loop"
  /\ UNCHANGED <<last_full, full_blocks, allocated_blocks, answer>>

\* Mutant: the loop does not move on.
DefragKeep_Stuck ==
  /\ pc = "loop"
  /\ mem[header].next_full = End(header)
  /\ UNCHANGED vars

\* The next block is where it should be.
DefragKeep ==
  /\ pc = "loop"
  /\ mem[header].next_full = End(header)
  /\ header' = End(header)
  /\ UNCHANGED <<mem, first_full, last_full, full_blocks, allocated_blocks, pc,
                 answer>>

\* The next block moves to where this one ends.
DefragSlide ==
  /\ pc = "loop"
  /\ mem[header].next_full \notin {Null, End(header)}
  /\ LET to == End(header)
         m  == [Moved(mem[header].next_full, to) EXCEPT ![header].next_full = to]
     IN  mem' = Relinked(m, to) /\ header' = to
  /\ UNCHANGED <<first_full, last_full, full_blocks, allocated_blocks, pc, answer>>

DefragEnd ==
  /\ pc = "loop"
  /\ mem[header].next_full = Null
  /\ last_full' = header
  /\ header' = Null
  /\ pc' = "idle"
  /\ UNCHANGED <<mem, first_full, full_blocks, allocated_blocks, answer>>

Defrag == DefragNothing \/ DefragFirst \/ DefragKeep \/ DefragSlide \/ DefragEnd

-----------------------------------------------------------------------------
\* main reads one command after the other.
Request == \/ \E s \in Sizes : Alloc(s) \/ AllocRefused(s)
           \/ \E p \in 0 .. MaxBlocks + 1 : Free(p) \/ FreeRefused(p)

Next == Request \/ Defrag

\* The program is sequential: a call that has begun goes on.
Spec == Init /\ [][Next]_vars /\ WF_vars(Defrag)

-----------------------------------------------------------------------------
(***************************************************************************)
(* info                                                                    *)
(***************************************************************************)

\* What is free behind the last block; here the empty list is told by
\* last_full, in alloc by full_blocks.
Available == IF last_full = Null THEN Size ELSE Size - End(last_full)

\* Mutant: the header that a new block needs is not subtracted.
MaxAlloc_NoHeader == Available

MaxAlloc == IF Available <= HeaderSize THEN 0 ELSE Available - HeaderSize

-----------------------------------------------------------------------------
(***************************************************************************)
(* Properties                                                              *)
(***************************************************************************)

\* Between any two steps, in defrag too, the list has full_blocks blocks and
\* reads the same backwards.
LinksAgree ==
  /\ Follow[full_blocks] = Null
  /\ \A n \in 1 .. full_blocks :
       /\ Blocks[n] # Null
       /\ mem[Blocks[n]].prev_full = IF n = 1 THEN Null ELSE Blocks[n - 1]

\* Every block has its memory, all of it and with its contents, to itself,
\* although headers and contents are moved over one another.
ContentsKept ==
  \A n \in 1 .. full_blocks :
    LET a == Blocks[n]
    IN  /\ End(a) <= IF n < full_blocks THEN Blocks[n + 1] ELSE Size
        /\ \A x \in Memory(a) .. End(a) - 1 : mem[x] = Byte(mem[a].id)

\* Between requests the blocks lie one behind the other from the start of the
\* buffer, and last_full is the last of them.  MAP prints them so.
Compact ==
  pc = "idle" =>
    /\ full_blocks > 0 => Blocks[1] = 0 /\ last_full = Blocks[full_blocks]
    /\ \A n \in 2 .. full_blocks : Blocks[n] = End(Blocks[n - 1])

\* INFO's max_alloc is the largest block that ALLOC will not refuse.  (It is 0
\* also where an empty block would still fit.)
InfoIsTrue ==
  pc = "idle" => \A s \in 1 .. Size : HasRoom(s) <=> s <= MaxAlloc

\* allocator_free returns.
FreeReturns == pc # "idle" ~> pc = "idle"

Store == INSTANCE BlockStore
           WITH blocks <- [n \in 1 .. full_blocks |->
                             [id   |-> mem[Blocks[n]].id,
                              size |-> mem[Blocks[n]].size]],
                issued <- allocated_blocks,
                Ids    <- 0 .. MaxBlocks + 1

\* Requests are answered as a store without fragmentation would, and defrag
\* is not seen at all.
RefinesStore == Store!Spec

=============================================================================
