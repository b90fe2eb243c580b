-------------------------- MODULE Allocator_proofs --------------------------
(***************************************************************************)
(* Proofs about Allocator, for any size of the buffer and of the headers   *)
(* and any requests: defrag, which moves headers and contents over one     *)
(* another and follows links that it is changing, loses nothing, and the   *)
(* allocator implements the store of numbered blocks of BlockStore.        *)
(*                                                                         *)
(* The argument.  The invariant says that there is a sequence l of         *)
(* addresses, ascending and each block ending before the next begins, in   *)
(* which the links lead from block to block in both directions; so         *)
(* following the links from first_full visits exactly l.  Every operation  *)
(* makes one change to l: alloc appends, allocator_free removes an item,   *)
(* a turn of defrag's loop lowers one item to where the one before ends,   *)
(* so that the move overlaps the moved block at most, and no other.        *)
(***************************************************************************)
EXTENDS Allocator, SequenceTheorems, WellFoundedInduction, TLAPS

CellType == mem \in [Addresses -> Cells]

\* The blocks of the list lie at the addresses l.
Listed(l) ==
  /\ l \in [1 .. full_blocks -> Addresses]
  /\ first_full = IF full_blocks = 0 THEN Null ELSE l[1]
  /\ \A n \in 1 .. full_blocks :
       /\ mem[l[n]].next_full = IF n < full_blocks THEN l[n + 1] ELSE Null
       /\ mem[l[n]].prev_full = IF n = 1 THEN Null ELSE l[n - 1]

\* Each block is behind those before it in the list, and filled.
Ordered(l) ==
  \A n \in 1 .. full_blocks :
    /\ \A m \in 1 .. n - 1 : End(l[m]) <= l[n]
    /\ End(l[n]) <= Size
    /\ \A x \in Memory(l[n]) .. End(l[n]) - 1 : mem[x] = Byte(mem[l[n]].id)

\* Blocks are numbered as they were allocated.
Numbered(l) ==
  /\ allocated_blocks \in Nat
  /\ \A n \in 1 .. full_blocks :
       /\ mem[l[n]].id \in 1 .. allocated_blocks
       /\ \A m \in 1 .. n - 1 : mem[l[m]].id < mem[l[n]].id

Layout(l) == Listed(l) /\ Ordered(l) /\ Numbered(l)

\* The first k blocks leave no gaps.
PackedTo(l, k) == \A n \in 1 .. k : l[n] = IF n = 1 THEN 0 ELSE End(l[n - 1])

\* Between requests there are no gaps; defrag has closed those up to header.
\* last_full is right only between requests, and when no block is left.
Progress(l) ==
  /\ pc = "idle" =>
       PackedTo(l, full_blocks) /\ (full_blocks > 0 => last_full = l[full_blocks])
  /\ pc = "loop" =>
       \E k \in 1 .. full_blocks : header = l[k] /\ PackedTo(l, k)
  /\ full_blocks = 0 => last_full = Null

TypeInv == CellType /\ full_blocks \in Nat

State(l) == TypeInv /\ Layout(l) /\ Progress(l)

IInv == \E l : State(l)

\* The number and the size of each block, in the order of the list.
Contents(l) ==
  [n \in 1 .. full_blocks |-> [id |-> mem[l[n]].id, size |-> mem[l[n]].size]]

-----------------------------------------------------------------------------
(***************************************************************************)
(* The list                                                                *)
(***************************************************************************)

\* Every set of naturals that has an element has a least one.
LEMMA LeastNat ==
  ASSUME NEW S \in SUBSET Nat, NEW n \in S
  PROVE  \E s \in S : \A m \in S : s <= m
<1> DEFINE R == OpToRel(<, Nat)
<1>1. PICK s \in S : \A m \in S : <<m, s>> \notin R
  BY NatLessThanWellFounded, WFMin
<1>2. \A m \in S : <<m, s>> \notin R => s <= m
  <2>1. R = {r \in Nat \X Nat : r[1] < r[2]}
    BY DEF OpToRel
  <2> HIDE DEF R
  <2>2. QED BY <2>1
<1>3. QED BY <1>1, <1>2

\* Following the links from first_full leads through the list.
LEMMA FollowIs ==
  ASSUME full_blocks \in Nat, NEW l, Listed(l)
  PROVE  \A n \in Nat : Follow[n] = IF n < full_blocks THEN l[n + 1] ELSE Null
<1> DEFINE g == [n \in Nat |-> IF n < full_blocks THEN l[n + 1] ELSE Null]
           Step(f, n) == IF n = 0 THEN first_full
                         ELSE IF f[n - 1] = Null THEN Null
                              ELSE mem[f[n - 1]].next_full
<1>1. \A n \in Nat : g[n] = Step(g, n)
  <2> SUFFICES ASSUME NEW n \in Nat PROVE g[n] = Step(g, n)
    OBVIOUS
  <2>1. CASE n = 0
    BY <2>1 DEF Listed
  <2>2. CASE n > 0 /\ n - 1 < full_blocks
    <3>1. n - 1 \in Nat /\ n \in 1 .. full_blocks /\ n # 0
      BY <2>2
    <3>2. g[n - 1] = l[n]
      BY <2>2, <3>1
    <3>3. l[n] \in Nat /\ l[n] # Null
      BY <3>1, SizeAssumption DEF Listed, Addresses, Null
    <3>4. mem[l[n]].next_full = IF n < full_blocks THEN l[n + 1] ELSE Null
      BY <3>1 DEF Listed
    <3>5. Step(g, n) = mem[l[n]].next_full
      BY <3>1, <3>2, <3>3
    <3>6. g[n] = IF n < full_blocks THEN l[n + 1] ELSE Null
      OBVIOUS
    <3>7. QED BY <3>4, <3>5, <3>6
  <2>3. CASE n > 0 /\ ~(n - 1 < full_blocks)
    <3>1. n - 1 \in Nat /\ ~(n < full_blocks) /\ n # 0
      BY <2>3
    <3>2. g[n - 1] = Null /\ g[n] = Null
      BY <2>3, <3>1
    <3>3. QED BY <3>1, <3>2
  <2>4. QED BY <2>1, <2>2, <2>3
<1>2. g = [n \in Nat |-> Step(g, n)]
  <2> DEFINE h == [n \in Nat |-> Step(g, n)]
  <2>1. DOMAIN g = Nat /\ DOMAIN h = Nat
    OBVIOUS
  <2>2. \A n \in Nat : g[n] = h[n]
    BY <1>1
  <2>3. g = [n \in Nat |-> g[n]] /\ h = [n \in Nat |-> h[n]]
    OBVIOUS
  <2> HIDE DEF g, h
  <2>4. g = h
    BY <2>2, <2>3
  <2>5. QED BY <2>4 DEF h
<1>3. Follow = [n \in Nat |-> Step(Follow, n)]
  <2> HIDE DEF g
  <2>1. QED BY <1>2 DEF Follow
<1>4. \A n \in Nat : Follow[n] = Step(Follow, n)
  <2>1. QED BY <1>3
<1> DEFINE S == {n \in Nat : Follow[n] # g[n]}
<1>5. S = {}
  <2> SUFFICES ASSUME S # {} PROVE FALSE
    OBVIOUS
  <2>1. PICK s \in S : \A m \in S : s <= m
    <3>1. S \in SUBSET Nat
      OBVIOUS
    <3> HIDE DEF S
    <3>2. QED BY <3>1, LeastNat
  <2>2. s \in Nat /\ Follow[s] # g[s]
    OBVIOUS
  <2>3. CASE s = 0
    <3> HIDE DEF g
    <3>1. QED BY <1>1, <1>4, <2>2, <2>3
  <2>4. CASE s # 0
    <3>1. s - 1 \in Nat /\ ~(s <= s - 1)
      BY <2>2, <2>4
    <3>2. s - 1 \notin S
      BY <2>1, <3>1
    <3>3. Follow[s - 1] = g[s - 1]
      BY <3>1, <3>2
    <3> HIDE DEF g, S
    <3>4. QED BY <1>1, <1>4, <2>2, <3>3
  <2>5. QED BY <2>3, <2>4
<1>6. QED BY <1>5

\* A block is not longer than the memory, and has an address of its own.
LEMMA BlocksApart ==
  ASSUME TypeInv, NEW l, Listed(l), Ordered(l)
  PROVE  \A n \in 1 .. full_blocks :
           /\ l[n] \in Addresses /\ l[n] \in Nat
           /\ mem[l[n]] \in Cells
           /\ mem[l[n]].size \in Nat /\ mem[l[n]].id \in Nat
           /\ HeaderSize \in Nat /\ HeaderSize >= 1 /\ Size \in Nat
           /\ End(l[n]) = l[n] + HeaderSize + mem[l[n]].size
           /\ End(l[n]) \in Nat /\ l[n] < End(l[n]) /\ End(l[n]) <= Size
           /\ \A m \in 1 .. n - 1 : l[m] < l[n] /\ l[m] < End(l[m])
                /\ End(l[m]) \in Nat /\ End(l[m]) <= l[n]
<1>1. \A n \in 1 .. full_blocks :
        /\ l[n] \in Addresses /\ l[n] \in Nat
        /\ mem[l[n]] \in Cells
        /\ mem[l[n]].size \in Nat /\ mem[l[n]].id \in Nat
        /\ End(l[n]) = l[n] + HeaderSize + mem[l[n]].size
  BY SizeAssumption DEF TypeInv, CellType, Cells, Listed, Addresses, End, Memory
<1>2. HeaderSize \in Nat /\ HeaderSize >= 1 /\ Size \in Nat
  BY SizeAssumption
<1>3. \A n \in 1 .. full_blocks : End(l[n]) \in Nat /\ l[n] < End(l[n])
  BY <1>1, <1>2
<1>4. \A n \in 1 .. full_blocks : \A m \in 1 .. n - 1 : m \in 1 .. full_blocks
  BY DEF TypeInv
<1>5. ASSUME NEW n \in 1 .. full_blocks, NEW m \in 1 .. n - 1
      PROVE  l[m] < l[n] /\ l[m] < End(l[m]) /\ End(l[m]) \in Nat /\ End(l[m]) <= l[n]
  <2>1. m \in 1 .. full_blocks
    BY <1>4
  <2>2. End(l[m]) <= l[n]
    BY DEF Ordered
  <2>3. l[m] \in Nat /\ l[n] \in Nat /\ End(l[m]) \in Nat /\ l[m] < End(l[m])
    BY <1>1, <1>3, <2>1
  <2>4. QED BY <2>2, <2>3
<1>6. QED BY <1>1, <1>2, <1>3, <1>5 DEF Ordered

\* No two blocks of the list are the same.
LEMMA BlocksDiffer ==
  ASSUME TypeInv, NEW l, Layout(l),
         NEW n \in 1 .. full_blocks, NEW m \in 1 .. full_blocks, m # n
  PROVE  l[m] # l[n]
<1>1. m \in 1 .. n - 1 \/ n \in 1 .. m - 1
  BY DEF TypeInv
<1>2. l[m] < l[n] \/ l[n] < l[m]
  BY <1>1, BlocksApart DEF Layout
<1>3. l[m] \in Nat /\ l[n] \in Nat
  BY BlocksApart DEF Layout
<1>4. QED BY <1>2, <1>3

\* No block begins within the memory of another.
LEMMA BytesApart ==
  ASSUME TypeInv, NEW l, Layout(l), NEW n \in 1 .. full_blocks,
         NEW x \in Memory(l[n]) .. End(l[n]) - 1, NEW m \in 1 .. full_blocks
  PROVE  x \in Addresses /\ x # l[m]
<1>1. /\ l[n] \in Nat /\ End(l[n]) \in Nat /\ End(l[n]) <= Size /\ Size \in Nat
      /\ HeaderSize \in Nat /\ HeaderSize >= 1
      /\ l[m] \in Nat
  BY BlocksApart DEF Layout
<1>2. Memory(l[n]) = l[n] + HeaderSize
  BY DEF Memory
<1>3. x \in Nat /\ x > l[n] /\ x < End(l[n])
  BY <1>1, <1>2
<1>4. x \in Addresses
  BY <1>1, <1>3 DEF Addresses
<1>5. l[m] <= l[n] \/ End(l[n]) <= l[m]
  <2>1. m \in 1 .. n - 1 \/ n \in 1 .. m - 1 \/ m = n
    BY DEF TypeInv
  <2>2. l[m] < l[n] \/ End(l[n]) <= l[m] \/ l[m] = l[n]
    BY <2>1, BlocksApart DEF Layout
  <2>3. QED BY <1>1, <2>2
<1>6. QED BY <1>1, <1>3, <1>4, <1>5

\* The n-th block is at address n - 1 or higher, so Linked finds it.
LEMMA LinkedIs ==
  ASSUME TypeInv, NEW l, Layout(l)
  PROVE  Linked = {l[n] : n \in 1 .. full_blocks}
<1> DEFINE B == 1 .. full_blocks
<1>1. \A n \in B : /\ l[n] \in Addresses /\ l[n] \in Nat /\ l[n] < Size
                   /\ n > 1 => n - 1 \in B /\ l[n - 1] \in Nat /\ l[n - 1] < l[n]
  <2> SUFFICES ASSUME NEW n \in B
               PROVE  /\ l[n] \in Addresses /\ l[n] \in Nat /\ l[n] < Size
                      /\ n > 1 => n - 1 \in B /\ l[n - 1] \in Nat /\ l[n - 1] < l[n]
    OBVIOUS
  <2>1. l[n] \in Addresses /\ l[n] \in Nat /\ Size \in Nat
    BY BlocksApart DEF Layout
  <2>2. ASSUME n > 1 PROVE n - 1 \in B /\ n - 1 \in 1 .. n - 1
    BY <2>2 DEF TypeInv
  <2>3. n > 1 => l[n - 1] \in Nat /\ l[n - 1] < l[n]
    BY <2>2, BlocksApart DEF Layout
  <2>4. QED BY <2>1, <2>2, <2>3 DEF Addresses
<1>2. \A n \in B : n - 1 <= l[n]
  <2> DEFINE S == {n \in B : ~(n - 1 <= l[n])}
  <2> SUFFICES ASSUME S # {} PROVE FALSE
    OBVIOUS
  <2>1. S \in SUBSET Nat
    OBVIOUS
  <2> HIDE DEF S
  <2>2. PICK s \in S : \A m \in S : s <= m
    BY <2>1, LeastNat
  <2> USE DEF S
  <2>3. s \in B /\ ~(s - 1 <= l[s]) /\ l[s] \in Nat
    BY <1>1
  <2>4. s > 1
    BY <2>3
  <2>5. s - 1 \in B /\ l[s - 1] \in Nat /\ l[s - 1] < l[s] /\ ~(s <= s - 1)
    BY <1>1, <2>3, <2>4
  <2>6. s - 1 \notin S
    BY <2>2, <2>5
  <2>7. (s - 1) - 1 <= l[s - 1]
    BY <2>5, <2>6
  <2> HIDE DEF S
  <2>8. QED BY <2>3, <2>5, <2>7
<1>3. \A n \in Nat : Follow[n] = IF n < full_blocks THEN l[n + 1] ELSE Null
  BY FollowIs DEF TypeInv, Layout
<1>4. \A n \in B : n - 1 \in 0 .. Size /\ n - 1 < full_blocks /\ l[n] # Null
                   /\ Follow[n - 1] = l[n]
  <2> SUFFICES ASSUME NEW n \in B
               PROVE  n - 1 \in 0 .. Size /\ n - 1 < full_blocks /\ l[n] # Null
                      /\ Follow[n - 1] = l[n]
    OBVIOUS
  <2>1. n - 1 \in Nat /\ n - 1 < full_blocks /\ (n - 1) + 1 = n
    BY DEF TypeInv
  <2>2. n - 1 \in 0 .. Size /\ l[n] # Null
    BY <1>1, <1>2, <2>1, SizeAssumption DEF Null
  <2>3. QED BY <1>3, <2>1, <2>2
<1>5. Linked \subseteq {l[n] : n \in B}
  <2> SUFFICES ASSUME NEW n \in 0 .. Size, Follow[n] # Null
               PROVE  Follow[n] \in {l[i] : i \in B}
    BY DEF Linked
  <2>1. n \in Nat /\ n < full_blocks /\ Follow[n] = l[n + 1]
    BY <1>3, SizeAssumption
  <2>2. n + 1 \in B
    BY <2>1 DEF TypeInv
  <2>3. QED BY <2>1, <2>2
<1>6. QED BY <1>4, <1>5 DEF Linked

-----------------------------------------------------------------------------
(***************************************************************************)
(* Moving a block                                                          *)
(***************************************************************************)

\* The j-th block is moved down, to an address behind those before it, and its
\* neighbours are linked to it again.
MovesDown(l, j, to) ==
  LET last == to + Length(l[j]) - 1
  IN  /\ to \in Addresses /\ to < l[j]
      /\ \A n \in 1 .. j - 1 : End(l[n]) <= to
      /\ \A x \in to .. last : mem'[x] = mem[x - to + l[j]]
      /\ \A x \in Addresses \ (to .. last) :
           mem'[x] =
             IF j > 1 /\ x = l[j - 1] THEN [mem[x] EXCEPT !.next_full = to]
             ELSE IF j < full_blocks /\ x = l[j + 1]
             THEN [mem[x] EXCEPT !.prev_full = to]
             ELSE mem[x]
      /\ first_full' = IF j = 1 THEN to ELSE first_full
      /\ UNCHANGED <<full_blocks, allocated_blocks>>

\* What a block takes up is not touched by moving another one down, except for
\* the link by which its neighbours find that one.
LEMMA MoveKeeps ==
  ASSUME TypeInv, NEW l, Layout(l), NEW j \in 1 .. full_blocks, NEW to,
         MovesDown(l, j, to),
         NEW k, k = [l EXCEPT ![j] = to]
  PROVE  /\ Layout(k)'
         /\ Contents(k)' = Contents(l)
<1>0. PICK last :
        /\ last = to + Length(l[j]) - 1
        /\ to \in Addresses /\ to < l[j]
        /\ \A n \in 1 .. j - 1 : End(l[n]) <= to
        /\ \A x \in to .. last : mem'[x] = mem[x - to + l[j]]
        /\ \A x \in Addresses \ (to .. last) :
             mem'[x] =
               IF j > 1 /\ x = l[j - 1] THEN [mem[x] EXCEPT !.next_full = to]
               ELSE IF j < full_blocks /\ x = l[j + 1]
               THEN [mem[x] EXCEPT !.prev_full = to]
               ELSE mem[x]
        /\ first_full' = IF j = 1 THEN to ELSE first_full
        /\ UNCHANGED <<full_blocks, allocated_blocks>>
  BY DEF MovesDown
<1> USE <1>0
<1> DEFINE B == 1 .. full_blocks
<1>1. /\ k \in [B -> Addresses] /\ k[j] = to
      /\ \A n \in B : n # j => k[n] = l[n]
      /\ l \in [B -> Addresses]
  BY DEF Layout, Listed
<1>2. \A n \in B :
        /\ l[n] \in Nat /\ mem[l[n]] \in Cells /\ mem[l[n]].size \in Nat
        /\ End(l[n]) = l[n] + HeaderSize + mem[l[n]].size
        /\ End(l[n]) \in Nat /\ l[n] < End(l[n]) /\ End(l[n]) <= Size
        /\ \A m \in 1 .. n - 1 : l[m] < l[n] /\ l[m] < End(l[m])
             /\ End(l[m]) \in Nat /\ End(l[m]) <= l[n]
  BY BlocksApart DEF Layout
<1>3. /\ to \in Nat /\ l[j] \in Nat /\ mem[l[j]].size \in Nat
      /\ HeaderSize \in Nat /\ HeaderSize >= 1
      /\ last = to + HeaderSize + mem[l[j]].size - 1
  BY <1>2, SizeAssumption DEF Addresses, Length
<1>4. last \in Nat /\ to <= last /\ last < End(l[j]) - 1 /\ End(l[j]) \in Nat
  <2>1. End(l[j]) = l[j] + HeaderSize + mem[l[j]].size
    BY <1>2
  <2>2. QED BY <1>3, <2>1
\* The other blocks lie beside the place where this one moves.
<1>5. \A n \in B : n # j =>
        \A x \in l[n] .. End(l[n]) - 1 : x \in Addresses /\ x \notin to .. last
  <2> SUFFICES ASSUME NEW n \in B, n # j, NEW x \in l[n] .. End(l[n]) - 1
               PROVE  x \in Addresses /\ x \notin to .. last
    OBVIOUS
  <2>1. l[n] \in Nat /\ End(l[n]) \in Nat /\ End(l[n]) <= Size /\ Size \in Nat
    BY <1>2, SizeAssumption
  <2>2. x \in Addresses
    BY <2>1 DEF Addresses
  <2>3. CASE n < j
    <3>1. n \in 1 .. j - 1
      BY <2>3
    <3>2. End(l[n]) <= to
      BY <3>1
    <3>3. QED BY <1>3, <2>1, <2>2, <3>2
  <2>4. CASE n > j
    <3>1. j \in 1 .. n - 1
      BY <2>4
    <3>2. End(l[j]) <= l[n]
      BY <1>2, <3>1
    <3>3. QED BY <1>4, <2>1, <2>2, <3>2
  <2>5. QED BY <2>3, <2>4
<1>6. \A n \in B : \A m \in B : m # n => l[m] # l[n]
  BY BlocksDiffer
\* The header of each block.
<1>7. mem'[to] = mem[l[j]]
  <2>1. to \in to .. last /\ to - to + l[j] = l[j]
    BY <1>3, <1>4
  <2>2. QED BY <2>1
<1>8. \A n \in B : n # j =>
        mem'[l[n]] = IF n = j - 1 THEN [mem[l[n]] EXCEPT !.next_full = to]
                     ELSE IF n = j + 1 THEN [mem[l[n]] EXCEPT !.prev_full = to]
                     ELSE mem[l[n]]
  <2> SUFFICES ASSUME NEW n \in B, n # j
               PROVE  mem'[l[n]] =
                        IF n = j - 1 THEN [mem[l[n]] EXCEPT !.next_full = to]
                        ELSE IF n = j + 1 THEN [mem[l[n]] EXCEPT !.prev_full = to]
                        ELSE mem[l[n]]
    OBVIOUS
  <2>1. l[n] \in l[n] .. End(l[n]) - 1
    BY <1>2
  <2>2. l[n] \in Addresses \ (to .. last)
    BY <1>5, <2>1
  <2>3. n = j - 1 <=> (j > 1 /\ l[n] = l[j - 1])
    <3>1. j > 1 => j - 1 \in B
      BY DEF TypeInv
    <3>2. n = j - 1 => j > 1
      OBVIOUS
    <3>3. QED BY <1>6, <3>1, <3>2
  <2>4. n = j + 1 <=> (j < full_blocks /\ l[n] = l[j + 1])
    <3>1. j < full_blocks => j + 1 \in B
      BY DEF TypeInv
    <3>2. n = j + 1 => j < full_blocks
      BY DEF TypeInv
    <3>3. QED BY <1>6, <3>1, <3>2
  <2>5. QED BY <2>2, <2>3, <2>4
<1>9. \A n \in B :
        /\ mem'[k[n]].size = mem[l[n]].size
        /\ mem'[k[n]].id = mem[l[n]].id
        /\ mem'[k[n]].next_full = IF n = j - 1 THEN to ELSE mem[l[n]].next_full
        /\ mem'[k[n]].prev_full = IF n = j + 1 THEN to ELSE mem[l[n]].prev_full
  <2> SUFFICES ASSUME NEW n \in B
               PROVE  /\ mem'[k[n]].size = mem[l[n]].size
                      /\ mem'[k[n]].id = mem[l[n]].id
                      /\ mem'[k[n]].next_full = IF n = j - 1 THEN to ELSE mem[l[n]].next_full
                      /\ mem'[k[n]].prev_full = IF n = j + 1 THEN to ELSE mem[l[n]].prev_full
    OBVIOUS
  <2>1. CASE n = j
    <3>1. n # j - 1 /\ n # j + 1
      BY <2>1
    <3>2. QED BY <1>1, <1>7, <2>1, <3>1
  <2>2. CASE n # j
    <3>1. mem[l[n]] \in Cells
      BY <1>2
    <3>2. k[n] = l[n]
      BY <1>1, <2>2
    <3>3. CASE n = j - 1
      <4>1. mem'[l[n]] = [mem[l[n]] EXCEPT !.next_full = to]
        BY <1>8, <2>2, <3>3, Zenon
      <4>2. n # j + 1
        BY <3>3
      <4>3. QED BY <3>1, <3>2, <3>3, <4>1, <4>2 DEF Cells
    <3>4. CASE n = j + 1
      <4>1. n # j - 1
        BY <3>4
      <4>2. mem'[l[n]] = [mem[l[n]] EXCEPT !.prev_full = to]
        BY <1>8, <2>2, <3>4, <4>1, Zenon
      <4>3. QED BY <3>1, <3>2, <3>4, <4>1, <4>2 DEF Cells
    <3>5. CASE n # j - 1 /\ n # j + 1
      <4>1. mem'[l[n]] = mem[l[n]]
        BY <1>8, <2>2, <3>5, Zenon
      <4>2. QED BY <3>2, <3>5, <4>1
    <3>6. QED BY <3>3, <3>4, <3>5
  <2>3. QED BY <2>1, <2>2
\* The list.
<1>10. Listed(k)'
  <2>1. first_full' = IF full_blocks = 0 THEN Null ELSE k[1]
    <3>1. 1 \in B /\ full_blocks # 0
      BY DEF TypeInv
    <3>2. first_full = l[1]
      BY <3>1 DEF Layout, Listed
    <3>3. QED BY <1>1, <3>1, <3>2
  <2>2. ASSUME NEW n \in B
        PROVE  /\ mem'[k[n]].next_full = IF n < full_blocks THEN k[n + 1] ELSE Null
               /\ mem'[k[n]].prev_full = IF n = 1 THEN Null ELSE k[n - 1]
    <3>1. /\ mem[l[n]].next_full = IF n < full_blocks THEN l[n + 1] ELSE Null
          /\ mem[l[n]].prev_full = IF n = 1 THEN Null ELSE l[n - 1]
      BY DEF Layout, Listed
    <3>2. /\ n < full_blocks => n + 1 \in B
          /\ n # 1 => n - 1 \in B
          /\ n = j - 1 <=> n + 1 = j
          /\ n = j + 1 <=> n - 1 = j
          /\ n = j - 1 => n < full_blocks
          /\ n = j + 1 => n # 1
      BY DEF TypeInv
    <3>3. QED BY <1>1, <1>9, <3>1, <3>2
  <2>3. QED BY <1>1, <2>1, <2>2 DEF Listed
\* What it takes up.
<1>11. \A n \in B : /\ End(k[n])' = k[n] + HeaderSize + mem[l[n]].size
                    /\ Memory(k[n])' = k[n] + HeaderSize
                    /\ n # j => End(k[n])' = End(l[n])
  BY <1>1, <1>2, <1>9 DEF End, Memory
<1>12. End(to)' = last + 1 /\ last + 1 <= End(l[j]) /\ last + 1 <= Size
       /\ last + 1 \in Nat
  <2>1. End(to)' = to + HeaderSize + mem[l[j]].size
    BY <1>1, <1>11
  <2>2. End(l[j]) <= Size /\ Size \in Nat
    BY <1>2, SizeAssumption
  <2>3. QED BY <1>3, <1>4, <2>1, <2>2
<1>13. Ordered(k)'
  <2> SUFFICES ASSUME NEW n \in B
               PROVE  /\ \A m \in 1 .. n - 1 : End(k[m])' <= k[n]
                      /\ End(k[n])' <= Size
                      /\ \A x \in Memory(k[n])' .. End(k[n])' - 1 :
                           mem'[x] = Byte(mem'[k[n]].id)
    BY DEF Ordered, Byte
  <2>1. ASSUME NEW m \in 1 .. n - 1 PROVE End(k[m])' <= k[n]
    <3>1. m \in B /\ m < n
      BY DEF TypeInv
    <3>2. End(l[m]) <= l[n] /\ l[n] \in Nat
      BY <1>2
    <3>3. CASE m # j /\ n # j
      BY <1>1, <1>11, <3>1, <3>2, <3>3
    <3>4. CASE n = j
      BY <1>1, <1>11, <3>1, <3>4
    <3>5. CASE m = j
      <4>1. n # j
        BY <3>1, <3>5
      <4>2. k[n] = l[n] /\ End(k[m])' = last + 1
        BY <1>1, <1>12, <3>5, <4>1
      <4>3. End(l[j]) <= l[n]
        BY <3>2, <3>5
      <4>4. QED BY <1>4, <1>12, <3>2, <4>2, <4>3
    <3>6. QED BY <3>3, <3>4, <3>5
  <2>2. End(k[n])' <= Size
    BY <1>1, <1>2, <1>11, <1>12
  <2>3. ASSUME NEW x \in Memory(k[n])' .. End(k[n])' - 1
        PROVE  mem'[x] = Byte(mem'[k[n]].id)
    <3>1. \A y \in Memory(l[n]) .. End(l[n]) - 1 : mem[y] = Byte(mem[l[n]].id)
      BY DEF Layout, Ordered
    <3>2. Memory(l[n]) = l[n] + HeaderSize
      BY DEF Memory
    <3>3. CASE n = j
      <4>1. x \in Int /\ to + HeaderSize <= x /\ x <= last
        BY <1>1, <1>3, <1>11, <1>12, <2>3, <3>3
      <4>2. x \in to .. last /\ x - to + l[j] \in l[j] + HeaderSize .. End(l[j]) - 1
        <5>1. End(l[j]) = l[j] + HeaderSize + mem[l[j]].size
          BY <1>2
        <5>2. QED BY <1>3, <4>1, <5>1
      <4>3. mem'[x] = mem[x - to + l[j]]
        BY <4>2
      <4>4. mem'[x] = Byte(mem[l[n]].id)
        BY <3>1, <3>2, <3>3, <4>2, <4>3
      <4>5. QED BY <1>9, <4>4
    <3>4. CASE n # j
      <4>1. k[n] = l[n] /\ End(k[n])' = End(l[n]) /\ Memory(k[n])' = l[n] + HeaderSize
        BY <1>1, <1>11, <3>4
      <4>2. x \in Int /\ l[n] + HeaderSize <= x /\ x <= End(l[n]) - 1
            /\ l[n] \in Nat /\ End(l[n]) \in Nat
        BY <1>2, <1>3, <2>3, <4>1
      <4>3. x \in Memory(l[n]) .. End(l[n]) - 1 /\ x \in l[n] .. End(l[n]) - 1
            /\ x # l[n]
        BY <1>3, <3>2, <4>2
      <4>4. x \in Addresses \ (to .. last)
        BY <1>5, <3>4, <4>3
      <4>5. \A m \in B : x # l[m]
        BY <4>3, BytesApart
      <4>6. (j > 1 => j - 1 \in B) /\ (j < full_blocks => j + 1 \in B)
        BY DEF TypeInv
      <4>7. mem'[x] = mem[x]
        BY <4>4, <4>5, <4>6
      <4>8. QED BY <1>9, <3>1, <4>3, <4>7
    <3>5. QED BY <3>3, <3>4
  <2>4. QED BY <2>1, <2>2, <2>3
<1>14. Numbered(k)'
  <2>1. \A n \in B : \A m \in 1 .. n - 1 : m \in B
    BY DEF TypeInv
  <2>2. QED BY <1>9, <2>1 DEF Layout, Numbered
<1>15. Contents(k)' = Contents(l)
  BY <1>9 DEF Contents
<1>16. QED BY <1>10, <1>13, <1>14, <1>15 DEF Layout

-----------------------------------------------------------------------------
(***************************************************************************)
(* The steps, each with what it makes of the contents of the store         *)
(***************************************************************************)

LEMMA InitState == Init => \E l : State(l) /\ Contents(l) = <<>>
<1> SUFFICES ASSUME Init PROVE \E l : State(l) /\ Contents(l) = <<>>
  OBVIOUS
<1> DEFINE l == [n \in 1 .. 0 |-> 0]
<1>1. 1 .. full_blocks = {} /\ full_blocks = 0 /\ 1 .. 0 = {}
  BY DEF Init
<1>2. TypeInv
  <2>1. Byte(0) \in Cells
    BY DEF Byte, Cells
  <2>2. QED BY <2>1 DEF Init, TypeInv, CellType
<1>3. Layout(l)
  BY <1>1 DEF Init, Layout, Listed, Ordered, Numbered
<1>4. Progress(l)
  BY <1>1 DEF Init, Progress, PackedTo
<1>5. Contents(l) = <<>>
  BY <1>1 DEF Contents
<1>6. QED BY <1>2, <1>3, <1>4, <1>5 DEF State

\* A refused request changes nothing.
LEMMA RefusedStep ==
  ASSUME NEW l, State(l),
         UNCHANGED <<mem, first_full, last_full, full_blocks, allocated_blocks,
                     header, pc>>
  PROVE  State(l)' /\ Contents(l)' = Contents(l)
BY DEF State, TypeInv, CellType, Layout, Listed, Ordered, Numbered, Progress,
       PackedTo, Contents, End, Memory

\* A new block comes behind all others.
LEMMA AllocStep ==
  ASSUME NEW l, State(l), NEW s \in Sizes, Alloc(s)
  PROVE  \E k : State(k)' /\ Contents(k)' =
           Append(Contents(l), [id |-> allocated_blocks + 1, size |-> s])
<1> USE DEF State
<1> DEFINE B == 1 .. full_blocks
<1>1. PICK p : p = Place
  OBVIOUS
<1>2. \A n \in B :
        /\ l[n] \in Addresses
        /\ l[n] \in Nat /\ mem[l[n]] \in Cells /\ mem[l[n]].size \in Nat
        /\ mem[l[n]].id \in Nat
        /\ End(l[n]) = l[n] + HeaderSize + mem[l[n]].size
        /\ End(l[n]) \in Nat /\ l[n] < End(l[n]) /\ End(l[n]) <= Size
        /\ \A m \in 1 .. n - 1 : l[m] < l[n] /\ l[m] < End(l[m])
             /\ End(l[m]) \in Nat /\ End(l[m]) <= l[n]
  BY BlocksApart DEF Layout
<1>3. full_blocks \in Nat /\ HeaderSize \in Nat /\ HeaderSize >= 1
      /\ Size \in Nat /\ s \in Nat /\ allocated_blocks \in Nat
  BY SizeAssumption DEF TypeInv, Layout, Numbered
<1>4. full_blocks # 0 => full_blocks \in B /\ last_full = l[full_blocks]
  BY <1>3 DEF Alloc, Progress
<1>5. p \in Nat /\ \A n \in B : End(l[n]) <= p
  <2>1. CASE full_blocks = 0
    BY <1>1, <2>1 DEF Place
  <2>2. CASE full_blocks # 0
    <3>1. p = End(l[full_blocks]) /\ p \in Nat
      BY <1>1, <1>2, <1>4, <2>2 DEF Place
    <3>2. ASSUME NEW n \in B, n # full_blocks PROVE End(l[n]) <= p
      <4>1. n \in 1 .. full_blocks - 1
        BY <1>3, <3>2
      <4>2. End(l[n]) <= l[full_blocks] /\ End(l[n]) \in Nat
            /\ l[full_blocks] < End(l[full_blocks]) /\ l[full_blocks] \in Nat
        BY <1>2, <1>4, <2>2, <4>1
      <4>3. QED BY <3>1, <4>2
    <3>3. QED BY <3>1, <3>2
  <2>3. QED BY <2>1, <2>2
<1>6. p \in Addresses /\ p + HeaderSize + s <= Size
  <2>1. Size - p >= s + HeaderSize
    BY <1>1 DEF Alloc, HasRoom
  <2>2. QED BY <1>3, <1>5, <2>1 DEF Addresses
<1>7. /\ mem' = [x \in Addresses |->
           IF x = p
           THEN [next_full |-> Null, size |-> s, id |-> allocated_blocks + 1,
                 prev_full |-> IF full_blocks = 0 THEN Null ELSE last_full]
           ELSE IF x \in p + 1 .. p + HeaderSize + s - 1
           THEN Byte(allocated_blocks + 1)
           ELSE IF full_blocks # 0 /\ x = last_full
           THEN [mem[x] EXCEPT !.next_full = p]
           ELSE mem[x]]
      /\ first_full' = IF full_blocks = 0 THEN p ELSE first_full
      /\ last_full' = p
      /\ full_blocks' = full_blocks + 1
      /\ allocated_blocks' = allocated_blocks + 1
      /\ UNCHANGED <<header, pc>>
      /\ pc = "idle"
  BY <1>1 DEF Alloc, WithBlock
<1>8. /\ 1 .. full_blocks + 1 = B \cup {full_blocks + 1}
      /\ full_blocks + 1 \notin B /\ full_blocks + 1 \in Nat
  BY <1>3
<1>9. PICK k : /\ k \in [1 .. full_blocks + 1 -> Addresses]
               /\ \A n \in B : k[n] = l[n]
               /\ k[full_blocks + 1] = p
  <2> DEFINE f == [n \in 1 .. full_blocks + 1 |-> IF n \in B THEN l[n] ELSE p]
  <2>1. /\ f \in [1 .. full_blocks + 1 -> Addresses]
        /\ \A n \in B : f[n] = l[n]
        /\ f[full_blocks + 1] = p
    BY <1>2, <1>6, <1>8
  <2>2. QED BY <2>1
<1>10. CellType'
  <2>1. \A x \in Addresses : mem[x] \in Cells
    BY DEF TypeInv, CellType
  <2>2. Byte(allocated_blocks + 1) \in Cells
    BY <1>3 DEF Byte, Cells
  <2>3. [next_full |-> Null, size |-> s, id |-> allocated_blocks + 1,
         prev_full |-> IF full_blocks = 0 THEN Null ELSE last_full] \in Cells
    BY <1>2, <1>3, <1>4 DEF Cells
  <2>4. \A x \in Addresses : [mem[x] EXCEPT !.next_full = p] \in Cells
    BY <1>6, <2>1 DEF Cells
  <2>5. QED BY <1>7, <2>1, <2>2, <2>3, <2>4 DEF CellType
\* The blocks that were there.
<1>11. \A n \in B : \A x \in l[n] .. End(l[n]) - 1 :
         x \in Addresses /\ x # p /\ x \notin p + 1 .. p + HeaderSize + s - 1
  <2> SUFFICES ASSUME NEW n \in B, NEW x \in l[n] .. End(l[n]) - 1
               PROVE  x \in Addresses /\ x < p
    BY <1>5
  <2>1. l[n] \in Nat /\ End(l[n]) \in Nat /\ End(l[n]) <= Size /\ End(l[n]) <= p
    BY <1>2, <1>5
  <2>2. QED BY <1>3, <1>5, <2>1 DEF Addresses
<1>12. \A n \in B : \A m \in B : m # n => l[m] # l[n]
  BY BlocksDiffer
<1>13. \A n \in B :
         mem'[l[n]] = IF n = full_blocks THEN [mem[l[n]] EXCEPT !.next_full = p]
                      ELSE mem[l[n]]
  <2> SUFFICES ASSUME NEW n \in B
               PROVE  mem'[l[n]] = IF n = full_blocks
                                   THEN [mem[l[n]] EXCEPT !.next_full = p]
                                   ELSE mem[l[n]]
    OBVIOUS
  <2>1. l[n] \in l[n] .. End(l[n]) - 1
    BY <1>2
  <2>2. l[n] \in Addresses /\ l[n] # p /\ l[n] \notin p + 1 .. p + HeaderSize + s - 1
    BY <1>11, <2>1
  <2>3. full_blocks # 0
    BY <1>3
  <2>4. n = full_blocks <=> l[n] = last_full
    BY <1>4, <1>12, <2>3
  <2>5. QED BY <1>7, <2>2, <2>3, <2>4
<1>14. \A n \in B :
         /\ mem'[l[n]].size = mem[l[n]].size
         /\ mem'[l[n]].id = mem[l[n]].id
         /\ mem'[l[n]].prev_full = mem[l[n]].prev_full
         /\ mem'[l[n]].next_full = IF n = full_blocks THEN p ELSE mem[l[n]].next_full
  <2> SUFFICES ASSUME NEW n \in B
               PROVE  /\ mem'[l[n]].size = mem[l[n]].size
                      /\ mem'[l[n]].id = mem[l[n]].id
                      /\ mem'[l[n]].prev_full = mem[l[n]].prev_full
                      /\ mem'[l[n]].next_full = IF n = full_blocks THEN p
                                                ELSE mem[l[n]].next_full
    OBVIOUS
  <2>1. mem[l[n]] \in Cells
    BY <1>2
  <2>2. CASE n = full_blocks
    <3>1. mem'[l[n]] = [mem[l[n]] EXCEPT !.next_full = p]
      BY <1>13, <2>2, Zenon
    <3>2. QED BY <2>1, <2>2, <3>1 DEF Cells
  <2>3. CASE n # full_blocks
    <3>1. mem'[l[n]] = mem[l[n]]
      BY <1>13, <2>3, Zenon
    <3>2. QED BY <2>3, <3>1
  <2>4. QED BY <2>2, <2>3
\* The new one.
<1>15. /\ mem'[p].next_full = Null
       /\ mem'[p].prev_full = IF full_blocks = 0 THEN Null ELSE last_full
       /\ mem'[p].size = s
       /\ mem'[p].id = allocated_blocks + 1
  BY <1>6, <1>7
<1>16. Listed(k)'
  <2>1. first_full' = k[1]
    <3>1. CASE full_blocks = 0
      BY <1>7, <1>9, <3>1
    <3>2. CASE full_blocks # 0
      <4>1. 1 \in B
        BY <1>3, <3>2
      <4>2. QED BY <1>7, <1>9, <3>2, <4>1 DEF Layout, Listed
    <3>3. QED BY <3>1, <3>2
  <2>2. ASSUME NEW n \in 1 .. full_blocks + 1
        PROVE  /\ mem'[k[n]].next_full =
                    IF n < full_blocks + 1 THEN k[n + 1] ELSE Null
               /\ mem'[k[n]].prev_full = IF n = 1 THEN Null ELSE k[n - 1]
    <3>1. CASE n = full_blocks + 1
      <4>1. ~(n < full_blocks + 1) /\ n - 1 = full_blocks
            /\ (n = 1 <=> full_blocks = 0)
        BY <1>3, <3>1
      <4>2. k[n] = p
        BY <1>9, <3>1
      <4>3. full_blocks # 0 => k[n - 1] = last_full
        BY <1>4, <1>9, <4>1
      <4>4. QED BY <1>15, <4>1, <4>2, <4>3
    <3>2. CASE n \in B
      <4>1. /\ mem[l[n]].next_full = IF n < full_blocks THEN l[n + 1] ELSE Null
            /\ mem[l[n]].prev_full = IF n = 1 THEN Null ELSE l[n - 1]
        BY <3>2 DEF Layout, Listed
      <4>2. /\ n < full_blocks + 1
            /\ n # 1 => n - 1 \in B
            /\ n # full_blocks => n < full_blocks /\ n + 1 \in B
        BY <1>3, <3>2
      <4>3. k[n] = l[n] /\ (n # 1 => k[n - 1] = l[n - 1])
            /\ (n # full_blocks => k[n + 1] = l[n + 1])
            /\ (n = full_blocks => k[n + 1] = p)
        BY <1>9, <3>2, <4>2
      <4>4. QED BY <1>14, <3>2, <4>1, <4>2, <4>3
    <3>3. QED BY <1>8, <3>1, <3>2
  <2>3. full_blocks' # 0 /\ full_blocks' = full_blocks + 1
    BY <1>3, <1>7
  <2>4. QED BY <1>9, <2>1, <2>2, <2>3 DEF Listed
<1>17. /\ \A n \in B : End(l[n])' = End(l[n]) /\ Memory(l[n])' = Memory(l[n])
       /\ End(p)' = p + HeaderSize + s /\ Memory(p)' = p + HeaderSize
  BY <1>14, <1>15 DEF End, Memory
<1>18. Ordered(k)'
  <2> SUFFICES ASSUME NEW n \in 1 .. full_blocks + 1
               PROVE  /\ \A m \in 1 .. n - 1 : End(k[m])' <= k[n]
                      /\ End(k[n])' <= Size
                      /\ \A x \in Memory(k[n])' .. End(k[n])' - 1 :
                           mem'[x] = Byte(mem'[k[n]].id)
    <3>1. full_blocks' = full_blocks + 1
      BY <1>7
    <3>2. QED BY <3>1 DEF Ordered, Byte
  <2>1. CASE n = full_blocks + 1
    <3>1. k[n] = p /\ \A m \in 1 .. n - 1 : m \in B
      BY <1>3, <1>9, <2>1
    <3>2. \A m \in 1 .. n - 1 : End(k[m])' <= k[n]
      BY <1>5, <1>9, <1>17, <3>1
    <3>3. \A x \in p + HeaderSize .. p + HeaderSize + s - 1 :
            x \in Addresses /\ x # p /\ x \in p + 1 .. p + HeaderSize + s - 1
      BY <1>3, <1>5, <1>6 DEF Addresses
    <3>4. \A x \in p + HeaderSize .. p + HeaderSize + s - 1 :
            mem'[x] = Byte(allocated_blocks + 1)
      BY <1>7, <3>3
    <3>5. /\ Memory(k[n])' = p + HeaderSize /\ End(k[n])' = p + HeaderSize + s
          /\ mem'[k[n]].id = allocated_blocks + 1
      <4>1. k[n] = p
        BY <3>1
      <4>2. QED BY <1>15, <1>17, <4>1
    <3>6. End(k[n])' <= Size
      BY <1>6, <3>5
    <3>7. \A x \in Memory(k[n])' .. End(k[n])' - 1 : mem'[x] = Byte(mem'[k[n]].id)
      <4>1. Memory(k[n])' .. End(k[n])' - 1 = p + HeaderSize .. p + HeaderSize + s - 1
        BY <1>3, <1>5, <3>5
      <4>2. Byte(mem'[k[n]].id) = Byte(allocated_blocks + 1)
        BY <3>5
      <4>3. QED BY <3>4, <4>1, <4>2
    <3>8. QED BY <3>2, <3>6, <3>7
  <2>2. CASE n \in B
    <3>1. k[n] = l[n] /\ \A m \in 1 .. n - 1 : m \in B
      BY <1>3, <1>9, <2>2
    <3>2. \A m \in 1 .. n - 1 : End(k[m])' <= k[n]
      BY <1>2, <1>9, <1>17, <2>2, <3>1
    <3>3. ASSUME NEW x \in Memory(l[n]) .. End(l[n]) - 1
          PROVE  mem'[x] = Byte(mem[l[n]].id)
      <4>1. l[n] \in Nat /\ End(l[n]) \in Nat /\ Memory(l[n]) = l[n] + HeaderSize
        BY <1>2, <2>2 DEF Memory
      <4>2. x \in l[n] .. End(l[n]) - 1 /\ x > l[n] /\ x < End(l[n]) /\ x \in Nat
        BY <1>3, <3>3, <4>1
      <4>3. x \in Addresses /\ x # p /\ x \notin p + 1 .. p + HeaderSize + s - 1
        BY <1>11, <2>2, <4>2
      <4>4. full_blocks # 0 => x # last_full
        BY <1>4, <2>2, <3>3, BytesApart
      <4>5. mem'[x] = mem[x]
        BY <1>7, <4>3, <4>4
      <4>6. QED BY <2>2, <4>5 DEF Layout, Ordered
    <3>4. QED BY <1>2, <1>14, <1>17, <2>2, <3>1, <3>2, <3>3
  <2>3. QED BY <1>8, <2>1, <2>2
<1>19. Numbered(k)'
  <2>1. \A n \in B : /\ mem[l[n]].id \in 1 .. allocated_blocks
                     /\ \A m \in 1 .. n - 1 : m \in B /\ mem[l[m]].id < mem[l[n]].id
    BY <1>3 DEF Layout, Numbered
  <2>2. ASSUME NEW n \in 1 .. full_blocks + 1
        PROVE  /\ mem'[k[n]].id \in 1 .. allocated_blocks + 1
               /\ \A m \in 1 .. n - 1 : mem'[k[m]].id < mem'[k[n]].id
    <3>1. CASE n = full_blocks + 1
      <4>1. \A m \in 1 .. n - 1 : m \in B
        BY <1>3, <3>1
      <4>2. \A m \in B : mem[l[m]].id < allocated_blocks + 1
        BY <1>3, <2>1
      <4>3. k[n] = p
        BY <1>9, <3>1
      <4>4. \A m \in 1 .. n - 1 : mem'[k[m]].id < allocated_blocks + 1
        BY <1>9, <1>14, <4>1, <4>2
      <4>5. QED BY <1>3, <1>15, <4>3, <4>4
    <3>2. CASE n \in B
      <4>1. \A m \in 1 .. n - 1 : m \in B /\ mem'[k[m]].id = mem[l[m]].id
        BY <1>9, <1>14, <2>1, <3>2
      <4>2. mem'[k[n]].id = mem[l[n]].id
        BY <1>9, <1>14, <3>2
      <4>3. mem[l[n]].id \in 1 .. allocated_blocks + 1
        BY <1>3, <2>1, <3>2
      <4>4. QED BY <2>1, <3>2, <4>1, <4>2, <4>3
    <3>3. QED BY <1>8, <3>1, <3>2
  <2>3. allocated_blocks + 1 \in Nat
    BY <1>3
  <2>4. QED BY <1>7, <2>2, <2>3 DEF Numbered
<1>20. Progress(k)'
  <2>1. ASSUME NEW n \in 1 .. full_blocks + 1
        PROVE  k[n] = IF n = 1 THEN 0 ELSE End(k[n - 1])'
    <3>1. CASE n = full_blocks + 1
      <4>1. CASE full_blocks = 0
        BY <1>1, <1>9, <3>1, <4>1 DEF Place
      <4>2. CASE full_blocks # 0
        <5>1. n - 1 = full_blocks /\ n # 1 /\ k[n] = p /\ full_blocks \in B
          BY <1>3, <1>9, <3>1, <4>2
        <5>2. p = End(l[full_blocks])
          BY <1>1, <1>4, <4>2 DEF Place
        <5>3. QED BY <1>9, <1>17, <5>1, <5>2
      <4>3. QED BY <4>1, <4>2
    <3>2. CASE n \in B
      <4>1. l[n] = IF n = 1 THEN 0 ELSE End(l[n - 1])
        BY <1>7, <3>2 DEF Progress, PackedTo
      <4>2. n # 1 => n - 1 \in B
        BY <1>3, <3>2
      <4>3. QED BY <1>9, <1>17, <3>2, <4>1, <4>2
    <3>3. QED BY <1>8, <3>1, <3>2
  <2>2. full_blocks' # 0
    BY <1>3, <1>7
  <2>3. QED BY <1>7, <1>9, <2>1, <2>2 DEF Progress, PackedTo
<1>21. TypeInv'
  BY <1>7, <1>8, <1>10 DEF TypeInv
<1>22. Contents(k)' = Append(Contents(l), [id |-> allocated_blocks + 1, size |-> s])
  <2> DEFINE new == [id |-> allocated_blocks + 1, size |-> s]
             c == Contents(l)
  <2>1. c \in Seq([id : Nat, size : Nat]) /\ Len(c) = full_blocks
    BY <1>2, <1>3 DEF Contents
  <2>2. \A n \in B : c[n] = [id |-> mem[l[n]].id, size |-> mem[l[n]].size]
    BY DEF Contents
  <2>3. new \in [id : Nat, size : Nat]
    BY <1>3
  <2> HIDE DEF c, new
  <2>4. Append(c, new) = [n \in 1 .. full_blocks + 1 |-> IF n \in B THEN c[n] ELSE new]
    <3> DEFINE a == Append(c, new)
    <3>1. /\ a \in Seq([id : Nat, size : Nat]) /\ Len(a) = full_blocks + 1
          /\ \A n \in B : a[n] = c[n]
          /\ a[full_blocks + 1] = new
      BY <2>1, <2>3, AppendProperties
    <3> HIDE DEF a
    <3>2. a = [n \in 1 .. full_blocks + 1 |-> a[n]]
      BY <3>1
    <3>3. \A n \in 1 .. full_blocks + 1 : a[n] = IF n \in B THEN c[n] ELSE new
      BY <1>8, <3>1
    <3>4. a = [n \in 1 .. full_blocks + 1 |-> IF n \in B THEN c[n] ELSE new]
      BY <3>2, <3>3
    <3>5. QED BY <3>4 DEF a
  <2>5. Contents(k)' = [n \in 1 .. full_blocks + 1 |->
                          [id |-> mem'[k[n]].id, size |-> mem'[k[n]].size]]
    BY <1>7 DEF Contents
  <2>6. ASSUME NEW n \in 1 .. full_blocks + 1
        PROVE  [id |-> mem'[k[n]].id, size |-> mem'[k[n]].size]
                 = IF n \in B THEN c[n] ELSE new
    <3>1. CASE n \in B
      BY <1>9, <1>14, <2>2, <3>1
    <3>2. CASE n \notin B
      <4>1. n = full_blocks + 1
        BY <1>8, <3>2
      <4>2. QED BY <1>9, <1>15, <3>2, <4>1 DEF new
    <3>3. QED BY <3>1, <3>2
  <2>7. QED BY <2>4, <2>5, <2>6 DEF c, new
<1>23. QED BY <1>16, <1>18, <1>19, <1>20, <1>21, <1>22 DEF Layout

\* A freed block leaves the list; the others stay where they are, and as they
\* are, until defrag begins.
LEMMA FreeStep ==
  ASSUME NEW l, State(l), NEW p, Free(p)
  PROVE  \E k, j : /\ j \in 1 .. full_blocks
                   /\ mem[l[j]].id = p
                   /\ State(k)'
                   /\ Contents(k)' = [n \in 1 .. full_blocks - 1 |->
                                        Contents(l)[IF n < j THEN n ELSE n + 1]]
<1> USE DEF State
<1> DEFINE B == 1 .. full_blocks
           From(j, n) == IF n < j THEN n ELSE n + 1
<1>1. PICK a \in Linked : /\ Has(a, p)
                          /\ mem' = Unlink(a)
                          /\ first_full' = IF mem[a].prev_full = Null
                                           THEN mem[a].next_full ELSE first_full
                          /\ last_full' = IF mem[a].next_full = Null
                                          THEN mem[a].prev_full ELSE last_full
  BY DEF Free
<1>2. PICK j \in B : a = l[j]
  BY LinkedIs
<1>3. /\ full_blocks' = full_blocks - 1 /\ pc' = "first"
      /\ allocated_blocks' = allocated_blocks
      /\ full_blocks \in Nat /\ full_blocks - 1 \in Nat
      /\ full_blocks - 1 = full_blocks' /\ full_blocks \in B /\ 1 \in B
  BY <1>2 DEF Free, TypeInv
<1>4. \A n \in B : /\ l[n] \in Addresses /\ l[n] # Null /\ mem[l[n]] \in Cells
                   /\ End(l[n]) <= Size
                   /\ \A m \in 1 .. n - 1 : m \in B /\ m < n /\ End(l[m]) <= l[n]
                   /\ mem[l[n]].next_full = IF n < full_blocks THEN l[n + 1] ELSE Null
                   /\ mem[l[n]].prev_full = IF n = 1 THEN Null ELSE l[n - 1]
  <2>1. \A n \in B : \A m \in 1 .. n - 1 : m \in B /\ m < n
    BY DEF TypeInv
  <2>2. \A n \in B : l[n] \in Nat => l[n] # Null
    BY DEF Null
  <2>3. QED BY <2>1, <2>2, BlocksApart DEF Layout, Listed
<1>5. \A n \in 1 .. full_blocks - 1 :
        /\ n \in B /\ n + 1 \in B /\ From(j, n) \in B /\ From(j, n) # j
        /\ \A m \in 1 .. n - 1 : /\ m \in 1 .. full_blocks - 1
                                 /\ From(j, m) \in 1 .. From(j, n) - 1
  BY <1>3
<1>6. PICK k : /\ k \in [1 .. full_blocks - 1 -> Addresses]
               /\ \A n \in 1 .. full_blocks - 1 : k[n] = l[From(j, n)]
  <2> DEFINE f == [n \in 1 .. full_blocks - 1 |-> l[From(j, n)]]
  <2>1. /\ f \in [1 .. full_blocks - 1 -> Addresses]
        /\ \A n \in 1 .. full_blocks - 1 : f[n] = l[From(j, n)]
    BY <1>4, <1>5
  <2>2. QED BY <2>1
\* What unlinking does to the headers, and that it does nothing else.
<1>7. \A x \in Addresses :
        mem'[x] = IF j > 1 /\ x = l[j - 1]
                  THEN [mem[x] EXCEPT !.next_full = mem[a].next_full]
                  ELSE IF j < full_blocks /\ x = l[j + 1]
                  THEN [mem[x] EXCEPT !.prev_full = mem[a].prev_full]
                  ELSE mem[x]
  <2> SUFFICES ASSUME NEW x \in Addresses
               PROVE  /\ x = mem[a].prev_full <=> j > 1 /\ x = l[j - 1]
                      /\ x = mem[a].next_full <=> j < full_blocks /\ x = l[j + 1]
    BY <1>1 DEF Unlink
  <2>1. x # Null
    BY SizeAssumption DEF Addresses, Null
  <2>2. j > 1 <=> j # 1
    OBVIOUS
  <2>3. QED BY <1>2, <1>4, <2>1, <2>2
<1>8. \A n \in B :
        /\ mem'[l[n]].size = mem[l[n]].size
        /\ mem'[l[n]].id = mem[l[n]].id
        /\ mem'[l[n]].next_full = IF n = j - 1 THEN mem[a].next_full
                                  ELSE mem[l[n]].next_full
        /\ mem'[l[n]].prev_full = IF n = j + 1 THEN mem[a].prev_full
                                  ELSE mem[l[n]].prev_full
  <2> SUFFICES ASSUME NEW n \in B
               PROVE  /\ mem'[l[n]].size = mem[l[n]].size
                      /\ mem'[l[n]].id = mem[l[n]].id
                      /\ mem'[l[n]].next_full = IF n = j - 1 THEN mem[a].next_full
                                                ELSE mem[l[n]].next_full
                      /\ mem'[l[n]].prev_full = IF n = j + 1 THEN mem[a].prev_full
                                                ELSE mem[l[n]].prev_full
    OBVIOUS
  <2>1. l[n] \in Addresses /\ mem[l[n]] \in Cells
    BY <1>4
  <2>2. n = j - 1 <=> (j > 1 /\ l[n] = l[j - 1])
    <3>1. j > 1 => j - 1 \in B
      BY <1>3
    <3>2. n = j - 1 => j > 1
      OBVIOUS
    <3>3. QED BY <3>1, <3>2, BlocksDiffer
  <2>3. n = j + 1 <=> (j < full_blocks /\ l[n] = l[j + 1])
    <3>1. j < full_blocks => j + 1 \in B
      BY <1>3
    <3>2. n = j + 1 => j < full_blocks
      BY <1>3
    <3>3. QED BY <3>1, <3>2, BlocksDiffer
  <2>4. CASE n = j - 1
    <3>1. mem'[l[n]] = [mem[l[n]] EXCEPT !.next_full = mem[a].next_full]
      BY <1>7, <2>1, <2>2, <2>4, Zenon
    <3>2. n # j + 1
      BY <2>4
    <3>3. QED BY <2>1, <2>4, <3>1, <3>2 DEF Cells
  <2>5. CASE n = j + 1
    <3>1. n # j - 1
      BY <2>5
    <3>2. mem'[l[n]] = [mem[l[n]] EXCEPT !.prev_full = mem[a].prev_full]
      BY <1>7, <2>1, <2>2, <2>3, <2>5, <3>1, Zenon
    <3>3. QED BY <2>1, <2>5, <3>1, <3>2 DEF Cells
  <2>6. CASE n # j - 1 /\ n # j + 1
    <3>1. mem'[l[n]] = mem[l[n]]
      BY <1>7, <2>1, <2>2, <2>3, <2>6, Zenon
    <3>2. QED BY <2>6, <3>1
  <2>7. QED BY <2>4, <2>5, <2>6
<1>9. CellType'
  <2>1. /\ mem[a].next_full \in Addresses \cup {Null}
        /\ mem[a].prev_full \in Addresses \cup {Null}
    BY <1>2, <1>4 DEF Cells
  <2>2. \A x \in Addresses :
          /\ mem[x] \in Cells
          /\ [mem[x] EXCEPT !.next_full = mem[a].next_full] \in Cells
          /\ [mem[x] EXCEPT !.prev_full = mem[a].prev_full] \in Cells
    BY <2>1 DEF TypeInv, CellType, Cells
  <2>3. mem' = [x \in Addresses |-> mem'[x]]
    BY <1>1 DEF Unlink
  <2>4. \A x \in Addresses : mem'[x] \in Cells
    BY <1>7, <2>2
  <2>5. QED BY <2>3, <2>4 DEF CellType
<1>10. Listed(k)'
  <2>1. first_full' = IF full_blocks - 1 = 0 THEN Null ELSE k[1]
    <3>1. first_full = l[1]
      BY <1>3 DEF Layout, Listed
    <3>2. CASE j = 1
      <4>1. first_full' = IF 1 < full_blocks THEN l[2] ELSE Null
        BY <1>1, <1>2, <1>4, <3>2
      <4>2. full_blocks - 1 # 0 => 1 < full_blocks /\ 1 \in 1 .. full_blocks - 1
                                   /\ From(j, 1) = 2
        BY <1>3, <3>2
      <4>3. full_blocks - 1 = 0 => ~(1 < full_blocks)
        BY <1>3
      <4>4. QED BY <1>6, <4>1, <4>2, <4>3
    <3>3. CASE j # 1
      <4>1. full_blocks - 1 # 0 /\ 1 \in 1 .. full_blocks - 1 /\ From(j, 1) = 1
            /\ j - 1 \in B
        BY <1>3, <3>3
      <4>2. mem[a].prev_full # Null
        BY <1>2, <1>4, <3>3, <4>1
      <4>3. QED BY <1>1, <1>6, <3>1, <4>1, <4>2
    <3>4. QED BY <3>2, <3>3
  <2>2. ASSUME NEW n \in 1 .. full_blocks - 1
        PROVE  /\ mem'[k[n]].next_full =
                    IF n < full_blocks - 1 THEN k[n + 1] ELSE Null
               /\ mem'[k[n]].prev_full = IF n = 1 THEN Null ELSE k[n - 1]
    <3>1. n \in B /\ n + 1 \in B /\ From(j, n) \in B /\ From(j, n) # j
      BY <1>5
    <3>2. k[n] = l[From(j, n)]
      BY <1>6
    <3>3. n < full_blocks - 1 => /\ n + 1 \in 1 .. full_blocks - 1
                                 /\ k[n + 1] = l[From(j, n + 1)]
      BY <1>3, <1>6
    <3>4. n # 1 => n - 1 \in 1 .. full_blocks - 1 /\ k[n - 1] = l[From(j, n - 1)]
      BY <1>3, <1>6
    <3>5. mem'[k[n]].next_full = IF n < full_blocks - 1 THEN k[n + 1] ELSE Null
      <4>1. CASE From(j, n) = j - 1
        <5>1. n = j - 1 /\ (n < full_blocks - 1 <=> j < full_blocks)
              /\ From(j, n + 1) = j + 1
          BY <1>3, <4>1
        <5>2. mem'[k[n]].next_full = IF j < full_blocks THEN l[j + 1] ELSE Null
          BY <1>2, <1>4, <1>8, <3>1, <3>2, <4>1
        <5>3. QED BY <3>3, <5>1, <5>2
      <4>2. CASE From(j, n) # j - 1
        <5>1. /\ n < full_blocks - 1 <=> From(j, n) < full_blocks
              /\ n < full_blocks - 1 => From(j, n) + 1 = From(j, n + 1)
          BY <1>3, <4>2
        <5>2. mem'[k[n]].next_full =
                IF From(j, n) < full_blocks THEN l[From(j, n) + 1] ELSE Null
          BY <1>4, <1>8, <3>1, <3>2, <4>2
        <5>3. QED BY <3>3, <5>1, <5>2
      <4>3. QED BY <4>1, <4>2
    <3>6. mem'[k[n]].prev_full = IF n = 1 THEN Null ELSE k[n - 1]
      <4>1. CASE From(j, n) = j + 1
        <5>1. n = j /\ (n = 1 <=> j = 1) /\ From(j, n - 1) = j - 1
          BY <1>3, <4>1
        <5>2. mem'[k[n]].prev_full = IF j = 1 THEN Null ELSE l[j - 1]
          BY <1>2, <1>4, <1>8, <3>1, <3>2, <4>1
        <5>3. QED BY <3>4, <5>1, <5>2
      <4>2. CASE From(j, n) # j + 1
        <5>1. /\ n = 1 <=> From(j, n) = 1
              /\ n # 1 => From(j, n) - 1 = From(j, n - 1)
          BY <1>3, <4>2
        <5>2. mem'[k[n]].prev_full =
                IF From(j, n) = 1 THEN Null ELSE l[From(j, n) - 1]
          BY <1>4, <1>8, <3>1, <3>2, <4>2
        <5>3. QED BY <3>4, <5>1, <5>2
      <4>3. QED BY <4>1, <4>2
    <3>7. QED BY <3>5, <3>6
  <2>3. QED BY <1>3, <1>6, <2>1, <2>2 DEF Listed
<1>11. \A n \in B : End(l[n])' = End(l[n]) /\ Memory(l[n])' = Memory(l[n])
  BY <1>8 DEF End, Memory
<1>12. Ordered(k)'
  <2> SUFFICES ASSUME NEW n \in 1 .. full_blocks - 1
               PROVE  /\ \A m \in 1 .. n - 1 : End(k[m])' <= k[n]
                      /\ End(k[n])' <= Size
                      /\ \A x \in Memory(k[n])' .. End(k[n])' - 1 :
                           mem'[x] = Byte(mem'[k[n]].id)
    <3>1. full_blocks' = full_blocks - 1
      BY <1>3
    <3>2. QED BY <3>1 DEF Ordered, Byte
  <2> DEFINE g == From(j, n)
  <2>1. g \in B /\ k[n] = l[g]
    BY <1>5, <1>6
  <2>2. ASSUME NEW m \in 1 .. n - 1 PROVE End(k[m])' <= k[n]
    <3>1. From(j, m) \in 1 .. g - 1 /\ k[m] = l[From(j, m)]
      BY <1>5, <1>6
    <3> HIDE DEF From, g
    <3>2. From(j, m) \in B /\ End(l[From(j, m)]) <= l[g]
      BY <1>4, <2>1, <3>1
    <3>3. QED BY <1>11, <2>1, <3>1, <3>2
  <2> HIDE DEF g
  <2>3. End(k[n])' <= Size
    BY <1>4, <1>11, <2>1
  <2>4. ASSUME NEW x \in Memory(l[g]) .. End(l[g]) - 1
        PROVE  mem'[x] = Byte(mem[l[g]].id)
    <3>1. x \in Addresses /\ \A m \in B : x # l[m]
      BY <2>1, BytesApart
    <3>2. (j > 1 => j - 1 \in B) /\ (j < full_blocks => j + 1 \in B)
      BY <1>3
    <3>3. mem'[x] = mem[x]
      BY <1>7, <3>1, <3>2
    <3>4. QED BY <2>1, <3>3 DEF Layout, Ordered
  <2>5. QED BY <1>8, <1>11, <2>1, <2>2, <2>3, <2>4
<1>13. Numbered(k)'
  <2>1. ASSUME NEW n \in 1 .. full_blocks - 1
        PROVE  /\ mem'[k[n]].id \in 1 .. allocated_blocks
               /\ \A m \in 1 .. n - 1 : mem'[k[m]].id < mem'[k[n]].id
    <3>1. From(j, n) \in B /\ k[n] = l[From(j, n)]
      BY <1>5, <1>6
    <3>2. \A m \in 1 .. n - 1 : /\ From(j, m) \in 1 .. From(j, n) - 1
                                /\ From(j, m) \in B
                                /\ k[m] = l[From(j, m)]
      BY <1>5, <1>6
    <3> HIDE DEF From
    <3>3. QED BY <1>8, <3>1, <3>2 DEF Layout, Numbered
  <2>2. QED BY <1>3, <2>1 DEF Layout, Numbered
<1>14. Progress(k)'
  <2>1. ASSUME full_blocks - 1 = 0 PROVE last_full' = Null
    <3>1. j = 1 /\ full_blocks = 1
      BY <1>3, <2>1
    <3>2. QED BY <1>1, <1>2, <1>4, <3>1
  <2>2. QED BY <1>3, <2>1 DEF Progress
<1>15. TypeInv'
  BY <1>3, <1>9 DEF TypeInv
<1>16. Contents(k)' = [n \in 1 .. full_blocks - 1 |->
                         Contents(l)[IF n < j THEN n ELSE n + 1]]
  <2>1. \A n \in 1 .. full_blocks - 1 :
          From(j, n) \in B /\ k[n] = l[From(j, n)]
    BY <1>5, <1>6
  <2>2. \A n \in B : Contents(l)[n] = [id |-> mem[l[n]].id, size |-> mem[l[n]].size]
    BY DEF Contents
  <2>3. \A n \in 1 .. full_blocks - 1 :
          [id |-> mem'[k[n]].id, size |-> mem'[k[n]].size] = Contents(l)[From(j, n)]
    <3> HIDE DEF From
    <3>1. QED BY <1>8, <2>1, <2>2
  <2>4. Contents(k)' = [n \in 1 .. full_blocks - 1 |->
                          [id |-> mem'[k[n]].id, size |-> mem'[k[n]].size]]
    BY <1>3 DEF Contents
  <2>5. QED BY <2>3, <2>4
<1>17. mem[l[j]].id = p
  BY <1>1, <1>2 DEF Has
<1>18. QED BY <1>10, <1>12, <1>13, <1>14, <1>15, <1>16, <1>17 DEF Layout

\* memmove to a lower address, the link of the block before and then that of
\* the block behind: what defrag does, in its order, is such a move.
LEMMA RelinkMoves ==
  ASSUME NEW l, State(l), NEW j \in 1 .. full_blocks,
         NEW to \in Addresses, to < l[j],
         \A i \in 1 .. j - 1 : End(l[i]) <= to,
         NEW m,
         m = [x \in Addresses |->
                IF x \in to .. to + Length(l[j]) - 1 THEN mem[x - to + l[j]]
                ELSE IF j > 1 /\ x = l[j - 1] THEN [mem[x] EXCEPT !.next_full = to]
                ELSE mem[x]],
         mem' = Relinked(m, to),
         first_full' = IF j = 1 THEN to ELSE first_full,
         UNCHANGED <<full_blocks, allocated_blocks>>
  PROVE  TypeInv' /\ MovesDown(l, j, to)
<1> USE DEF State
<1> DEFINE B == 1 .. full_blocks
<1>1. PICK last : last = to + Length(l[j]) - 1
  OBVIOUS
<1>2. \A n \in B : /\ l[n] \in Addresses /\ l[n] \in Nat
                   /\ mem[l[n]] \in Cells /\ mem[l[n]].size \in Nat
                   /\ End(l[n]) = l[n] + HeaderSize + mem[l[n]].size
                   /\ End(l[n]) \in Nat /\ End(l[n]) <= Size
                   /\ \A i \in 1 .. n - 1 : i \in B /\ End(l[i]) <= l[n]
  <2>1. \A n \in B : \A i \in 1 .. n - 1 : i \in B
    BY DEF TypeInv
  <2>2. QED BY <2>1, BlocksApart DEF Layout
<1>3. /\ to \in Nat /\ Size \in Nat /\ HeaderSize \in Nat /\ HeaderSize >= 1
      /\ mem[l[j]].size \in Nat /\ l[j] \in Nat
      /\ last = to + HeaderSize + mem[l[j]].size - 1
  BY <1>1, <1>2, SizeAssumption DEF Addresses, Length
<1>4. /\ last \in Nat /\ to <= last /\ last < End(l[j]) - 1
      /\ \A x \in to .. last :
           x - to + l[j] \in Addresses /\ x \in Addresses /\ x \in Nat
  <2>1. End(l[j]) = l[j] + HeaderSize + mem[l[j]].size /\ End(l[j]) <= Size
        /\ End(l[j]) \in Nat
    BY <1>2
  <2>2. last \in Nat /\ to <= last /\ last < End(l[j]) - 1
    BY <1>3, <2>1
  <2>3. ASSUME NEW x \in to .. last
        PROVE  x - to + l[j] \in Addresses /\ x \in Addresses /\ x \in Nat
    <3>1. x \in Nat /\ to <= x /\ x <= last
      BY <1>3, <2>2
    <3>2. x - to + l[j] \in Nat /\ x - to + l[j] < Size /\ x < Size
      BY <1>3, <2>1, <3>1
    <3>3. QED BY <1>3, <3>1, <3>2 DEF Addresses
  <2>4. QED BY <2>2, <2>3
<1>5. \A x \in Addresses :
        m[x] = IF x \in to .. last THEN mem[x - to + l[j]]
               ELSE IF j > 1 /\ x = l[j - 1] THEN [mem[x] EXCEPT !.next_full = to]
               ELSE mem[x]
  BY <1>1
<1>6. \A x \in Addresses : m[x] \in Cells
  <2>1. \A x \in Addresses : mem[x] \in Cells /\ [mem[x] EXCEPT !.next_full = to] \in Cells
    BY DEF TypeInv, CellType, Cells
  <2>2. QED BY <1>4, <1>5, <2>1
<1>7. m[to].next_full = IF j < full_blocks THEN l[j + 1] ELSE Null
  <2>1. to \in to .. last /\ to - to + l[j] = l[j]
    BY <1>3, <1>4
  <2>2. m[to] = mem[l[j]]
    BY <1>5, <2>1
  <2>3. QED BY <2>2 DEF Layout, Listed
<1>8. j < full_blocks => /\ j + 1 \in B /\ l[j + 1] \in Addresses
                         /\ l[j + 1] # Null /\ l[j + 1] \notin to .. last
                         /\ (j > 1 => l[j + 1] # l[j - 1])
  <2> SUFFICES ASSUME j < full_blocks
               PROVE  /\ j + 1 \in B /\ l[j + 1] \in Addresses
                      /\ l[j + 1] # Null /\ l[j + 1] \notin to .. last
                      /\ (j > 1 => l[j + 1] # l[j - 1])
    OBVIOUS
  <2>1. j + 1 \in B /\ j \in 1 .. (j + 1) - 1
    BY DEF TypeInv
  <2>2. l[j + 1] \in Addresses /\ l[j + 1] \in Nat /\ End(l[j]) <= l[j + 1]
        /\ End(l[j]) \in Nat
    BY <1>2, <2>1
  <2>3. l[j + 1] # Null /\ l[j + 1] \notin to .. last
    BY <1>4, <2>2 DEF Null
  <2>4. ASSUME j > 1 PROVE l[j + 1] # l[j - 1]
    <3>1. j - 1 \in B /\ j - 1 # j + 1
      BY <2>4 DEF TypeInv
    <3>2. QED BY <2>1, <3>1, BlocksDiffer
  <2>5. QED BY <2>1, <2>2, <2>3, <2>4
<1>9. /\ DOMAIN mem' = Addresses /\ mem' = [x \in Addresses |-> mem'[x]]
      /\ \A x \in Addresses :
           mem'[x] = IF j < full_blocks /\ x = l[j + 1]
                     THEN [m[x] EXCEPT !.prev_full = to] ELSE m[x]
  <2>1. DOMAIN m = Addresses /\ m = [x \in Addresses |-> m[x]]
    OBVIOUS
  <2>2. CASE j < full_blocks
    <3>1. mem' = [m EXCEPT ![l[j + 1]].prev_full = to]
      BY <1>7, <1>8, <2>2 DEF Relinked
    <3> HIDE DEF B
    <3>2. QED BY <1>8, <2>1, <2>2, <3>1
  <2>3. CASE ~(j < full_blocks)
    <3>1. mem' = m
      BY <1>7, <2>3 DEF Relinked
    <3>2. QED BY <2>1, <2>3, <3>1
  <2>4. QED BY <2>2, <2>3
<1>10. CellType'
  <2>1. \A x \in Addresses : [m[x] EXCEPT !.prev_full = to] \in Cells
    BY <1>6 DEF Cells
  <2>2. \A x \in Addresses : mem'[x] \in Cells
    BY <1>6, <1>9, <2>1
  <2>3. QED BY <1>9, <2>2 DEF CellType
<1>11. \A x \in to .. last : mem'[x] = mem[x - to + l[j]]
  BY <1>4, <1>5, <1>8, <1>9
<1>12. \A x \in Addresses \ (to .. last) :
         mem'[x] = IF j > 1 /\ x = l[j - 1] THEN [mem[x] EXCEPT !.next_full = to]
                   ELSE IF j < full_blocks /\ x = l[j + 1]
                   THEN [mem[x] EXCEPT !.prev_full = to]
                   ELSE mem[x]
  BY <1>5, <1>8, <1>9
<1>13. QED BY <1>1, <1>10, <1>11, <1>12 DEF TypeInv, MovesDown

LEMMA DefragFirstStep ==
  ASSUME NEW l, State(l), DefragFirst
  PROVE  \E k : State(k)' /\ Contents(k)' = Contents(l)
<1> DEFINE B == 1 .. full_blocks
<1>1. /\ TypeInv /\ Layout(l) /\ full_blocks \in Nat /\ full_blocks # 0
      /\ 1 \in B /\ first_full = l[1] /\ l[1] \in Addresses /\ l[1] \in Nat
      /\ pc' = "loop" /\ first_full' = 0 /\ header' = 0
      /\ UNCHANGED <<full_blocks, allocated_blocks>>
  <2>1. full_blocks \in Nat /\ full_blocks # 0
    BY DEF DefragFirst, State, TypeInv, Layout, Listed
  <2>2. 1 \in B
    BY <2>1
  <2>3. l[1] \in Addresses /\ l[1] \in Nat
    BY <2>2, BlocksApart DEF State, Layout
  <2>4. QED BY <2>1, <2>2, <2>3 DEF DefragFirst, State, Layout, Listed
<1>2. CASE first_full = 0
  <2>1. mem' = mem /\ first_full' = first_full
    BY <1>1, <1>2 DEF DefragFirst
  <2>2. TypeInv' /\ Layout(l)' /\ Contents(l)' = Contents(l)
    BY <1>1, <2>1 DEF TypeInv, CellType, Layout, Listed, Ordered, Numbered, End,
                      Memory, Contents
  <2>3. PackedTo(l, 1)'
    <3>1. \A n \in 1 .. 1 : n = 1
      OBVIOUS
    <3>2. QED BY <1>1, <1>2, <3>1 DEF PackedTo
  <2>4. Progress(l)'
    BY <1>1, <1>2, <2>3 DEF Progress
  <2>5. QED BY <2>2, <2>4 DEF State
<1>3. CASE first_full # 0
  <2>1. 0 \in Addresses /\ 0 < l[1] /\ \A i \in 1 .. 1 - 1 : End(l[i]) <= 0
    BY <1>1, <1>3, SizeAssumption DEF Addresses
  <2>2. PICK m : m = Moved(l[1], 0)
    OBVIOUS
  <2>3. mem' = Relinked(m, 0)
    BY <1>1, <1>3, <2>2 DEF DefragFirst
  <2>4. m = [x \in Addresses |->
               IF x \in 0 .. 0 + Length(l[1]) - 1 THEN mem[x - 0 + l[1]]
               ELSE IF 1 > 1 /\ x = l[1 - 1] THEN [mem[x] EXCEPT !.next_full = 0]
               ELSE mem[x]]
    BY <2>2 DEF Moved
  <2>5. TypeInv' /\ MovesDown(l, 1, 0)
    BY <1>1, <2>1, <2>3, <2>4, RelinkMoves
  <2>6. PICK k : k = [l EXCEPT ![1] = 0]
    OBVIOUS
  <2>7. Layout(k)' /\ Contents(k)' = Contents(l)
    BY <1>1, <2>5, <2>6, MoveKeeps
  <2>8. k[1] = 0
    BY <1>1, <2>6 DEF Layout, Listed
  <2>9. PackedTo(k, 1)'
    <3>1. \A n \in 1 .. 1 : n = 1
      OBVIOUS
    <3>2. QED BY <2>8, <3>1 DEF PackedTo
  <2>10. Progress(k)'
    BY <1>1, <2>8, <2>9 DEF Progress
  <2>11. QED BY <2>5, <2>7, <2>10 DEF State
<1>4. QED BY <1>2, <1>3

\* Where the loop of defrag is.
LEMMA LoopAt ==
  ASSUME NEW l, State(l), pc = "loop"
  PROVE  \E k \in 1 .. full_blocks :
           /\ header = l[k] /\ PackedTo(l, k) /\ full_blocks \in Nat
           /\ End(l[k]) \in Nat
           /\ mem[header].next_full = IF k < full_blocks THEN l[k + 1] ELSE Null
           /\ k < full_blocks =>
                /\ k + 1 \in 1 .. full_blocks
                /\ l[k + 1] \in Addresses /\ l[k + 1] \in Nat
                /\ End(l[k]) <= l[k + 1]
<1>1. PICK k \in 1 .. full_blocks : header = l[k] /\ PackedTo(l, k)
  BY DEF State, Progress
<1>2. full_blocks \in Nat /\ TypeInv /\ Layout(l)
  BY DEF State, TypeInv
<1>3. k < full_blocks => k + 1 \in 1 .. full_blocks /\ k \in 1 .. (k + 1) - 1
  BY <1>2
<1>4. /\ End(l[k]) \in Nat
      /\ k < full_blocks => /\ l[k + 1] \in Addresses /\ l[k + 1] \in Nat
                            /\ End(l[k]) <= l[k + 1]
  BY <1>2, <1>3, BlocksApart DEF Layout
<1>5. QED BY <1>1, <1>2, <1>3, <1>4 DEF Layout, Listed

LEMMA DefragKeepStep ==
  ASSUME NEW l, State(l), DefragKeep
  PROVE  \E k : State(k)' /\ Contents(k)' = Contents(l)
<1>1. pc = "loop" /\ pc' = "loop"
  BY DEF DefragKeep
<1>2. PICK k \in 1 .. full_blocks :
        /\ header = l[k] /\ PackedTo(l, k) /\ full_blocks \in Nat
        /\ End(l[k]) \in Nat
        /\ mem[header].next_full = IF k < full_blocks THEN l[k + 1] ELSE Null
        /\ k < full_blocks => k + 1 \in 1 .. full_blocks
  BY <1>1, LoopAt
<1>3. /\ mem[header].next_full = End(l[k]) /\ header' = End(l[k])
      /\ UNCHANGED <<mem, first_full, last_full, full_blocks, allocated_blocks>>
  BY <1>2 DEF DefragKeep
<1>4. k < full_blocks /\ l[k + 1] = End(l[k])
  BY <1>2, <1>3 DEF Null
<1>5. TypeInv' /\ Layout(l)' /\ Contents(l)' = Contents(l)
  BY <1>3 DEF State, TypeInv, CellType, Layout, Listed, Ordered, Numbered, End,
              Memory, Contents
<1>6. PackedTo(l, k + 1)
  <2>1. \A n \in 1 .. k + 1 : n \in 1 .. k \/ (n = k + 1 /\ n # 1 /\ n - 1 = k)
    BY <1>2
  <2>2. QED BY <1>2, <1>4, <2>1 DEF PackedTo
<1>7. PackedTo(l, k + 1)'
  BY <1>3, <1>6 DEF PackedTo, End, Memory
<1>8. Progress(l)'
  <2>1. full_blocks # 0 /\ k + 1 \in 1 .. full_blocks
    BY <1>2, <1>4
  <2>2. QED BY <1>1, <1>3, <1>4, <1>7, <2>1 DEF Progress
<1>9. QED BY <1>5, <1>8 DEF State

LEMMA DefragSlideStep ==
  ASSUME NEW l, State(l), DefragSlide
  PROVE  \E k : State(k)' /\ Contents(k)' = Contents(l)
<1>1. pc = "loop" /\ pc' = "loop" /\ TypeInv /\ Layout(l)
  BY DEF DefragSlide, State
<1>2. PICK i \in 1 .. full_blocks :
        /\ header = l[i] /\ PackedTo(l, i) /\ full_blocks \in Nat
        /\ End(l[i]) \in Nat
        /\ mem[header].next_full = IF i < full_blocks THEN l[i + 1] ELSE Null
        /\ i < full_blocks => /\ i + 1 \in 1 .. full_blocks
                              /\ l[i + 1] \in Addresses /\ l[i + 1] \in Nat
                              /\ End(l[i]) <= l[i + 1]
  BY <1>1, LoopAt
<1>3. PICK to : to = End(l[i])
  OBVIOUS
<1>4. PICK j : j = i + 1
  OBVIOUS
<1>5. /\ i < full_blocks /\ j \in 1 .. full_blocks /\ j > 1 /\ j # 1 /\ j - 1 = i
      /\ l[j] # to /\ l[j] \in Nat /\ l[j] \in Addresses /\ to <= l[j]
      /\ to \in Nat /\ mem[header].next_full = l[j]
  <2>1. mem[header].next_full # Null /\ mem[header].next_full # End(l[i])
    BY <1>2 DEF DefragSlide
  <2>2. i < full_blocks
    BY <1>2, <2>1
  <2>3. j > 1 /\ j # 1 /\ j - 1 = i
    BY <1>4
  <2>4. QED BY <1>2, <1>3, <1>4, <2>1, <2>2, <2>3
<1>6. to < l[j] /\ to \in Addresses
  BY <1>5, SizeAssumption DEF Addresses
<1>7. \A n \in 1 .. j - 1 : End(l[n]) <= to
  <2> SUFFICES ASSUME NEW n \in 1 .. j - 1, n # i PROVE End(l[n]) <= to
    BY <1>2, <1>3
  <2>1. n \in 1 .. i - 1
    BY <1>5
  <2>2. /\ End(l[n]) \in Nat /\ End(l[n]) <= l[i] /\ l[i] < End(l[i])
        /\ l[i] \in Nat
    BY <1>1, <2>1, BlocksApart DEF Layout
  <2>3. QED BY <1>3, <1>5, <2>2
<1>8. PICK m : m = [Moved(l[j], to) EXCEPT ![l[i]].next_full = to]
  OBVIOUS
<1>9. mem' = Relinked(m, to) /\ header' = to
      /\ UNCHANGED <<first_full, full_blocks, allocated_blocks>>
  BY <1>2, <1>3, <1>5, <1>8 DEF DefragSlide
<1>10. m = [x \in Addresses |->
              IF x \in to .. to + Length(l[j]) - 1 THEN mem[x - to + l[j]]
              ELSE IF j > 1 /\ x = l[j - 1] THEN [mem[x] EXCEPT !.next_full = to]
              ELSE mem[x]]
  <2>1. l[i] \in Addresses /\ l[i] \notin to .. to + Length(l[j]) - 1
    <3>1. l[i] \in Addresses /\ l[i] \in Nat /\ l[i] < End(l[i])
      BY <1>1, BlocksApart DEF Layout
    <3>2. QED BY <1>3, <1>5, <3>1
  <2>2. Moved(l[j], to)[l[i]] = mem[l[i]]
    BY <2>1 DEF Moved
  <2>3. m = [x \in Addresses |->
               IF x = l[i] THEN [mem[x] EXCEPT !.next_full = to]
               ELSE Moved(l[j], to)[x]]
    <3> DEFINE mv == Moved(l[j], to)
    <3>1. DOMAIN mv = Addresses
      BY DEF Moved
    <3>2. mv[l[i]] = mem[l[i]]
      BY <2>2
    <3> HIDE DEF mv
    <3>3. m = [mv EXCEPT ![l[i]].next_full = to]
      BY <1>8 DEF mv
    <3>4. m = [x \in Addresses |-> IF x = l[i] THEN [mv[x] EXCEPT !.next_full = to]
                                   ELSE mv[x]]
      BY <2>1, <3>1, <3>3
    <3>5. QED BY <3>2, <3>4 DEF mv
  <2>4. \A x \in Addresses :
          (IF x = l[i] THEN [mem[x] EXCEPT !.next_full = to]
           ELSE Moved(l[j], to)[x])
          = IF x \in to .. to + Length(l[j]) - 1 THEN mem[x - to + l[j]]
            ELSE IF j > 1 /\ x = l[j - 1] THEN [mem[x] EXCEPT !.next_full = to]
            ELSE mem[x]
    BY <1>5, <2>1 DEF Moved
  <2>5. QED BY <2>3, <2>4
<1>11. TypeInv' /\ MovesDown(l, j, to)
  BY <1>5, <1>6, <1>7, <1>9, <1>10, RelinkMoves
<1>12. PICK k : k = [l EXCEPT ![j] = to]
  OBVIOUS
<1>13. /\ Layout(k)' /\ Contents(k)' = Contents(l)
       /\ \A n \in 1 .. full_blocks : mem'[k[n]].size = mem[l[n]].size
  <2>1. TypeInv /\ Layout(l) /\ j \in 1 .. full_blocks /\ MovesDown(l, j, to)
    BY <1>1, <1>5, <1>11
  <2>2. Layout(k)' /\ Contents(k)' = Contents(l)
    BY <1>12, <2>1, MoveKeeps
  <2>3. ASSUME NEW n \in 1 .. full_blocks PROVE mem'[k[n]].size = mem[l[n]].size
    <3>1. /\ Contents(l)[n] = [id |-> mem[l[n]].id, size |-> mem[l[n]].size]
          /\ Contents(k)'[n] = [id |-> mem'[k[n]].id, size |-> mem'[k[n]].size]
      BY <1>9 DEF Contents
    <3>2. QED BY <2>2, <3>1
  <2>4. QED BY <2>2, <2>3
<1>14. /\ k[j] = to
       /\ \A n \in 1 .. j - 1 : /\ n \in 1 .. full_blocks /\ k[n] = l[n]
                               /\ End(k[n])' = End(l[n])
  <2>1. \A n \in 1 .. j - 1 : n \in 1 .. full_blocks /\ n # j
    BY <1>2, <1>5
  <2>2. k[j] = to /\ \A n \in 1 .. j - 1 : k[n] = l[n]
    BY <1>1, <1>5, <1>12, <2>1 DEF Layout, Listed
  <2>3. QED BY <1>13, <2>1, <2>2 DEF End, Memory
<1>15. PackedTo(k, j)'
  <2> SUFFICES ASSUME NEW n \in 1 .. j
               PROVE  k[n] = IF n = 1 THEN 0 ELSE End(k[n - 1])'
    BY DEF PackedTo
  <2>1. CASE n = j
    <3>1. n # 1 /\ n - 1 = i /\ i \in 1 .. j - 1
      BY <1>5, <2>1
    <3>2. QED BY <1>3, <1>13, <1>14, <2>1, <3>1
  <2>2. CASE n # j
    <3>1. n \in 1 .. i /\ n \in 1 .. j - 1 /\ (n # 1 => n - 1 \in 1 .. j - 1)
      BY <1>5, <2>2
    <3>2. l[n] = IF n = 1 THEN 0 ELSE End(l[n - 1])
      BY <1>2, <3>1 DEF PackedTo
    <3>3. QED BY <1>13, <1>14, <3>1, <3>2
  <2>3. QED BY <2>1, <2>2
<1>16. Progress(k)'
  <2>1. full_blocks' # 0 /\ header' = k[j] /\ j \in 1 .. full_blocks'
    BY <1>2, <1>5, <1>9, <1>14
  <2>2. QED BY <1>1, <1>15, <2>1 DEF Progress
<1>17. QED BY <1>11, <1>13, <1>16 DEF State

LEMMA DefragStopStep ==
  ASSUME NEW l, State(l), DefragNothing \/ DefragEnd
  PROVE  State(l)' /\ Contents(l)' = Contents(l)
<1>1. /\ UNCHANGED <<mem, first_full, full_blocks, allocated_blocks>>
      /\ pc' = "idle" /\ full_blocks \in Nat
  BY DEF DefragNothing, DefragEnd, State, TypeInv
<1>2. TypeInv' /\ Layout(l)' /\ Contents(l)' = Contents(l)
  BY <1>1 DEF State, TypeInv, CellType, Layout, Listed, Ordered, Numbered, End,
              Memory, Contents
<1>3. CASE DefragNothing
  <2>1. full_blocks = 0
    <3>1. full_blocks # 0 => l[1] \in Addresses /\ first_full = l[1]
      BY <1>1 DEF State, Layout, Listed
    <3>2. Null \notin Addresses
      BY SizeAssumption DEF Addresses, Null
    <3>3. QED BY <1>3, <3>1, <3>2 DEF DefragNothing
  <2>2. last_full' = Null
    BY <1>3, <2>1 DEF DefragNothing, State, Progress
  <2>3. Progress(l)'
    BY <1>1, <2>1, <2>2 DEF Progress, PackedTo
  <2>4. QED BY <1>2, <2>3 DEF State
<1>4. CASE DefragEnd
  <2>1. PICK k \in 1 .. full_blocks :
          /\ header = l[k] /\ PackedTo(l, k)
          /\ mem[header].next_full = IF k < full_blocks THEN l[k + 1] ELSE Null
          /\ k < full_blocks => l[k + 1] \in Nat
    BY <1>4, LoopAt DEF DefragEnd
  <2>2. k = full_blocks
    <3>1. ~(k < full_blocks)
      BY <1>4, <2>1 DEF DefragEnd, Null
    <3>2. QED BY <1>1, <3>1
  <2>3. last_full' = l[full_blocks] /\ full_blocks # 0
    BY <1>1, <1>4, <2>1, <2>2 DEF DefragEnd
  <2>4. PackedTo(l, full_blocks)'
    BY <1>1, <2>1, <2>2 DEF PackedTo, End, Memory
  <2>5. Progress(l)'
    BY <1>1, <2>3, <2>4 DEF Progress
  <2>6. QED BY <1>2, <2>5 DEF State
<1>5. QED BY <1>3, <1>4

\* No step of defrag is seen in the store.
LEMMA DefragStep ==
  ASSUME NEW l, State(l), Defrag
  PROVE  \E k : State(k)' /\ Contents(k)' = Contents(l)
BY DefragFirstStep, DefragKeepStep, DefragSlideStep, DefragStopStep DEF Defrag

-----------------------------------------------------------------------------
(***************************************************************************)
(* The invariants                                                          *)
(***************************************************************************)

\* The addresses of the blocks are those the properties speak of.
BlocksAre(l) ==
  /\ Blocks = l
  /\ Linked = {l[n] : n \in 1 .. full_blocks}
  /\ Follow[full_blocks] = Null

LEMMA OneLayout == \A l : State(l) => BlocksAre(l)
<1> SUFFICES ASSUME NEW l, State(l) PROVE BlocksAre(l)
  OBVIOUS
<1>1. TypeInv /\ Layout(l) /\ full_blocks \in Nat
  BY DEF State, TypeInv
<1>2. \A n \in Nat : Follow[n] = IF n < full_blocks THEN l[n + 1] ELSE Null
  BY <1>1, FollowIs DEF Layout
<1>3. \A n \in 1 .. full_blocks : Follow[n - 1] = l[n]
  <2> SUFFICES ASSUME NEW n \in 1 .. full_blocks PROVE Follow[n - 1] = l[n]
    OBVIOUS
  <2>1. n - 1 \in Nat /\ n - 1 < full_blocks /\ (n - 1) + 1 = n
    BY <1>1
  <2>2. QED BY <1>2, <2>1
<1>4. Blocks = l
  <2>1. l = [n \in 1 .. full_blocks |-> l[n]]
    BY <1>1 DEF Layout, Listed
  <2>2. QED BY <1>3, <2>1 DEF Blocks
<1>5. Follow[full_blocks] = Null
  BY <1>1, <1>2
<1>6. QED BY <1>1, <1>4, <1>5, LinkedIs DEF BlocksAre

LEMMA InitInv == Init => IInv
BY InitState DEF IInv

LEMMA StepInv == IInv /\ [Next]_vars => IInv'
<1> SUFFICES ASSUME NEW l, State(l), [Next]_vars PROVE \E k : State(k)'
  BY DEF IInv
<1>1. ASSUME NEW s \in Sizes, Alloc(s) PROVE \E k : State(k)'
  BY <1>1, AllocStep
<1>2. ASSUME NEW p, Free(p) PROVE \E k : State(k)'
  BY <1>2, FreeStep
<1>3. CASE Defrag
  BY <1>3, DefragStep
<1>4. ASSUME \/ \E s \in Sizes : AllocRefused(s)
             \/ \E p \in 0 .. MaxBlocks + 1 : FreeRefused(p)
             \/ UNCHANGED vars
      PROVE  State(l)'
  <2>1. UNCHANGED <<mem, first_full, last_full, full_blocks, allocated_blocks,
                    header, pc>>
    BY <1>4 DEF AllocRefused, FreeRefused, vars
  <2>2. QED BY <2>1, RefusedStep
<1>5. QED BY <1>1, <1>2, <1>3, <1>4 DEF Next, Request

\* The list of blocks is in order at every step, also while defrag moves the
\* headers that it is made of.
THEOREM AlwaysInv == Spec => []IInv
BY InitInv, StepInv, PTL DEF Spec

\* The list reads the same in both directions at every step.
THEOREM ListIsDoublyLinked == Spec => []LinksAgree
<1>1. IInv => LinksAgree
  <2> SUFFICES ASSUME NEW l, State(l) PROVE LinksAgree
    BY DEF IInv
  <2>1. BlocksAre(l)
    BY OneLayout
  <2>2. \A n \in 1 .. full_blocks :
          /\ l[n] # Null
          /\ mem[l[n]].prev_full = IF n = 1 THEN Null ELSE l[n - 1]
    BY SizeAssumption DEF State, Layout, Listed, Addresses, Null
  <2>3. QED BY <2>1, <2>2 DEF BlocksAre, LinksAgree
<1>2. QED BY <1>1, AlwaysInv, PTL

\* memmove and the relinking never spoil a block: each keeps its contents, and
\* its memory to itself.
THEOREM ContentsSurvive == Spec => []ContentsKept
<1>1. IInv => ContentsKept
  <2> SUFFICES ASSUME NEW l, State(l) PROVE ContentsKept
    BY DEF IInv
  <2>1. Blocks = l
    BY OneLayout DEF BlocksAre
  <2> SUFFICES ASSUME NEW n \in 1 .. full_blocks
               PROVE  /\ End(l[n]) <= IF n < full_blocks THEN l[n + 1] ELSE Size
                      /\ \A x \in Memory(l[n]) .. End(l[n]) - 1 :
                           mem[x] = Byte(mem[l[n]].id)
    BY <2>1 DEF ContentsKept
  <2>2. n < full_blocks => n + 1 \in 1 .. full_blocks /\ n \in 1 .. (n + 1) - 1
    BY DEF State, TypeInv
  <2>3. QED BY <2>2 DEF State, Layout, Ordered
<1>2. QED BY <1>1, AlwaysInv, PTL

\* After allocator_free has returned there is no gap, and last_full is right.
THEOREM FreeCompacts == Spec => []Compact
<1>1. IInv => Compact
  <2> SUFFICES ASSUME NEW l, State(l), pc = "idle"
               PROVE  /\ full_blocks > 0 => l[1] = 0 /\ last_full = l[full_blocks]
                      /\ \A n \in 2 .. full_blocks : l[n] = End(l[n - 1])
    BY OneLayout DEF IInv, BlocksAre, Compact
  <2>1. PackedTo(l, full_blocks) /\ (full_blocks > 0 => last_full = l[full_blocks])
    BY DEF State, Progress
  <2>2. full_blocks > 0 => 1 \in 1 .. full_blocks
    BY DEF State, TypeInv
  <2>3. \A n \in 2 .. full_blocks : n \in 1 .. full_blocks /\ n # 1
    BY DEF State, TypeInv
  <2>4. QED BY <2>1, <2>2, <2>3 DEF PackedTo
<1>2. QED BY <1>1, AlwaysInv, PTL

\* Where alloc would place the next block.
LEMMA PlaceIs ==
  ASSUME NEW l, State(l), pc = "idle"
  PROVE  /\ Place \in Nat /\ Place <= Size
         /\ Place = IF full_blocks = 0 THEN 0 ELSE End(l[full_blocks])
         /\ full_blocks = 0 <=> last_full = Null
<1>1. TypeInv /\ Layout(l) /\ full_blocks \in Nat
  BY DEF State, TypeInv
<1>2. CASE full_blocks = 0
  BY <1>2, SizeAssumption DEF Place, State, Progress
<1>3. CASE full_blocks # 0
  <2>1. full_blocks \in 1 .. full_blocks /\ full_blocks > 0
    BY <1>1, <1>3
  <2>2. last_full = l[full_blocks]
    BY <2>1 DEF State, Progress
  <2>3. /\ l[full_blocks] \in Nat /\ End(l[full_blocks]) \in Nat
        /\ End(l[full_blocks]) <= Size
    BY <1>1, <2>1, BlocksApart DEF Layout
  <2>4. last_full # Null
    BY <2>2, <2>3 DEF Null
  <2>5. QED BY <1>3, <2>2, <2>3, <2>4 DEF Place
<1>4. QED BY <1>2, <1>3

\* info, which tells an empty list by last_full, and alloc, which tells it by
\* full_blocks, agree on what is free.
THEOREM InfoTellsTheTruth == Spec => []InfoIsTrue
<1>1. IInv => InfoIsTrue
  <2> SUFFICES ASSUME NEW l, State(l), pc = "idle", NEW s \in 1 .. Size
               PROVE  HasRoom(s) <=> s <= MaxAlloc
    BY DEF IInv, InfoIsTrue
  <2>1. Place \in Nat /\ (full_blocks = 0 <=> last_full = Null)
    BY PlaceIs
  <2>2. Available = Size - Place
    <3>1. CASE full_blocks = 0
      BY <2>1, <3>1, SizeAssumption DEF Available, Place
    <3>2. CASE full_blocks # 0
      BY <2>1, <3>2 DEF Available, Place
    <3>3. QED BY <3>1, <3>2
  <2>3. HeaderSize \in Nat /\ Size \in Nat /\ s \in Nat /\ s >= 1
    BY SizeAssumption
  <2>4. QED BY <2>1, <2>2, <2>3 DEF HasRoom, MaxAlloc
<1>2. QED BY <1>1, AlwaysInv, PTL

-----------------------------------------------------------------------------
(***************************************************************************)
(* The store that the allocator implements                                 *)
(***************************************************************************)

\* What the store adds up is where the last block ends.
LEMMA UsedIs ==
  ASSUME NEW l, State(l), pc = "idle"
  PROVE  Store!Used = Place
<1>1. Blocks = l
  BY OneLayout DEF BlocksAre
<1>2. TypeInv /\ Layout(l) /\ full_blocks \in Nat /\ PackedTo(l, full_blocks)
  BY DEF State, TypeInv, Progress
<1>3. PICK c : c = [n \in 1 .. full_blocks |->
                      [id |-> mem[Blocks[n]].id, size |-> mem[Blocks[n]].size]]
  OBVIOUS
<1>4. Len(c) = full_blocks
  BY <1>2, <1>3
<1>5. \A n \in 1 .. full_blocks : c[n].size = mem[l[n]].size
  BY <1>1, <1>3
<1> DEFINE Sum(f, n) == IF n = 0 THEN 0 ELSE f[n - 1] + HeaderSize + c[n].size
           total == CHOOSE f : f = [n \in 0 .. Len(c) |-> Sum(f, n)]
<1>6. Store!Used = total[full_blocks]
  <2>1. Store!Used = total[Len(c)]
    BY <1>3 DEF Store!Used
  <2> HIDE DEF total
  <2>2. QED BY <1>4, <2>1
<1> DEFINE g == [n \in 0 .. full_blocks |-> IF n = 0 THEN 0 ELSE End(l[n])]
<1>7. \A n \in 0 .. full_blocks : g[n] = Sum(g, n)
  <2> SUFFICES ASSUME NEW n \in 0 .. full_blocks, n # 0 PROVE g[n] = Sum(g, n)
    OBVIOUS
  <2>1. /\ n \in 1 .. full_blocks /\ n - 1 \in 0 .. full_blocks
        /\ n - 1 = 0 <=> n = 1
    BY <1>2
  <2>2. End(l[n]) = l[n] + HeaderSize + mem[l[n]].size
    BY <1>2, <2>1, BlocksApart DEF Layout
  <2>3. l[n] = IF n = 1 THEN 0 ELSE End(l[n - 1])
    BY <1>2, <2>1 DEF PackedTo
  <2>4. g[n - 1] = l[n]
    BY <2>1, <2>3
  <2>5. g[n] = End(l[n])
    BY <2>1
  <2> HIDE DEF g
  <2>6. QED BY <1>5, <2>1, <2>2, <2>4, <2>5
<1>8. total = [n \in 0 .. full_blocks |-> Sum(total, n)]
  <2> DEFINE h == [n \in 0 .. full_blocks |-> Sum(g, n)]
  <2>1. g = [n \in 0 .. full_blocks |-> g[n]] /\ h = [n \in 0 .. full_blocks |-> h[n]]
        /\ \A n \in 0 .. full_blocks : g[n] = h[n]
    BY <1>7
  <2> HIDE DEF g, h
  <2>2. g = h
    BY <2>1
  <2>3. g = [n \in 0 .. full_blocks |-> Sum(g, n)]
    BY <2>2 DEF h
  <2>4. g = [n \in 0 .. Len(c) |-> Sum(g, n)]
    BY <1>4, <2>3
  <2>5. total = [n \in 0 .. Len(c) |-> Sum(total, n)]
    BY <2>4
  <2> HIDE DEF total
  <2>6. QED BY <1>4, <2>5
<1>9. \A n \in 0 .. full_blocks : total[n] = Sum(total, n)
  <2> HIDE DEF total
  <2>1. QED BY <1>8
<1> HIDE DEF total, g
<1> DEFINE S == {n \in 0 .. full_blocks : total[n] # g[n]}
<1>10. S = {}
  <2> SUFFICES ASSUME S # {} PROVE FALSE
    OBVIOUS
  <2>1. PICK s \in S : \A m \in S : s <= m
    <3>1. S \in SUBSET Nat
      OBVIOUS
    <3> HIDE DEF S
    <3>2. QED BY <3>1, LeastNat
  <2>2. s \in 0 .. full_blocks /\ total[s] # g[s]
    OBVIOUS
  <2>3. CASE s = 0
    BY <1>7, <1>9, <2>2, <2>3
  <2>4. CASE s # 0
    <3>1. s - 1 \in 0 .. full_blocks /\ ~(s <= s - 1)
      BY <1>2, <2>2, <2>4
    <3>2. s - 1 \notin S
      BY <2>1, <3>1
    <3>3. total[s - 1] = g[s - 1]
      BY <3>1, <3>2
    <3>4. QED BY <1>7, <1>9, <2>2, <3>3
  <2>5. QED BY <2>3, <2>4
<1>11. total[full_blocks] = g[full_blocks]
  BY <1>2, <1>10
<1>12. g[full_blocks] = IF full_blocks = 0 THEN 0 ELSE End(l[full_blocks])
  BY <1>2 DEF g
<1>13. QED BY <1>6, <1>11, <1>12, PlaceIs

\* Removing an item of a sequence moves those behind it up by one.
LEMMA RemoveAtIs ==
  ASSUME NEW S, NEW c \in Seq(S), NEW j \in 1 .. Len(c)
  PROVE  Store!RemoveAt(c, j) =
           [n \in 1 .. Len(c) - 1 |-> c[IF n < j THEN n ELSE n + 1]]
<1> DEFINE s == SubSeq(c, 1, j - 1)
           t == SubSeq(c, j + 1, Len(c))
<1>1. Len(c) \in Nat /\ \A i \in 1 .. Len(c) : c[i] \in S
  OBVIOUS
<1>2. j - 1 \in Int /\ j + 1 \in Int /\ Len(c) \in Int
      /\ (\A i \in 1 .. j - 1 : c[i] \in S) /\ (\A i \in j + 1 .. Len(c) : c[i] \in S)
  BY <1>1
<1>3. /\ s \in Seq(S) /\ Len(s) = j - 1
      /\ \A i \in 1 .. j - 1 : s[i] = c[i]
  <2>1. /\ s \in Seq(S) /\ Len(s) = IF 1 <= j - 1 THEN j - 1 - 1 + 1 ELSE 0
        /\ \A i \in 1 .. j - 1 - 1 + 1 : s[i] = c[1 + i - 1]
    BY <1>2, SubSeqProperties
  <2> HIDE DEF s
  <2>2. QED BY <1>1, <2>1
<1>4. /\ t \in Seq(S) /\ Len(t) = Len(c) - j
      /\ \A i \in 1 .. Len(c) - j : t[i] = c[j + i]
  <2>1. /\ t \in Seq(S)
        /\ Len(t) = IF j + 1 <= Len(c) THEN Len(c) - (j + 1) + 1 ELSE 0
        /\ \A i \in 1 .. Len(c) - (j + 1) + 1 : t[i] = c[(j + 1) + i - 1]
    BY <1>2, SubSeqProperties
  <2> HIDE DEF t
  <2>2. Len(c) - (j + 1) + 1 = Len(c) - j
        /\ \A i \in 1 .. Len(c) - j : (j + 1) + i - 1 = j + i
    BY <1>1
  <2>3. QED BY <1>1, <2>1, <2>2
<1> DEFINE r == s \o t
<1>5. Store!RemoveAt(c, j) = r
  BY DEF Store!RemoveAt
<1> HIDE DEF s, t
<1>6. /\ r \in Seq(S) /\ Len(r) = Len(s) + Len(t)
      /\ \A i \in 1 .. Len(s) + Len(t) :
           r[i] = IF i <= Len(s) THEN s[i] ELSE t[i - Len(s)]
  BY <1>3, <1>4, ConcatProperties
<1> HIDE DEF r
<1>7. Len(r) = Len(c) - 1 /\ r = [n \in 1 .. Len(c) - 1 |-> r[n]]
  BY <1>1, <1>3, <1>4, <1>6
<1>8. ASSUME NEW n \in 1 .. Len(c) - 1
      PROVE  r[n] = c[IF n < j THEN n ELSE n + 1]
  <2>1. n \in 1 .. Len(s) + Len(t)
    BY <1>1, <1>3, <1>4
  <2>2. CASE n < j
    <3>1. n <= Len(s) /\ n \in 1 .. j - 1
      BY <1>1, <1>3, <2>2
    <3>2. QED BY <1>3, <1>6, <2>1, <2>2, <3>1
  <2>3. CASE ~(n < j)
    <3>1. ~(n <= Len(s)) /\ n - Len(s) \in 1 .. Len(c) - j
          /\ j + (n - Len(s)) = n + 1
      BY <1>1, <1>3, <2>3
    <3>2. QED BY <1>4, <1>6, <2>1, <2>3, <3>1
  <2>4. QED BY <2>2, <2>3
<1>9. QED BY <1>5, <1>7, <1>8

\* The contents of the store, as RefinesStore maps them.
Stored ==
  [n \in 1 .. full_blocks |->
     [id |-> mem[Blocks[n]].id, size |-> mem[Blocks[n]].size]]

StoredIsContents == \A l : State(l) => Stored = Contents(l)

LEMMA StoredIs == StoredIsContents
BY OneLayout DEF BlocksAre, Stored, Contents, StoredIsContents

\* Between requests alloc has room for what the store has room for.
LEMMA RoomIs ==
  ASSUME NEW l, State(l), pc = "idle", NEW s \in Sizes
  PROVE  HasRoom(s) <=> Store!HasRoom(s)
<1>1. Store!Used = Place /\ Place \in Nat
  BY UsedIs, PlaceIs
<1>2. Size \in Nat /\ HeaderSize \in Nat /\ s \in Nat
  BY SizeAssumption
<1>3. QED BY <1>1, <1>2 DEF HasRoom, Store!HasRoom

\* A step of the allocator is a step of the store or none.
LEMMA StepIsStoreStep ==
  ASSUME NEW l, State(l), StoredIsContents', [Next]_vars
  PROVE  [Store!Next]_(Store!vars)
<1>1. /\ Stored = Contents(l)
      /\ \A k : State(k)' => Stored' = Contents(k)'
  BY StoredIs DEF StoredIsContents
<1>2. /\ Store!vars = <<Stored, allocated_blocks, answer>>
      /\ Store!vars' = <<Stored', allocated_blocks', answer'>>
  BY DEF Store!vars, Stored
<1>3. DOMAIN Stored = 1 .. full_blocks /\ full_blocks \in Nat
  BY DEF Stored, State, TypeInv
<1>4. Stored \in Seq([id : Nat, size : Nat]) /\ Len(Stored) = full_blocks
  <2>1. \A n \in 1 .. full_blocks :
          [id |-> mem[l[n]].id, size |-> mem[l[n]].size] \in [id : Nat, size : Nat]
    BY BlocksApart DEF State, Layout
  <2>2. QED BY <1>1, <1>3, <2>1 DEF Contents
<1>5. ASSUME NEW s \in Sizes, Alloc(s) PROVE Store!Alloc(s)
  <2>1. Stored' = Append(Stored, [id |-> allocated_blocks + 1, size |-> s])
    BY <1>1, <1>5, AllocStep
  <2>2. Store!HasRoom(s)
    BY <1>5, RoomIs DEF Alloc
  <2>3. /\ allocated_blocks' = allocated_blocks + 1
        /\ answer' = Store!Answer("ALLOC", s, allocated_blocks + 1)
    BY <1>5 DEF Alloc, Answer, Store!Answer
  <2>4. QED BY <2>1, <2>2, <2>3 DEF Store!Alloc, Stored
<1>6. ASSUME NEW s \in Sizes, AllocRefused(s) PROVE Store!AllocRefused(s)
  <2>1. Stored' = Stored
    BY <1>1, <1>6, RefusedStep DEF AllocRefused
  <2>2. ~Store!HasRoom(s)
    BY <1>6, RoomIs DEF AllocRefused
  <2>3. /\ allocated_blocks' = allocated_blocks
        /\ answer' = Store!Answer("ALLOC", s, 0)
    BY <1>6 DEF AllocRefused, Answer, Store!Answer
  <2>4. QED BY <2>1, <2>2, <2>3 DEF Store!AllocRefused, Stored
<1>7. ASSUME NEW p \in 0 .. MaxBlocks + 1, Free(p) PROVE Store!Free(p)
  <2>1. PICK k, j : /\ j \in 1 .. full_blocks
                    /\ mem[l[j]].id = p
                    /\ State(k)'
                    /\ Contents(k)' = [n \in 1 .. full_blocks - 1 |->
                                         Contents(l)[IF n < j THEN n ELSE n + 1]]
    BY <1>7, FreeStep
  <2>2. Stored' = Store!RemoveAt(Stored, j)
    <3>1. Store!RemoveAt(Stored, j) =
            [n \in 1 .. full_blocks - 1 |-> Stored[IF n < j THEN n ELSE n + 1]]
      BY <1>4, <2>1, RemoveAtIs
    <3>2. QED BY <1>1, <2>1, <3>1
  <2>3. j \in DOMAIN Stored /\ Stored[j].id = p
    BY <1>1, <1>3, <2>1 DEF Contents
  <2>4. /\ allocated_blocks' = allocated_blocks
        /\ answer' = Store!Answer("FREE", p, 0)
    BY <1>7 DEF Free, Answer, Store!Answer
  <2>5. QED BY <2>2, <2>3, <2>4 DEF Store!Free, Stored
<1>8. ASSUME NEW p \in 0 .. MaxBlocks + 1, FreeRefused(p) PROVE Store!FreeRefused(p)
  <2>1. Stored' = Stored
    BY <1>1, <1>8, RefusedStep DEF FreeRefused
  <2>2. \A n \in DOMAIN Stored : Stored[n].id # p
    <3> SUFFICES ASSUME NEW n \in 1 .. full_blocks, mem[l[n]].id = p PROVE FALSE
      BY <1>1, <1>3 DEF Contents
    <3>1. p \in 1 .. allocated_blocks
      BY DEF State, Layout, Numbered
    <3>2. l[n] \in Linked /\ Has(l[n], p)
      BY OneLayout DEF BlocksAre, Has
    <3>3. QED BY <1>8, <3>1, <3>2 DEF FreeRefused
  <2>3. /\ allocated_blocks' = allocated_blocks
        /\ answer' = Store!Answer("FREE", p, -1)
    BY <1>8 DEF FreeRefused, Answer, Store!Answer
  <2>4. QED BY <2>1, <2>2, <2>3 DEF Store!FreeRefused, Stored
<1>9. ASSUME Defrag PROVE UNCHANGED Store!vars
  <2>1. Stored' = Stored
    BY <1>1, <1>9, DefragStep
  <2>2. allocated_blocks' = allocated_blocks /\ answer' = answer
    BY <1>9 DEF Defrag, DefragNothing, DefragFirst, DefragKeep, DefragSlide, DefragEnd
  <2>3. QED BY <1>2, <2>1, <2>2
<1>10. ASSUME UNCHANGED vars PROVE UNCHANGED Store!vars
  <2>1. Stored' = Stored
    BY <1>1, <1>10, RefusedStep DEF vars
  <2>2. allocated_blocks' = allocated_blocks /\ answer' = answer
    BY <1>10 DEF vars
  <2>3. QED BY <1>2, <2>1, <2>2
<1>11. QED BY <1>5, <1>6, <1>7, <1>8, <1>9, <1>10 DEF Next, Request, Store!Next

\* alloc, allocator_free and defrag together are the store: a request is
\* refused only when the memory is too small in total or the number is not
\* allocated, and defrag is not seen at all.
THEOREM ImplementsStore == Spec => RefinesStore
<1>1. Init => Store!Init
  <2> SUFFICES ASSUME Init PROVE Store!Init
    OBVIOUS
  <2>1. full_blocks = 0 /\ allocated_blocks = 0 /\ answer = Answer("INIT", 0, 0)
    BY DEF Init
  <2>2. Stored = <<>>
    BY <2>1 DEF Stored
  <2>3. QED BY <2>1, <2>2 DEF Store!Init, Stored, Answer, Store!Answer
<1>2. IInv /\ StoredIsContents' /\ [Next]_vars => [Store!Next]_(Store!vars)
  BY StepIsStoreStep DEF IInv
<1>3. QED BY <1>1, <1>2, AlwaysInv, StoredIs, PTL DEF Spec, RefinesStore, Store!Spec

=============================================================================
