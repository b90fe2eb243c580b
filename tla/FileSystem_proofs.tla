------------------------- MODULE FileSystem_proofs -------------------------
(***************************************************************************)
(* Proofs about FileSystem, for any number and size of blocks, any paths   *)
(* and files, and processes killed at any point: what a command writes     *)
(* before it is committed lies in blocks that are free in the bitmap on    *)
(* the disk; every variable keeps its type; and, under two conditions, no  *)
(* two files share a block, the bitmap agrees with the tree and the        *)
(* commands take effect as a whole, or not at all, or are cut off by a     *)
(* kill while metadata is written.                                         *)
(***************************************************************************)
EXTENDS FileSystem, WellFoundedInduction, SequenceTheorems, TLAPS

\* Every set of naturals that has an element has a least one.
LEMMA LeastNat ==
  ASSUME NEW S \in SUBSET Nat, NEW n \in S
  PROVE  \E s \in S : \A m \in S : s <= m
<1> DEFINE R == OpToRel(<, Nat)
<1>1. PICK s \in S : \A m \in S : <<m, s>> \notin R
  BY NatLessThanWellFounded, WFMin
<1>2. \A m \in S : <<m, s>> \notin R => s <= m
  <2>1. R = {r \in Nat \X Nat : r[1] < r[2]}
    BY DEF OpToRel
  <2> HIDE DEF R
  <2>2. QED BY <2>1
<1>3. QED BY <1>1, <1>2

\* While files are written, the bitmap in memory is the one on the disk with
\* further blocks marked, ...
BitmapInv ==
  pc = "writing" =>
    used \in SUBSET Blocks /\ m_bitmap \in SUBSET Blocks /\ used \subseteq m_bitmap

\* ... and the block that comes next, if there is one, is not marked in it.
NextInv ==
  pc = "writing" => out.cur = NoBlock \/ out.cur \in Blocks \ m_bitmap

\* What is on the disk and in memory is a set of blocks or nothing.
UsedInv ==
  /\ used = Torn \/ used \in SUBSET Blocks
  /\ m_bitmap = Torn \/ m_bitmap \in SUBSET Blocks

\* What OnlyFreeIsWritten needs of the bitmaps.
IInv == UsedInv /\ BitmapInv /\ NextInv

-----------------------------------------------------------------------------
(***************************************************************************)
(* The search for a free block                                             *)
(***************************************************************************)

\* next_free_block_num finds a block that is not marked, or none.
LEMMA NextFreeIsFree ==
  ASSUME NEW bitmap \in SUBSET Blocks
  PROVE  NextFree(bitmap) = NoBlock \/ NextFree(bitmap) \in Blocks \ bitmap
<1> DEFINE S == Blocks \ bitmap
<1>1. CASE S = {}
  BY <1>1 DEF NextFree
<1>2. CASE S # {}
  <2>1. PICK n \in S : TRUE
    BY <1>2
  <2>2. S \in SUBSET Nat
    BY BlocksAssumption DEF Blocks
  <2> HIDE DEF S
  <2>3. \E m \in S : \A y \in S : m <= y
    BY <2>1, <2>2, LeastNat
  <2>4. Min(S) \in S
    BY <2>3 DEF Min
  <2>5. bitmap # Torn /\ bitmap # Blocks
    BY <1>2, TornAssumption DEF S
  <2>6. QED BY <2>4, <2>5 DEF NextFree, S
<1>3. QED BY <1>1, <1>2

\* Without a bitmap there is no free block.
LEMMA NoBitmapNoBlock == NextFree(Torn) = NoBlock
BY DEF NextFree

\* A file is opened at a free block.
LEMMA OpenIsFree ==
  ASSUME NEW to, NEW n, NEW c, NEW bitmap \in SUBSET Blocks
  PROVE  LET cur == Open(to, n, c, bitmap).cur
         IN cur = NoBlock \/ cur \in Blocks \ bitmap
BY NextFreeIsFree DEF Open

\* After a block of the file was written the next one is free.
LEMMA FlushInv ==
  ASSUME IInv, pc = "writing", out.cur # NoBlock, NEW c, Flush(c)
  PROVE  /\ m_bitmap' \in SUBSET Blocks /\ used \subseteq m_bitmap'
         /\ out'.cur = NoBlock \/ out'.cur \in Blocks \ m_bitmap'
<1> DEFINE marked == m_bitmap \cup {out.cur}
<1>1. out.cur \in Blocks /\ m_bitmap \in SUBSET Blocks /\ used \subseteq m_bitmap
  BY DEF IInv, BitmapInv, NextInv
<1>2. marked \in SUBSET Blocks
  BY <1>1
<1>3. NextFree(marked) = NoBlock \/ NextFree(marked) \in Blocks \ marked
  BY <1>2, NextFreeIsFree
<1>4. m_bitmap' = marked
  BY DEF Flush
<1>5. out'.cur = NextFree(marked)
  BY DEF Flush
<1>6. QED BY <1>1, <1>2, <1>3, <1>4, <1>5

-----------------------------------------------------------------------------
(***************************************************************************)
(* The invariant                                                           *)
(***************************************************************************)

\* It holds before anything is written.
LEMMA InitInv == Init => IInv
BY DEF Init, IInv, UsedInv, BitmapInv, NextInv

\* A command that has found its file system mounted begins to write.
LEMMA WriteInv ==
  ASSUME IInv, metadata # Torn, used # Torn,
         NEW root, NEW first, NEW later, NEW subdirs,
         Write(root, first, later, subdirs),
         first.cur = NoBlock \/ first.cur \in Blocks \ Bitmap
  PROVE  IInv'
BY DEF IInv, UsedInv, BitmapInv, NextInv, Write, Bitmap, disk, index

\* A bitmap in which there is a free block was read from the disk.
LEMMA BitmapWithRoom ==
  ASSUME IInv, NextFree(Bitmap) # NoBlock
  PROVE  metadata # Torn /\ used # Torn /\ Bitmap \in SUBSET Blocks
BY NoBitmapNoBlock DEF Bitmap, IInv, UsedInv

\* The end of a process leaves the bitmap on the disk as it is, or replaces it.
LEMMA EndInv ==
  ASSUME UsedInv, End, used' = used \/ used' = m_bitmap
  PROVE  IInv'
BY DEF End, IInv, UsedInv, BitmapInv, NextInv

\* A command that goes on to its destructor.
LEMMA CommitInv ==
  ASSUME IInv, NEW root, NEW bitmap, Commit(root, bitmap),
         bitmap = Torn \/ bitmap \in SUBSET Blocks
  PROVE  IInv'
BY DEF Commit, IInv, UsedInv, BitmapInv, NextInv, disk, index

\* The bitmap that a command reads.
LEMMA BitmapType == IInv => Bitmap = Torn \/ Bitmap \in SUBSET Blocks
BY DEF IInv, UsedInv, Bitmap

\* Every command.
LEMMA CommandInv == IInv /\ Command => IInv'
<1> SUFFICES ASSUME IInv, Command PROVE IInv'
  OBVIOUS
<1>1. ASSUME NEW format \in BOOLEAN, StartInit(format) PROVE IInv'
  BY <1>1 DEF StartInit, IInv, UsedInv, BitmapInv, NextInv, disk, index
<1>2. ASSUME NEW p, Ls(p) PROVE IInv'
  BY <1>2, CommitInv, BitmapType DEF Ls
<1>3. ASSUME NEW p, Rm(p) PROVE IInv'
  <2>1. PICK ds, fs : Drop(ds, fs)
    BY <1>3 DEF Rm
  <2>2. PICK root, bitmap :
          Commit(root, bitmap) /\ (bitmap = Torn \/ bitmap \in SUBSET Blocks)
    <3>1. (IF Bitmap = Torn THEN Torn ELSE Bitmap \ Freed(fs)) = Torn
          \/ (IF Bitmap = Torn THEN Torn ELSE Bitmap \ Freed(fs)) \in SUBSET Blocks
      BY BitmapType
    <3>2. QED BY <2>1, <3>1 DEF Drop
  <2>3. QED BY <2>2, CommitInv
<1>4. ASSUME NEW p, Export(p) PROVE IInv'
  BY <1>4, CommitInv, BitmapType DEF Export
<1>5. ASSUME NEW p, Mkdir(p) PROVE IInv'
  BY <1>5, CommitInv, BitmapType DEF Mkdir
<1>6. ASSUME NEW p, NEW n, Import(p, n) PROVE IInv'
  <2>1. Write(Tree, Open(p, n, Content(n), Bitmap), {}, <<>>)
    BY <1>6 DEF Import
  <2>2. metadata # Torn /\ used # Torn /\ Bitmap \in SUBSET Blocks
    BY <1>6, BitmapWithRoom DEF Import
  <2>3. QED BY <2>1, <2>2, OpenIsFree, WriteInv
<1>7. ASSUME NEW p, NEW q, MoveDir(p, q) \/ MoveFile(p, q) PROVE IInv'
  <2>1. PICK root : Commit(root, Bitmap)
    BY <1>7 DEF MoveDir, MoveFile
  <2>2. QED BY <2>1, CommitInv, BitmapType
<1>8. ASSUME NEW p, NEW q, CopyFile(p, q) PROVE IInv'
  <2>1. PICK to, n, c : Write(Tree, Open(to, n, c, Bitmap), {}, <<>>)
    BY <1>8 DEF CopyFile
  <2>2. metadata # Torn /\ used # Torn /\ Bitmap \in SUBSET Blocks
    BY <1>8, BitmapWithRoom DEF CopyFile
  <2>3. QED BY <2>1, <2>2, OpenIsFree, WriteInv
<1>9. ASSUME NEW p, NEW q, CopyDir(p, q) PROVE IInv'
  <2>1. PICK root, later, subdirs : Write(root, NoFile, later, subdirs)
    BY <1>9 DEF CopyDir
  <2>2. metadata # Torn /\ used # Torn
    BY <1>9 DEF CopyDir, MayGo, Mounts, Tree, EmptyTree
  <2>3. NoFile.cur = NoBlock
    BY DEF NoFile
  <2>4. QED BY <2>1, <2>2, <2>3, WriteInv
<1>10. QED
  BY <1>1, <1>2, <1>3, <1>4, <1>5, <1>6, <1>7, <1>8, <1>9 DEF Command

\* Every step of writing files.
LEMMA WritingInv == IInv /\ Writing => IInv'
<1> SUFFICES ASSUME IInv, Writing PROVE IInv'
  OBVIOUS
<1> USE DEF IInv, UsedInv, BitmapInv, NextInv
<1>1. ASSUME NEW j, NextCopy(j) PROVE IInv'
  BY <1>1, OpenIsFree DEF NextCopy, disk, index
<1>2. CASE CopyFails \/ FlushFails \/ ReadFails
  <2>1. End /\ used' = used
    BY <1>2 DEF CopyFails, FlushFails, ReadFails, Throw, index
  <2>2. QED BY <2>1, EndInv
<1>3. CASE CopySubdirs
  BY <1>3 DEF CopySubdirs, disk, index
<1>4. CASE FlushBlock
  BY <1>4, FlushInv DEF FlushBlock, index
<1>5. CASE FinishFile
  <2>1. out'.cur = NoBlock
    BY <1>5 DEF FinishFile, NoFile
  <2>2. m_bitmap' = m_bitmap \/ (out.cur # NoBlock /\ m_bitmap' = m_bitmap \cup {out.cur})
    BY <1>5 DEF FinishFile
  <2>3. used' = used /\ pc = "writing"
    BY <1>5 DEF FinishFile, index
  <2>4. QED BY <2>1, <2>2, <2>3
<1>6. QED BY <1>1, <1>2, <1>3, <1>4, <1>5 DEF Writing

\* A line of metadata adds what the tree has: first the root, then a directory or
\* a file in one that is there.
NextLine(tree) ==
  \/ metadata = Torn /\ tree = EmptyTree
  \/ \E p \in Paths :
       /\ metadata # Torn
       /\ IsDir(metadata, Front(p))
       /\ \/ p \in ToWrite.dirs /\ tree = WithDirs(metadata, {p})
          \/ p \in DOMAIN ToWrite.files
             /\ tree = WithFile(metadata, p, ToWrite.files[p])

\* Nothing but metadata changes with a line.
LEMMA LineIs ==
  ASSUME WriteMetadata
  PROVE  pc = "metadata" /\ \E tree : NextLine(tree) /\ LineWritten(tree)
<1>1. CASE WriteRoot
  BY <1>1 DEF WriteRoot, NextLine
<1>2. ASSUME NEW p \in Paths, WriteDir(p)
      PROVE  pc = "metadata" /\ \E tree : NextLine(tree) /\ LineWritten(tree)
  <2>1. NextLine(WithDirs(metadata, {p}))
    BY <1>2 DEF WriteDir, NextLine, InTurn, DirsToWrite
  <2>2. QED BY <1>2, <2>1 DEF WriteDir
<1>3. ASSUME NEW p \in Paths, WriteFile(p)
      PROVE  pc = "metadata" /\ \E tree : NextLine(tree) /\ LineWritten(tree)
  <2>1. NextLine(WithFile(metadata, p, ToWrite.files[p]))
    BY <1>3 DEF WriteFile, NextLine, InTurn, FilesToWrite
  <2>2. QED BY <1>3, <2>1 DEF WriteFile
<1>4. QED BY <1>1, <1>2, <1>3 DEF WriteMetadata

\* Every step.
LEMMA StepInv == IInv /\ [Next]_vars => IInv'
<1> SUFFICES ASSUME IInv, [Next]_vars PROVE IInv'
  OBVIOUS
<1>1. CASE Command
  BY <1>1, CommandInv
<1>2. CASE Writing
  BY <1>2, WritingInv
<1>3. CASE TruncateBlock \/ AllTruncated
  BY <1>3 DEF TruncateBlock, AllTruncated, IInv, UsedInv, BitmapInv, NextInv, disk,
              index
<1>4. CASE TruncateMetadata \/ WriteMetadata \/ TruncateBitmap
  BY <1>4, LineIs DEF TruncateMetadata, LineWritten, TruncateBitmap, IInv, UsedInv,
              BitmapInv, NextInv
<1>5. CASE WriteBitmap
  BY <1>5, EndInv DEF WriteBitmap, IInv
<1>6. CASE Crash
  BY <1>6, EndInv DEF Crash, IInv, disk, index
<1>7. CASE UNCHANGED vars
  BY <1>7 DEF vars, disk, index, process, copying, IInv, UsedInv, BitmapInv, NextInv
<1>8. QED
  BY <1>1, <1>2, <1>3, <1>4, <1>5, <1>6, <1>7 DEF Next, Progress

\* So it always holds.
LEMMA AlwaysInv == Spec => []IInv
BY InitInv, StepInv, PTL DEF Spec

-----------------------------------------------------------------------------
\* A command that fails or is killed before it writes back the bitmap has not
\* touched a block that belongs to somebody: all its blocks were free.
THEOREM OnlyFreeIsWritten == Spec => WritesOnlyFree
<1> DEFINE OnlyFree == \A b \in Blocks : block'[b] # block[b] =>
                         pc = "formatting" \/ (used # Torn /\ b \notin used)
<1>1. IInv /\ [Next]_vars => [OnlyFree]_vars
  <2> SUFFICES ASSUME IInv, Next PROVE OnlyFree
    OBVIOUS
  <2>1. ASSUME NEW b \in Blocks, block'[b] # block[b], pc # "formatting"
        PROVE  used # Torn /\ b \notin used
    <3>1. CASE Command
      BY <2>1, <3>1 DEF Command, StartInit, Ls, Rm, Drop, Export, Mkdir, Import,
           MoveDir, MoveFile, CopyDir, CopyFile, Commit, Write, disk, index
    <3>2. CASE Writing
      <4>1. pc = "writing" /\ out.cur # NoBlock /\ b = out.cur
        <5>1. PICK c : pc = "writing" /\ out.cur # NoBlock
                       /\ block' = [block EXCEPT ![out.cur] = c]
          BY <2>1, <3>2 DEF Writing, NextCopy, CopyFails, CopySubdirs,
               FlushBlock, Flush, FlushFails, FinishFile, ReadFails, disk, index
        <5>2. QED BY <2>1, <5>1
      <4>2. QED BY <4>1, TornAssumption DEF IInv, BitmapInv, NextInv
    <3>3. CASE TruncateBlock \/ AllTruncated
      BY <2>1, <3>3 DEF TruncateBlock, AllTruncated
    <3>4. CASE TruncateMetadata \/ WriteMetadata \/ TruncateBitmap \/ WriteBitmap
      BY <2>1, <3>4, LineIs DEF TruncateMetadata, LineWritten, TruncateBitmap,
           WriteBitmap
    <3>5. CASE Crash
      BY <2>1, <3>5 DEF Crash, disk, index
    <3>6. QED BY <3>1, <3>2, <3>3, <3>4, <3>5 DEF Next, Progress
  <2>2. QED BY <2>1
<1>2. Spec => []IInv /\ [][Next]_vars
  BY AlwaysInv, PTL DEF Spec
<1>3. QED BY <1>1, <1>2, PTL DEF WritesOnlyFree

-----------------------------------------------------------------------------
(***************************************************************************)
(* Paths                                                                   *)
(***************************************************************************)

\* What paths are made of.
Names == UNION {Range(p) : p \in Paths}

\* Paths are sequences of names, and the root is none of them.
LEMMA PathsAreSeqs ==
  /\ \A p \in Paths : p \in Seq(Names) /\ Len(p) \in Nat \ {0}
  /\ Root \in Seq(Names) /\ Len(Root) = 0 /\ Root \notin Paths
<1>1. ASSUME NEW p \in Paths
      PROVE  p \in Seq(Names) /\ Len(p) \in Nat \ {0}
  <2>1. p \in Seq(Range(p)) /\ p # <<>>
    BY PathsAssumption
  <2>2. Range(p) \subseteq Names
    BY DEF Names
  <2>3. p \in Seq(Names)
    BY <2>1, <2>2, SeqMonotonic
  <2>4. QED BY <2>1, <2>3, EmptySeq, LenProperties
<1>2. QED BY <1>1, EmptySeq DEF Root

\* What lies at or below p begins with p.
LEMMA PrefixIs ==
  ASSUME NEW S, NEW p \in Seq(S), NEW x \in Seq(S)
  PROVE  AtOrBelow(p, x) <=> /\ Len(p) <= Len(x)
                             /\ \A k \in 1 .. Len(p) : p[k] = x[k]
<1>0. Len(p) \in Nat /\ Len(x) \in Nat
  BY LenProperties
<1>1. CASE Len(p) <= Len(x)
  <2>1. /\ SubSeq(p, 1, Len(p)) \in Seq(S) /\ SubSeq(x, 1, Len(p)) \in Seq(S)
        /\ Len(SubSeq(p, 1, Len(p))) = Len(p)
        /\ Len(SubSeq(x, 1, Len(p))) = Len(p)
        /\ \A k \in 1 .. Len(p) : /\ SubSeq(p, 1, Len(p))[k] = p[k]
                                  /\ SubSeq(x, 1, Len(p))[k] = x[k]
    BY <1>0, <1>1
  <2>2. SubSeq(p, 1, Len(p)) = SubSeq(x, 1, Len(p))
          <=> \A k \in 1 .. Len(p) : p[k] = x[k]
    BY <2>1, SeqEqual
  <2>3. QED BY <1>1, <2>2 DEF AtOrBelow, IsPrefix
<1>2. QED BY <1>0, <1>1 DEF AtOrBelow, IsPrefix

\* y is x with q in the place of its beginning p.
IsOnto(p, q, x, y) ==
  /\ Len(y) = Len(q) + (Len(x) - Len(p))
  /\ \A k \in 1 .. Len(q) : y[k] = q[k]
  /\ \A k \in 1 .. Len(x) - Len(p) : y[Len(q) + k] = x[Len(p) + k]

\* Of a path that is moved, the beginning is replaced.
LEMMA OntoIs ==
  ASSUME NEW S, NEW p \in Seq(S), NEW q \in Seq(S), NEW x \in Seq(S),
         Len(p) <= Len(x)
  PROVE  Onto(p, q, x) \in Seq(S) /\ IsOnto(p, q, x, Onto(p, q, x))
<1> DEFINE s == SubSeq(x, Len(p) + 1, Len(x))
<1>0. Len(p) \in Nat /\ Len(x) \in Nat /\ Len(q) \in Nat
  BY LenProperties
<1>1. /\ s \in Seq(S) /\ Len(s) = Len(x) - Len(p)
      /\ \A k \in 1 .. Len(x) - Len(p) : s[k] = x[Len(p) + k]
  BY <1>0, SubSeqProperties
<1> HIDE DEF s
<1>2. /\ q \o s \in Seq(S) /\ Len(q \o s) = Len(q) + Len(s)
      /\ \A k \in 1 .. Len(q) : (q \o s)[k] = q[k]
      /\ \A k \in 1 .. Len(s) : (q \o s)[Len(q) + k] = s[k]
  <2>1. /\ q \o s \in Seq(S) /\ Len(q \o s) = Len(q) + Len(s)
        /\ \A k \in 1 .. Len(q) + Len(s) :
             (q \o s)[k] = IF k <= Len(q) THEN q[k] ELSE s[k - Len(q)]
    BY <1>1, ConcatProperties
  <2>2. ASSUME NEW k \in 1 .. Len(s)
        PROVE  (q \o s)[Len(q) + k] = s[k]
    <3>1. /\ Len(q) + k \in 1 .. Len(q) + Len(s) /\ ~(Len(q) + k <= Len(q))
          /\ (Len(q) + k) - Len(q) = k
      BY <1>0, <1>1
    <3>2. QED BY <2>1, <3>1
  <2>3. ASSUME NEW k \in 1 .. Len(q)
        PROVE  (q \o s)[k] = q[k]
    <3>1. k \in 1 .. Len(q) + Len(s) /\ k <= Len(q)
      BY <1>0, <1>1
    <3>2. QED BY <2>1, <3>1
  <2>4. QED BY <2>1, <2>2, <2>3
<1>3. QED BY <1>1, <1>2 DEF Onto, IsOnto, s

\* The directory that a path lies in.
LEMMA FrontIs ==
  ASSUME NEW S, NEW x \in Seq(S), Len(x) # 0
  PROVE  /\ Front(x) \in Seq(S) /\ Len(Front(x)) = Len(x) - 1
         /\ \A k \in 1 .. Len(x) - 1 : Front(x)[k] = x[k]
<1>1. Len(x) \in Nat \ {0} /\ \A k \in 1 .. Len(x) - 1 : x[k] \in S
  BY LenProperties
<1> DEFINE n == Len(x) - 1
<1>2. n \in Nat /\ \A k \in 1 .. n : k \in 1 .. Len(x) /\ x[k] \in S
  BY <1>1
<1> HIDE DEF n
<1>3. /\ SubSeq(x, 1, n) \in Seq(S)
      /\ Len(SubSeq(x, 1, n)) = n
      /\ \A k \in 1 .. n : SubSeq(x, 1, n)[k] = x[k]
  BY <1>2
<1>4. QED BY <1>3 DEF Front, n

\* Paths with the same names are the same.
LEMMA SamePath ==
  ASSUME NEW S, NEW x \in Seq(S), NEW y \in Seq(S), Len(x) = Len(y),
         \A k \in 1 .. Len(x) : x[k] = y[k]
  PROVE  x = y
BY SeqEqual

\* The directory that a path lies in, and the paths below another one.
LEMMA BelowFront ==
  ASSUME NEW S, NEW p \in Seq(S), NEW x \in Seq(S), Len(x) # 0
  PROVE  /\ AtOrBelow(p, Front(x)) <=> Below(p, x)
         /\ Below(p, x) <=> AtOrBelow(p, x) /\ Len(p) < Len(x)
         /\ AtOrBelow(p, x) /\ ~Below(p, x) => x = p
<1> DEFINE f == Front(x)
<1>1. /\ f \in Seq(S) /\ Len(f) = Len(x) - 1
      /\ \A k \in 1 .. Len(x) - 1 : f[k] = x[k]
  BY FrontIs
<1>2. Len(p) \in Nat /\ Len(x) \in Nat
  BY LenProperties
<1> HIDE DEF f
<1>3. AtOrBelow(p, f) <=> Len(p) <= Len(x) - 1 /\ \A k \in 1 .. Len(p) : p[k] = x[k]
  <2>1. AtOrBelow(p, f) <=> Len(p) <= Len(f) /\ \A k \in 1 .. Len(p) : p[k] = f[k]
    BY <1>1, PrefixIs
  <2>2. CASE Len(p) <= Len(x) - 1
    <3>1. \A k \in 1 .. Len(p) : k \in 1 .. Len(x) - 1
      BY <1>2, <2>2
    <3>2. QED BY <1>1, <2>1, <3>1
  <2>3. QED BY <1>1, <2>1, <2>2
<1>4. AtOrBelow(p, x) <=> Len(p) <= Len(x) /\ \A k \in 1 .. Len(p) : p[k] = x[k]
  BY PrefixIs
<1>5. AtOrBelow(p, x) /\ Len(p) = Len(x) => p = x
  BY <1>4, SamePath
<1>6. Below(p, x) <=> AtOrBelow(p, x) /\ Len(p) < Len(x)
  <2>1. Below(p, x) <=> AtOrBelow(p, x) /\ p # x
    BY DEF Below, AtOrBelow, IsStrictPrefix
  <2>2. QED BY <1>2, <1>4, <1>5, <2>1
<1>7. QED BY <1>2, <1>3, <1>4, <1>5, <1>6 DEF f

\* A path at or below p, moved to q, lies at or below q; moved back, it is
\* where it was.
LEMMA OntoBack ==
  ASSUME NEW S, NEW p \in Seq(S), NEW q \in Seq(S), NEW x \in Seq(S),
         AtOrBelow(p, x)
  PROVE  /\ Onto(p, q, x) \in Seq(S)
         /\ AtOrBelow(q, Onto(p, q, x))
         /\ Onto(q, p, Onto(p, q, x)) = x
<1> DEFINE y == Onto(p, q, x)
<1>0. Len(p) \in Nat /\ Len(x) \in Nat /\ Len(q) \in Nat
  BY LenProperties
<1>1. Len(p) <= Len(x) /\ \A k \in 1 .. Len(p) : p[k] = x[k]
  BY PrefixIs
<1>2. /\ y \in Seq(S)
      /\ Len(y) = Len(q) + (Len(x) - Len(p))
      /\ \A k \in 1 .. Len(q) : y[k] = q[k]
      /\ \A k \in 1 .. Len(x) - Len(p) : y[Len(q) + k] = x[Len(p) + k]
  <2>1. y \in Seq(S) /\ IsOnto(p, q, x, y)
    BY <1>1, OntoIs
  <2>2. QED BY <2>1 DEF IsOnto
<1> HIDE DEF y
<1>3. y \in Seq(S) /\ Len(q) <= Len(y)
  BY <1>0, <1>1, <1>2
<1>4. AtOrBelow(q, y)
  BY <1>2, <1>3, PrefixIs
<1> DEFINE z == Onto(q, p, y)
<1>5. /\ z \in Seq(S)
      /\ Len(z) = Len(p) + (Len(y) - Len(q))
      /\ \A k \in 1 .. Len(p) : z[k] = p[k]
      /\ \A k \in 1 .. Len(y) - Len(q) : z[Len(p) + k] = y[Len(q) + k]
  <2>1. z \in Seq(S) /\ IsOnto(q, p, y, z)
    BY <1>3, OntoIs
  <2>2. QED BY <2>1 DEF IsOnto
<1> HIDE DEF z
<1>6. Len(z) = Len(x)
  BY <1>0, <1>2, <1>5
<1>7. ASSUME NEW k \in 1 .. Len(z)
      PROVE  z[k] = x[k]
  <2>1. CASE k <= Len(p)
    <3>1. k \in 1 .. Len(p)
      BY <1>0, <2>1
    <3>2. QED BY <1>1, <1>5, <3>1
  <2>2. CASE ~(k <= Len(p))
    <3>1. PICK m \in 1 .. Len(x) - Len(p) : k = Len(p) + m
      <4>1. k - Len(p) \in 1 .. Len(x) - Len(p) /\ k = Len(p) + (k - Len(p))
        BY <1>0, <1>6, <2>2
      <4>2. QED BY <4>1
    <3>2. Len(y) - Len(q) = Len(x) - Len(p)
      BY <1>0, <1>2
    <3>3. QED BY <1>2, <1>5, <3>1, <3>2
  <2>3. QED BY <2>1, <2>2
<1>8. z = x
  BY <1>5, <1>6, <1>7, SamePath
<1>9. QED BY <1>2, <1>4, <1>8 DEF y, z

\* What is moved keeps its name and its place below the others.
LEMMA OntoFront ==
  ASSUME NEW S, NEW p \in Seq(S), NEW q \in Seq(S), NEW x \in Seq(S)
  PROVE  /\ Below(p, x) => /\ Len(x) # 0
                           /\ Front(Onto(p, q, x)) = Onto(p, q, Front(x))
                           /\ Below(q, Onto(p, q, x))
         /\ Onto(p, q, p) = q
<1>0. Len(p) \in Nat /\ Len(x) \in Nat /\ Len(q) \in Nat
  BY LenProperties
<1>1. ASSUME Below(p, x)
      PROVE  /\ Len(x) # 0
             /\ Front(Onto(p, q, x)) = Onto(p, q, Front(x))
             /\ Below(q, Onto(p, q, x))
  <2>1. AtOrBelow(p, x) /\ p # x
    BY <1>1 DEF Below, AtOrBelow, IsStrictPrefix
  <2>2. Len(p) <= Len(x) /\ Len(p) # Len(x)
    BY <2>1, PrefixIs, SamePath
  <2>3. Len(x) # 0 /\ Len(p) <= Len(x) - 1
    BY <1>0, <2>2
  <2> DEFINE y == Onto(p, q, x)
             f == Front(x)
             g == Front(y)
             h == Onto(p, q, f)
  <2>4. /\ y \in Seq(S)
        /\ Len(y) = Len(q) + (Len(x) - Len(p))
        /\ \A k \in 1 .. Len(q) : y[k] = q[k]
        /\ \A k \in 1 .. Len(x) - Len(p) : y[Len(q) + k] = x[Len(p) + k]
    <3>1. y \in Seq(S) /\ IsOnto(p, q, x, y)
      BY <2>2, OntoIs
    <3>2. QED BY <3>1 DEF IsOnto
  <2>5. f \in Seq(S) /\ Len(f) = Len(x) - 1 /\ \A k \in 1 .. Len(x) - 1 : f[k] = x[k]
    BY <2>3, FrontIs
  <2> HIDE DEF y, f
  <2>6. Len(y) # 0 /\ Len(y) \in Nat /\ Len(q) < Len(y)
    BY <1>0, <2>3, <2>4
  <2>7. g \in Seq(S) /\ Len(g) = Len(y) - 1 /\ \A k \in 1 .. Len(y) - 1 : g[k] = y[k]
    BY <2>4, <2>6, FrontIs
  <2> HIDE DEF g
  <2>16. f \in Seq(S) /\ Len(p) <= Len(f)
    BY <2>3, <2>5
  <2>8. /\ h \in Seq(S)
        /\ Len(h) = Len(q) + (Len(f) - Len(p))
        /\ \A k \in 1 .. Len(q) : h[k] = q[k]
        /\ \A k \in 1 .. Len(f) - Len(p) : h[Len(q) + k] = f[Len(p) + k]
    <3>1. h \in Seq(S) /\ IsOnto(p, q, f, h)
      BY <2>16, OntoIs
    <3>2. QED BY <3>1 DEF IsOnto
  <2> HIDE DEF h
  <2>9. Len(g) = Len(h)
    BY <1>0, <2>4, <2>5, <2>7, <2>8
  <2>10. ASSUME NEW k \in 1 .. Len(g)
         PROVE  g[k] = h[k]
    <3>1. CASE k <= Len(q)
      <4>1. k \in 1 .. Len(q) /\ k \in 1 .. Len(y) - 1
        BY <1>0, <2>7, <3>1
      <4>2. QED BY <2>4, <2>7, <2>8, <4>1
    <3>2. CASE ~(k <= Len(q))
      <4>1. PICK m \in 1 .. (Len(x) - 1) - Len(p) : k = Len(q) + m
        <5>1. /\ k - Len(q) \in 1 .. (Len(x) - 1) - Len(p)
              /\ k = Len(q) + (k - Len(q))
          BY <1>0, <2>4, <2>7, <3>2
        <5>2. QED BY <5>1
      <4>2. /\ m \in 1 .. Len(f) - Len(p) /\ m \in 1 .. Len(x) - Len(p)
            /\ Len(p) + m \in 1 .. Len(x) - 1 /\ k \in 1 .. Len(y) - 1
        BY <1>0, <2>5, <2>7
      <4>3. QED BY <2>4, <2>5, <2>7, <2>8, <4>1, <4>2
    <3>3. QED BY <3>1, <3>2
  <2>11. g = h
    BY <2>7, <2>8, <2>9, <2>10, SamePath
  <2>12. AtOrBelow(q, y)
    BY <2>1, OntoBack DEF y
  <2>13. Below(q, y)
    BY <2>4, <2>6, <2>12, BelowFront
  <2>14. QED BY <2>3, <2>11, <2>13 DEF g, h, y, f
<1>2. Onto(p, q, p) = q
  <2> DEFINE y == Onto(p, q, p)
  <2>1. /\ y \in Seq(S) /\ Len(y) = Len(q) + (Len(p) - Len(p))
        /\ \A k \in 1 .. Len(q) : y[k] = q[k]
    <3>1. Len(p) <= Len(p)
      BY <1>0
    <3>2. y \in Seq(S) /\ IsOnto(p, q, p, y)
      BY <3>1, OntoIs
    <3>3. QED BY <3>2 DEF IsOnto
  <2> HIDE DEF y
  <2>2. Len(y) = Len(q)
    BY <1>0, <2>1
  <2>3. QED BY <2>1, <2>2, SamePath DEF y
<1>3. QED BY <1>1, <1>2

-----------------------------------------------------------------------------
(***************************************************************************)
(* Trees                                                                   *)
(***************************************************************************)

\* The paths that are in use.
Nodes(t) == t.dirs \cup DOMAIN t.files

\* What exists in a tree has a path, and lies in a directory.
LEMMA Existing ==
  ASSUME NEW t, IsTree(t), NEW x \in Nodes(t)
  PROVE  /\ x \in Paths /\ x \in Seq(Names) /\ Len(x) # 0
         /\ IsDir(t, Front(x)) /\ Front(x) \in Seq(Names)
<1>1. x \in Paths /\ IsDir(t, Front(x))
  BY DEF Nodes, IsTree
<1>2. x \in Seq(Names) /\ Len(x) # 0
  BY <1>1, PathsAreSeqs
<1>3. QED BY <1>1, <1>2, FrontIs

\* A subtree is closed: what lies in one of its directories belongs to it, and
\* it hangs together.
LEMMA SubtreeIsClosed ==
  ASSUME NEW t, IsTree(t), NEW p \in Paths \cup {Root}
  PROVE  LET s == Subtree(t, p) IN
            /\ s.dirs \subseteq t.dirs /\ s.files \subseteq DOMAIN t.files
            /\ \A x \in s.dirs \cup s.files : AtOrBelow(p, x)
            /\ \A x \in (t.dirs \ s.dirs) \cup (DOMAIN t.files \ s.files) :
                 Front(x) \notin s.dirs
            /\ p # Root => \A x \in s.dirs \cup s.files :
                             x = p \/ (Below(p, x) /\ Front(x) \in s.dirs)
<1> DEFINE s == Subtree(t, p)
<1>0. p \in Seq(Names)
  BY PathsAreSeqs
<1>1. /\ s.dirs \subseteq t.dirs /\ s.files \subseteq DOMAIN t.files
      /\ \A x \in s.dirs \cup s.files : AtOrBelow(p, x)
  BY DEF Subtree, Below, AtOrBelow, IsStrictPrefix
<1>2. ASSUME NEW x \in (t.dirs \ s.dirs) \cup (DOMAIN t.files \ s.files),
             Front(x) \in s.dirs
      PROVE  FALSE
  <2>1. x \in Seq(Names) /\ Len(x) # 0
    BY Existing DEF Nodes
  <2>2. AtOrBelow(p, Front(x))
    BY <1>1, <1>2
  <2>3. Below(p, x) /\ AtOrBelow(p, x)
    BY <1>0, <2>1, <2>2, BelowFront
  <2>4. QED BY <1>2, <2>3 DEF Subtree
<1>3. ASSUME p # Root, NEW x \in s.dirs \cup s.files, x # p
      PROVE  Below(p, x) /\ Front(x) \in s.dirs
  <2>1. x \in Seq(Names) /\ Len(x) # 0 /\ IsDir(t, Front(x))
    BY <1>1, Existing DEF Nodes
  <2>2. AtOrBelow(p, x)
    BY <1>1
  <2>3. Below(p, x) /\ AtOrBelow(p, Front(x))
    BY <1>0, <1>3, <2>1, <2>2, BelowFront
  <2>4. Front(x) # Root
    <3>1. Len(p) # 0 /\ Len(p) \in Nat
      BY <1>0, <1>3, PathsAreSeqs
    <3>2. AtOrBelow(p, Root) => Len(p) <= Len(Root)
      BY <1>0, PathsAreSeqs, PrefixIs
    <3>3. QED BY <2>3, <3>1, <3>2, PathsAreSeqs
  <2>5. QED BY <2>1, <2>3, <2>4 DEF Subtree, IsDir
<1> HIDE DEF s
<1>4. /\ \A x \in (t.dirs \ s.dirs) \cup (DOMAIN t.files \ s.files) :
           Front(x) \notin s.dirs
      /\ p # Root => \A x \in s.dirs \cup s.files :
                       x = p \/ (Below(p, x) /\ Front(x) \in s.dirs)
  BY <1>2, <1>3
<1>5. QED BY <1>1, <1>4 DEF s

\* Whole directories that are removed leave a tree.
LEMMA DropIsTree ==
  ASSUME NEW t, IsTree(t), NEW ds, NEW fs,
         \A x \in (t.dirs \ ds) \cup (DOMAIN t.files \ fs) : Front(x) \notin ds
  PROVE  IsTree([dirs |-> t.dirs \ ds,
                 files |-> Restrict(t.files, DOMAIN t.files \ fs)])
BY DEF IsTree, IsDir, Restrict

\* mkdir makes the directories on the way.
LEMMA MadeIsTree ==
  ASSUME NEW t, IsTree(t), NEW p \in Paths
  PROVE  IsTree(Made(t, p))
<1> DEFINE n == Made(t, p)
<1>0. p \in Seq(Names)
  BY PathsAreSeqs
<1>1. /\ n.dirs = {x \in t.dirs : ~Below(p, x)} \cup {x \in Paths : AtOrBelow(x, p)}
      /\ DOMAIN n.files = {x \in DOMAIN t.files : ~Below(p, x)}
      /\ \A x \in DOMAIN n.files : n.files[x] = t.files[x]
  BY DEF Made, Restrict
<1>2. ASSUME NEW x \in Nodes(t), ~Below(p, x)
      PROVE  IsDir(n, Front(x))
  <2>1. x \in Seq(Names) /\ Len(x) # 0 /\ IsDir(t, Front(x))
        /\ Front(x) \in Seq(Names)
    BY Existing
  <2>2. CASE Front(x) = Root
    BY <2>2 DEF IsDir
  <2>3. CASE Front(x) \in t.dirs
    <3>1. ~Below(p, Front(x))
      <4>1. Below(p, Front(x)) => AtOrBelow(p, Front(x))
        BY DEF Below, AtOrBelow, IsStrictPrefix
      <4>2. QED BY <1>0, <1>2, <2>1, <4>1, BelowFront
    <3>2. QED BY <1>1, <2>3, <3>1 DEF IsDir
  <2>4. QED BY <2>1, <2>2, <2>3 DEF IsDir
<1>3. ASSUME NEW x \in Paths, AtOrBelow(x, p)
      PROVE  IsDir(n, Front(x))
  <2>1. x \in Seq(Names) /\ Len(x) \in Nat \ {0}
    BY PathsAreSeqs
  <2>2. /\ Front(x) \in Seq(Names) /\ Len(Front(x)) = Len(x) - 1
        /\ \A k \in 1 .. Len(x) - 1 : Front(x)[k] = x[k]
    BY <2>1, FrontIs
  <2>3. CASE Len(x) = 1
    <3>1. Front(x) = Root
      BY <2>2, <2>3, EmptySeq DEF Root
    <3>2. QED BY <3>1 DEF IsDir
  <2>4. CASE Len(x) > 1
    <3>1. Front(x) \in Paths
      BY <2>4, PathsAssumption
    <3>2. AtOrBelow(Front(x), p)
      <4>1. Len(x) <= Len(p) /\ \A k \in 1 .. Len(x) : x[k] = p[k]
        BY <1>0, <1>3, <2>1, PrefixIs
      <4>2. Len(p) \in Nat
        BY <1>0, LenProperties
      <4>3. /\ Len(Front(x)) <= Len(p)
            /\ \A k \in 1 .. Len(Front(x)) : Front(x)[k] = p[k]
        BY <2>1, <2>2, <4>1, <4>2
      <4>4. QED BY <1>0, <2>2, <4>3, PrefixIs
    <3>3. QED BY <1>1, <3>1, <3>2 DEF IsDir
  <2>5. Len(x) = 1 \/ Len(x) > 1
    <3>1. ASSUME NEW c \in Nat \ {0}
          PROVE  c = 1 \/ c > 1
      OBVIOUS
    <3>2. QED BY <2>1, <3>1
  <2>6. QED BY <2>3, <2>4, <2>5
<1>4. ASSUME NEW x \in n.dirs \cup DOMAIN n.files
      PROVE  x \in Paths /\ IsDir(n, Front(x))
  <2>1. \/ x \in Nodes(t) /\ ~Below(p, x)
        \/ x \in Paths /\ AtOrBelow(x, p)
    BY <1>1 DEF Nodes
  <2>2. QED BY <1>2, <1>3, <2>1, Existing
<1>5. \A x \in DOMAIN n.files : n.files[x] \in [start : Blocks, size : HostSizes]
  BY <1>1 DEF IsTree
<1> HIDE DEF n
<1>6. IsTree(n)
  BY <1>4, <1>5 DEF IsTree
<1>7. QED BY <1>6 DEF n

\* A part s of the tree that is put where nothing is.
LEMMA MovedIsTree ==
  ASSUME NEW t, IsTree(t), NEW p \in Paths, NEW to \in Paths, NEW s,
         s.dirs \subseteq t.dirs, s.files \subseteq DOMAIN t.files,
         \A x \in s.dirs \cup s.files :
           x = p \/ (Below(p, x) /\ Front(x) \in s.dirs),
         \A x \in (t.dirs \ s.dirs) \cup (DOMAIN t.files \ s.files) :
           Front(x) \notin s.dirs,
         IsDir(t, Front(to)), Front(to) \notin s.dirs,
         Fits(p, to, s.dirs \cup s.files)
  PROVE  IsTree(Moved(t, p, to, s))
<1> DEFINE n == Moved(t, p, to, s)
           stay == DOMAIN t.files \ s.files
<1>0. p \in Seq(Names) /\ to \in Seq(Names)
  BY PathsAreSeqs
<1>1. /\ n.dirs = (t.dirs \ s.dirs) \cup {Onto(p, to, x) : x \in s.dirs}
      /\ DOMAIN n.files = stay \cup {Onto(p, to, x) : x \in s.files}
      /\ \A y \in DOMAIN n.files :
           n.files[y] = IF y \in stay THEN t.files[y] ELSE t.files[Onto(to, p, y)]
  BY DEF Moved
<1> HIDE DEF n
<1>2. ASSUME NEW x \in (t.dirs \ s.dirs) \cup stay
      PROVE  IsDir(n, Front(x))
  BY <1>1, Existing DEF IsDir, Nodes
<1>3. ASSUME NEW x \in s.dirs \cup s.files
      PROVE  /\ IsDir(n, Front(Onto(p, to, x)))
             /\ Onto(to, p, Onto(p, to, x)) = x
  <2>1. x \in Seq(Names)
    BY Existing DEF Nodes
  <2>2. CASE x = p
    <3>1. Onto(p, to, x) = to /\ Onto(to, p, to) = p
      BY <1>0, <2>2, OntoFront
    <3>2. QED BY <1>1, <2>2, <3>1 DEF IsDir
  <2>3. CASE Below(p, x) /\ Front(x) \in s.dirs
    <3>1. Front(Onto(p, to, x)) = Onto(p, to, Front(x))
      BY <1>0, <2>1, <2>3, OntoFront
    <3>2. AtOrBelow(p, x)
      BY <2>3 DEF Below, AtOrBelow, IsStrictPrefix
    <3>3. IsDir(n, Onto(p, to, Front(x)))
      BY <1>1, <2>3 DEF IsDir
    <3>4. Onto(to, p, Onto(p, to, x)) = x
      BY <1>0, <2>1, <3>2, OntoBack
    <3>5. QED BY <3>1, <3>3, <3>4
  <2>4. QED BY <2>2, <2>3
<1>4. n.dirs \subseteq Paths /\ DOMAIN n.files \subseteq Paths
  BY <1>1 DEF IsTree, Fits
<1>5. ASSUME NEW y \in n.dirs \cup DOMAIN n.files
      PROVE  IsDir(n, Front(y))
  <2>1. \/ y \in (t.dirs \ s.dirs) \cup stay
        \/ \E x \in s.dirs \cup s.files : y = Onto(p, to, x)
    BY <1>1
  <2>2. QED BY <1>2, <1>3, <2>1
<1>6. ASSUME NEW y \in DOMAIN n.files
      PROVE  n.files[y] \in [start : Blocks, size : HostSizes]
  <2>1. CASE y \in stay
    BY <1>1, <2>1 DEF IsTree
  <2>2. CASE y \notin stay
    <3>1. PICK x \in s.files : y = Onto(p, to, x)
      BY <1>1, <2>2
    <3>2. n.files[y] = t.files[x]
      BY <1>1, <1>3, <2>2, <3>1
    <3>3. QED BY <3>2 DEF IsTree
  <2>3. QED BY <2>1, <2>2
<1>7. IsTree(n)
  BY <1>4, <1>5, <1>6 DEF IsTree
<1>8. QED BY <1>7 DEF n

\* A file that is put into a directory.
LEMMA FileIsAdded ==
  ASSUME NEW t, IsTree(t), NEW to \in Paths, IsDir(t, Front(to)),
         NEW r \in [start : Blocks, size : HostSizes]
  PROVE  IsTree(WithFile(t, to, r))
BY DEF IsTree, IsDir, WithFile

\* Directories that are put into directories.
LEMMA DirsAreAdded ==
  ASSUME NEW t, IsTree(t), NEW D \in SUBSET Paths,
         \A x \in D : IsDir(t, Front(x)) \/ Front(x) \in D
  PROVE  IsTree(WithDirs(t, D))
BY DEF IsTree, IsDir, WithDirs

\* A file in p itself, copied to the directory q, or deeper down.
LEMMA CopiedFile ==
  ASSUME NEW t, IsTree(t), NEW p \in Paths, NEW q \in Paths,
         NEW x \in FilesIn(t, p) \cup FilesDeeper(t, p)
  PROVE  /\ x \in Nodes(t) /\ x \in DOMAIN t.files /\ AtOrBelow(p, x) /\ Below(p, x)
         /\ AtOrBelow(q, Onto(p, q, x)) /\ Below(q, Onto(p, q, x))
         /\ Onto(q, p, Onto(p, q, x)) = x
         /\ Front(Onto(p, q, x)) = Onto(p, q, Front(x))
         /\ x \in FilesIn(t, p) => Front(Onto(p, q, x)) = q
         /\ x \in FilesDeeper(t, p) => Below(q, Front(Onto(p, q, x)))
<1>1. p \in Seq(Names) /\ q \in Seq(Names)
  BY PathsAreSeqs
<1>2. x \in DOMAIN t.files /\ (Front(x) = p \/ Below(p, Front(x)))
  BY DEF FilesIn, FilesDeeper
<1>3. x \in Nodes(t) /\ x \in Seq(Names) /\ Len(x) # 0 /\ Front(x) \in Seq(Names)
  BY <1>2, Existing DEF Nodes
<1>4. AtOrBelow(p, p)
  <2>1. Len(p) \in Nat
    BY PathsAreSeqs
  <2>2. Len(p) <= Len(p)
    BY <2>1
  <2>3. QED BY <1>1, <2>2, PrefixIs
<1>5. AtOrBelow(p, Front(x))
  BY <1>2, <1>4 DEF Below, AtOrBelow, IsStrictPrefix
<1>6. Below(p, x) /\ AtOrBelow(p, x)
  BY <1>1, <1>3, <1>5, BelowFront
<1>7. AtOrBelow(q, Onto(p, q, x)) /\ Onto(q, p, Onto(p, q, x)) = x
  BY <1>1, <1>3, <1>6, OntoBack
<1>8. /\ Front(Onto(p, q, x)) = Onto(p, q, Front(x)) /\ Onto(p, q, p) = q
      /\ Below(q, Onto(p, q, x))
  BY <1>1, <1>3, <1>6, OntoFront
<1>9. x \in FilesDeeper(t, p) => Below(q, Onto(p, q, Front(x)))
  BY <1>1, <1>3, OntoFront DEF FilesDeeper
<1>10. QED
  BY <1>2, <1>3, <1>6, <1>7, <1>8, <1>9 DEF FilesIn

-----------------------------------------------------------------------------
(***************************************************************************)
(* Read and Chain                                                          *)
(***************************************************************************)

\* What a block holds, and what the tree says of a file.
Links == [next : Blocks \cup {NoBlock}]
Unit == [of : HostSizes, at : Nat] \cup Links \cup {Unopened, Undefined}
Record == [start : Blocks, size : HostSizes]

\* Where a link leads.
Ends == Blocks \cup {NoBlock}

\* What the blocks contain: units, and in a full block a link behind them.
BlocksHold(B) ==
  \A b \in Blocks :
    /\ B[b] \in Seq(Unit)
    /\ Len(B[b]) <= BlockSize
    /\ Len(B[b]) = BlockSize => B[b][BlockSize] \in Links

\* A reader that goes on to the next block has made progress.
LEMMA Sizes ==
  /\ BlockSize \in Nat /\ BlockSize > 1
  /\ DataSize \in Nat /\ DataSize > 0 /\ DataSize = BlockSize - 1
  /\ \A n \in Nat : HasNext(n) <=> n > BlockSize
  /\ \A n \in Nat : HasNext(n) => n - DataSize \in 0 .. n - 1
<1>1. BlockSize \in Nat /\ BlockSize > 1
  <2>1. ASSUME NEW c \in Nat \ {0, 1}
        PROVE  c \in Nat /\ c > 1
    OBVIOUS
  <2>2. QED BY <2>1, BlocksAssumption
<1>2. QED BY <1>1 DEF HasNext, DataSize

\* One step of the recursive functions in Read and Chain, on blocks B.
ReadAt(B, g, n, b) ==
  IF n = 0 THEN <<>>
  ELSE IF b = NoBlock THEN <<Unopened>>
  ELSE IF HasNext(n) THEN
    IF Len(B[b]) = BlockSize
    THEN SubSeq(B[b], 1, DataSize) \o g[n - DataSize][B[b][BlockSize].next]
    ELSE <<Undefined>>
  ELSE IF Len(B[b]) >= n THEN SubSeq(B[b], 1, n)
  ELSE IF B[b] # <<>> THEN Append(B[b], Unopened)
  ELSE <<Undefined>>

ChainAt(B, g, n, b) ==
  IF b # NoBlock /\ HasNext(n) /\ Len(B[b]) = BlockSize
  THEN {b} \cup g[n - DataSize][B[b][BlockSize].next]
  ELSE {b}

\* The two functions, for files of up to s units.
Reads(B, s) ==
  CHOOSE g : g = [n \in 0 .. s |-> [b \in Blocks \cup {NoBlock} |-> ReadAt(B, g, n, b)]]

Walks(B, s) ==
  CHOOSE g : g = [n \in 0 .. s |-> [b \in Blocks \cup {NoBlock} |-> ChainAt(B, g, n, b)]]

\* Read is the value of one of them for the blocks as they are.
LEMMA ReadIs ==
  ASSUME NEW f
  PROVE  Read(f) = Reads(block, f.size)[f.size][f.start]
BY DEF Read, Reads, ReadAt

\* Chain is that of the other.
LEMMA ChainIs ==
  ASSUME NEW f
  PROVE  /\ Chain(f) = Walks(block, f.size)[f.size][f.start] \ {NoBlock}
         /\ Chain(f)' = Walks(block', f.size)[f.size][f.start] \ {NoBlock}
<1>1. Chain(f) = Walks(block, f.size)[f.size][f.start] \ {NoBlock}
  BY DEF Chain, Walks, ChainAt
<1>2. Chain(f)' = Walks(block', f.size)[f.size][f.start] \ {NoBlock}
  BY DEF Chain, Walks, ChainAt
<1>3. QED BY <1>1, <1>2

\* The equation that defines the function has a solution: one for fewer units
\* extends to one more.
LEMMA ReadsExist ==
  ASSUME NEW B, NEW s \in Nat
  PROVE  Reads(B, s) =
           [n \in 0 .. s |-> [b \in Ends |-> ReadAt(B, Reads(B, s), n, b)]]
<1> DEFINE Is(g, k) == g = [n \in 0 .. k |-> [b \in Ends |-> ReadAt(B, g, n, b)]]
           K == {k \in 0 .. s : ~ \E g : Is(g, k)}
<1>1. ASSUME NEW k \in 0 .. s, NEW g, k # 0 => Is(g, k - 1)
      PROVE  \E h : Is(h, k)
  <2> DEFINE h == [n \in 0 .. k |-> [b \in Ends |-> ReadAt(B, g, n, b)]]
  <2>1. ASSUME NEW m \in 0 .. k - 1
        PROVE  h[m] = g[m]
    BY <1>1
  <2>2. ASSUME NEW n \in 0 .. k, NEW b \in Ends
        PROVE  ReadAt(B, h, n, b) = ReadAt(B, g, n, b)
    <3>1. HasNext(n) => n - DataSize \in 0 .. n - 1
      BY Sizes
    <3>2. HasNext(n) => n - DataSize \in 0 .. k - 1
      BY <3>1
    <3> HIDE DEF h
    <3>3. QED BY <2>1, <3>2 DEF ReadAt
  <2>3. h = [n \in 0 .. k |-> [b \in Ends |-> ReadAt(B, h, n, b)]]
    <3> DEFINE H(n) == [b \in Ends |-> ReadAt(B, h, n, b)]
               G(n) == [b \in Ends |-> ReadAt(B, g, n, b)]
    <3>1. \A n \in 0 .. k : H(n) = G(n)
      <4> HIDE DEF h
      <4>1. QED BY <2>2
    <3>2. h = [n \in 0 .. k |-> G(n)]
      OBVIOUS
    <3> HIDE DEF h, H, G
    <3>3. h = [n \in 0 .. k |-> H(n)]
      BY <3>1, <3>2
    <3>4. QED BY <3>3 DEF H
  <2>4. QED BY <2>3
<1>2. K = {}
  <2> SUFFICES ASSUME K # {} PROVE FALSE
    OBVIOUS
  <2>1. PICK k \in K : \A m \in K : k <= m
    <3>1. K \in SUBSET Nat
      OBVIOUS
    <3> HIDE DEF K
    <3>2. QED BY <3>1, LeastNat
  <2>2. k \in 0 .. s /\ ~ \E g : Is(g, k)
    OBVIOUS
  <2>3. k # 0 => \E g : Is(g, k - 1)
    <3>1. ASSUME k # 0
          PROVE  k - 1 \in 0 .. s /\ ~(k <= k - 1)
      BY <2>2, <3>1
    <3>2. ASSUME k # 0, ~ \E g : Is(g, k - 1)
          PROVE  k - 1 \in K
      BY <3>1, <3>2
    <3> HIDE DEF K, Is
    <3>3. QED BY <2>1, <3>1, <3>2
  <2> HIDE DEF Is
  <2>4. QED BY <1>1, <2>2, <2>3
<1>3. \E g : Is(g, s)
  BY <1>2
<1>4. QED BY <1>3 DEF Reads, Ends

\* The same for the blocks on the way.
LEMMA WalksExist ==
  ASSUME NEW B, NEW s \in Nat
  PROVE  Walks(B, s) =
           [n \in 0 .. s |-> [b \in Ends |-> ChainAt(B, Walks(B, s), n, b)]]
<1> DEFINE Is(g, k) == g = [n \in 0 .. k |-> [b \in Ends |-> ChainAt(B, g, n, b)]]
           K == {k \in 0 .. s : ~ \E g : Is(g, k)}
<1>1. ASSUME NEW k \in 0 .. s, NEW g, k # 0 => Is(g, k - 1)
      PROVE  \E h : Is(h, k)
  <2> DEFINE h == [n \in 0 .. k |-> [b \in Ends |-> ChainAt(B, g, n, b)]]
  <2>1. ASSUME NEW m \in 0 .. k - 1
        PROVE  h[m] = g[m]
    BY <1>1
  <2>2. ASSUME NEW n \in 0 .. k, NEW b \in Ends
        PROVE  ChainAt(B, h, n, b) = ChainAt(B, g, n, b)
    <3>1. HasNext(n) => n - DataSize \in 0 .. n - 1
      BY Sizes
    <3>2. HasNext(n) => n - DataSize \in 0 .. k - 1
      BY <3>1
    <3> HIDE DEF h
    <3>3. QED BY <2>1, <3>2 DEF ChainAt
  <2>3. h = [n \in 0 .. k |-> [b \in Ends |-> ChainAt(B, h, n, b)]]
    <3> DEFINE H(n) == [b \in Ends |-> ChainAt(B, h, n, b)]
               G(n) == [b \in Ends |-> ChainAt(B, g, n, b)]
    <3>1. \A n \in 0 .. k : H(n) = G(n)
      <4> HIDE DEF h
      <4>1. QED BY <2>2
    <3>2. h = [n \in 0 .. k |-> G(n)]
      OBVIOUS
    <3> HIDE DEF h, H, G
    <3>3. h = [n \in 0 .. k |-> H(n)]
      BY <3>1, <3>2
    <3>4. QED BY <3>3 DEF H
  <2>4. QED BY <2>3
<1>2. K = {}
  <2> SUFFICES ASSUME K # {} PROVE FALSE
    OBVIOUS
  <2>1. PICK k \in K : \A m \in K : k <= m
    <3>1. K \in SUBSET Nat
      OBVIOUS
    <3> HIDE DEF K
    <3>2. QED BY <3>1, LeastNat
  <2>2. k \in 0 .. s /\ ~ \E g : Is(g, k)
    OBVIOUS
  <2>3. k # 0 => \E g : Is(g, k - 1)
    <3>1. ASSUME k # 0
          PROVE  k - 1 \in 0 .. s /\ ~(k <= k - 1)
      BY <2>2, <3>1
    <3>2. ASSUME k # 0, ~ \E g : Is(g, k - 1)
          PROVE  k - 1 \in K
      BY <3>1, <3>2
    <3> HIDE DEF K, Is
    <3>3. QED BY <2>1, <3>1, <3>2
  <2> HIDE DEF Is
  <2>4. QED BY <1>1, <2>2, <2>3
<1>3. \E g : Is(g, s)
  BY <1>2
<1>4. QED BY <1>3 DEF Walks, Ends

\* One step of the reader.
LEMMA ReadUnfolds ==
  ASSUME NEW B, NEW s \in Nat, NEW n \in 0 .. s, NEW b \in Ends
  PROVE  Reads(B, s)[n][b] = ReadAt(B, Reads(B, s), n, b)
<1> DEFINE g == Reads(B, s)
<1>1. g = [m \in 0 .. s |-> [c \in Ends |-> ReadAt(B, g, m, c)]]
  BY ReadsExist
<1> HIDE DEF g
<1>2. g[n] = [c \in Ends |-> ReadAt(B, g, n, c)]
  BY <1>1
<1>3. QED BY <1>2 DEF g

\* One step through the blocks.
LEMMA WalkUnfolds ==
  ASSUME NEW B, NEW s \in Nat, NEW n \in 0 .. s, NEW b \in Ends
  PROVE  Walks(B, s)[n][b] = ChainAt(B, Walks(B, s), n, b)
<1> DEFINE g == Walks(B, s)
<1>1. g = [m \in 0 .. s |-> [c \in Ends |-> ChainAt(B, g, m, c)]]
  BY WalksExist
<1> HIDE DEF g
<1>2. g[n] = [c \in Ends |-> ChainAt(B, g, n, c)]
  BY <1>1
<1>3. QED BY <1>2 DEF g

\* The next block of a full one.
LEMMA NextInEnds ==
  ASSUME NEW B, BlocksHold(B), NEW b \in Blocks, Len(B[b]) = BlockSize
  PROVE  B[b][BlockSize].next \in Ends
BY DEF BlocksHold, Links, Ends

\* The blocks on the way are blocks, or end with NO_FREE_BLOCKS.
LEMMA ChainTyped ==
  ASSUME NEW B, BlocksHold(B), NEW s \in Nat, NEW n \in 0 .. s, NEW b \in Ends
  PROVE  Walks(B, s)[n][b] \subseteq Ends /\ b \in Walks(B, s)[n][b]
<1> DEFINE g == Walks(B, s)
           Bad == {m \in 0 .. s : \E c \in Ends : ~ (g[m][c] \subseteq Ends)}
<1>1. ASSUME NEW m \in 0 .. s, NEW c \in Ends
      PROVE  g[m][c] = ChainAt(B, g, m, c)
  BY WalkUnfolds
<1> HIDE DEF g
<1>2. Bad = {}
  <2> SUFFICES ASSUME Bad # {} PROVE FALSE
    OBVIOUS
  <2>1. PICK m \in Bad : \A k \in Bad : m <= k
    <3>1. Bad \in SUBSET Nat
      OBVIOUS
    <3> HIDE DEF Bad
    <3>2. QED BY <3>1, LeastNat
  <2>2. PICK c \in Ends : m \in 0 .. s /\ ~(g[m][c] \subseteq Ends)
    OBVIOUS
  <2>3. c # NoBlock /\ HasNext(m) /\ Len(B[c]) = BlockSize
        /\ g[m][c] = {c} \cup g[m - DataSize][B[c][BlockSize].next]
    <3>1. g[m][c] = ChainAt(B, g, m, c)
      BY <1>1, <2>2
    <3>2. {c} \subseteq Ends
      BY <2>2
    <3> HIDE DEF Bad
    <3>3. g[m][c] # {c}
      BY <2>2, <3>2
    <3>4. QED BY <3>1, <3>3 DEF ChainAt
  <2>4. c \in Blocks /\ B[c][BlockSize].next \in Ends
    BY <2>2, <2>3, NextInEnds DEF Ends
  <2>5. m - DataSize \in 0 .. s /\ ~(m <= m - DataSize)
    <3>1. m \in Nat /\ m - DataSize \in 0 .. m - 1
      BY <2>2, <2>3, Sizes
    <3>2. QED BY <2>2, <3>1, Sizes
  <2>6. m - DataSize \notin Bad
    <3> HIDE DEF Bad
    <3>1. QED BY <2>1, <2>5
  <2>7. g[m - DataSize][B[c][BlockSize].next] \subseteq Ends
    BY <2>4, <2>5, <2>6
  <2> HIDE DEF Bad
  <2>8. QED BY <2>2, <2>3, <2>7
<1>3. g[n][b] \subseteq Ends
  BY <1>2
<1>4. b \in g[n][b]
  BY <1>1 DEF ChainAt
<1>5. QED BY <1>3, <1>4 DEF g

\* What a reader takes of a block are units.
LEMMA UnitsIn ==
  ASSUME NEW B, BlocksHold(B), NEW b \in Blocks
  PROVE  /\ B[b] \in Seq(Unit) /\ Len(B[b]) \in Nat
         /\ \A n \in 0 .. Len(B[b]) : SubSeq(B[b], 1, n) \in Seq(Unit)
         /\ Append(B[b], Unopened) \in Seq(Unit)
         /\ <<>> \in Seq(Unit) /\ <<Unopened>> \in Seq(Unit)
         /\ <<Undefined>> \in Seq(Unit)
<1>1. B[b] \in Seq(Unit)
  BY DEF BlocksHold
<1>2. Unopened \in Unit /\ Undefined \in Unit
  BY DEF Unit
<1>3. Len(B[b]) \in Nat
  BY <1>1, LenProperties
<1>4. ASSUME NEW n \in 0 .. Len(B[b])
      PROVE  SubSeq(B[b], 1, n) \in Seq(Unit)
  BY <1>1, <1>3, SubSeqProperties
<1>5. <<>> \in Seq(Unit) /\ <<Unopened>> \in Seq(Unit) /\ <<Undefined>> \in Seq(Unit)
  BY <1>2
<1>6. Append(B[b], Unopened) \in Seq(Unit)
  BY <1>1, <1>2, AppendProperties
<1>7. QED BY <1>1, <1>3, <1>4, <1>5, <1>6

\* The reader gets units.
LEMMA ReadTyped ==
  ASSUME NEW B, BlocksHold(B), NEW s \in Nat, NEW n \in 0 .. s, NEW b \in Ends
  PROVE  Reads(B, s)[n][b] \in Seq(Unit)
<1> DEFINE g == Reads(B, s)
           Bad == {m \in 0 .. s : \E c \in Ends : g[m][c] \notin Seq(Unit)}
<1>1. ASSUME NEW m \in 0 .. s, NEW c \in Ends
      PROVE  g[m][c] = ReadAt(B, g, m, c)
  BY ReadUnfolds
<1> HIDE DEF g
<1>2. Bad = {}
  <2> SUFFICES ASSUME Bad # {} PROVE FALSE
    OBVIOUS
  <2>1. PICK m \in Bad : \A k \in Bad : m <= k
    <3>1. Bad \in SUBSET Nat
      OBVIOUS
    <3> HIDE DEF Bad
    <3>2. QED BY <3>1, LeastNat
  <2>2. PICK c \in Ends : m \in 0 .. s /\ g[m][c] \notin Seq(Unit)
    OBVIOUS
  <2>3. g[m][c] = ReadAt(B, g, m, c)
    BY <1>1, <2>2
  <2>4. c # NoBlock
    <3>1. 0 \in Blocks
      BY BlocksAssumption DEF Blocks
    <3>2. <<>> \in Seq(Unit) /\ <<Unopened>> \in Seq(Unit)
      BY <3>1, UnitsIn
    <3>3. QED BY <2>2, <2>3, <3>2 DEF ReadAt
  <2>5. c \in Blocks
    BY <2>2, <2>4 DEF Ends
  <2>6. HasNext(m) /\ Len(B[c]) = BlockSize
    <3>1. m \in Nat
      BY <2>2
    <3>2. Len(B[c]) >= m => SubSeq(B[c], 1, m) \in Seq(Unit)
      <4>1. ASSUME Len(B[c]) >= m
            PROVE  m \in 0 .. Len(B[c])
        BY <2>5, <3>1, <4>1, UnitsIn
      <4>2. QED BY <2>5, <4>1, UnitsIn
    <3>3. QED BY <2>2, <2>3, <2>4, <2>5, <3>2, UnitsIn DEF ReadAt
  <2>7. m # 0
    BY <2>6, Sizes
  <2>8. g[m][c] = SubSeq(B[c], 1, DataSize)
                  \o g[m - DataSize][B[c][BlockSize].next]
    BY <2>3, <2>4, <2>6, <2>7 DEF ReadAt
  <2>9. B[c][BlockSize].next \in Ends
    BY <2>5, <2>6, NextInEnds
  <2>10. m - DataSize \in 0 .. s /\ ~(m <= m - DataSize)
    <3>1. m \in Nat /\ m - DataSize \in 0 .. m - 1
      BY <2>2, <2>6, Sizes
    <3>2. QED BY <2>2, <3>1, Sizes
  <2>11. m - DataSize \notin Bad
    <3> HIDE DEF Bad
    <3>1. QED BY <2>1, <2>10
  <2>12. g[m - DataSize][B[c][BlockSize].next] \in Seq(Unit)
    BY <2>9, <2>10, <2>11
  <2>13. SubSeq(B[c], 1, DataSize) \in Seq(Unit)
    <3>1. DataSize \in 0 .. Len(B[c])
      BY <2>6, Sizes
    <3>2. QED BY <2>5, <3>1, UnitsIn
  <2>14. SubSeq(B[c], 1, DataSize) \o g[m - DataSize][B[c][BlockSize].next]
           \in Seq(Unit)
    BY <2>12, <2>13, ConcatProperties
  <2> HIDE DEF Bad
  <2>15. QED BY <2>2, <2>8, <2>14
<1>3. QED BY <1>2 DEF g

\* What the tree says of a file.
LEMMA RecordIs ==
  ASSUME NEW f \in Record
  PROVE  /\ f.size \in Nat /\ f.size \in 0 .. f.size /\ f.size \in HostSizes
         /\ f.start \in Blocks /\ f.start \in Ends
<1>1. f.start \in Blocks /\ f.size \in HostSizes
  BY DEF Record
<1>2. f.size \in Nat
  BY <1>1, HostSizesAssumption
<1>3. ASSUME NEW c \in Nat PROVE c \in 0 .. c
  OBVIOUS
<1>4. QED BY <1>1, <1>2, <1>3 DEF Ends

\* What Read and Chain return.
LEMMA ReadIsTyped ==
  ASSUME BlocksHold(block), NEW f \in Record
  PROVE  Read(f) \in Seq(Unit)
<1>1. f.size \in Nat /\ f.size \in 0 .. f.size /\ f.start \in Ends
  BY RecordIs
<1>2. QED BY <1>1, ReadIs, ReadTyped

\* The blocks of a file are blocks.
LEMMA ChainIsTyped ==
  ASSUME BlocksHold(block), NEW f \in Record
  PROVE  Chain(f) \subseteq Blocks
<1>1. f.size \in Nat /\ f.size \in 0 .. f.size /\ f.start \in Ends
  BY RecordIs
<1>2. Walks(block, f.size)[f.size][f.start] \subseteq Ends
  BY <1>1, ChainTyped
<1>3. QED BY <1>2, ChainIs DEF Ends

\* What a tree says of its files.
LEMMA FileIsRecord ==
  ASSUME NEW t, IsTree(t), NEW x \in DOMAIN t.files
  PROVE  t.files[x] \in Record
BY DEF IsTree, Record

-----------------------------------------------------------------------------
(***************************************************************************)
(* The types                                                               *)
(***************************************************************************)

\* An ofilebuf in use.
FileOpen == [to : Paths, size : HostSizes, start : Blocks, cur : Ends,
             rest : Seq(Unit), whole : BOOLEAN]

\* What a command that writes has still to do, in the tree root.
JobsIn(root, file, jobs, dirs) ==
  /\ file = NoFile \/ (file \in FileOpen /\ IsDir(root, Front(file.to)))
  /\ \A j \in jobs : j \in [from : Record, to : Paths] /\ IsDir(root, Front(j.to))
  /\ dirs # <<>> =>
       /\ dirs[1] \in root.dirs /\ dirs[2] \in root.dirs
       /\ \A x \in Nodes(root) \cup {j.to : j \in jobs} \cup {file.to} :
            AtOrBelow(dirs[1], x) => Onto(dirs[1], dirs[2], x) \in Paths

\* The invariant: the variables that have nothing to do with the tree, ...
TypeInv ==
  /\ formatted \in BOOLEAN
  /\ pc \in PCs
  /\ i \in 0 .. BlocksCount
  /\ lost \subseteq Blocks /\ losing \subseteq Blocks

\* ... the blocks, ...
HeldInv == block \in [Blocks -> Seq(Unit)] /\ BlocksHold(block)

\* ... the tree on the disk and the one in memory, ...
TreesInv == (metadata = Torn \/ IsTree(metadata)) /\ IsTree(m_root)

\* ... and what has still to be done.
JobsInv ==
  /\ pc # "writing" => out = NoFile /\ queue = {} /\ below = <<>>
  /\ JobsIn(m_root, out, queue, below)

TInv == TypeInv /\ HeldInv /\ TreesInv /\ JobsInv

\* How much metadata has of a newer tree.
AheadInv == ahead \in {"none", "part", "all"}

\* The invariants say no less than TypeOK.
LEMMA TInvIsTypeOK == IInv /\ TInv /\ AheadInv => TypeOK
<1> SUFFICES ASSUME IInv, TInv, AheadInv PROVE TypeOK
  OBVIOUS
<1>1. \A b \in Blocks : Len(block[b]) <= BlockSize
  BY DEF TInv, HeldInv, BlocksHold
<1>2. out = NoFile \/ (out.to \in Paths /\ out.start \in Blocks)
  BY DEF TInv, JobsInv, JobsIn, FileOpen
<1>3. out.cur \in Blocks \cup {NoBlock}
  BY DEF TInv, JobsInv, JobsIn, FileOpen, Ends, NoFile
<1>4. \A j \in queue : j.to \in Paths /\ j.from.start \in Blocks
  BY DEF TInv, JobsInv, JobsIn, Record
<1>5. (metadata = Torn \/ IsTree(metadata)) /\ IsTree(m_root)
  BY DEF TInv, TreesInv
<1>6. /\ used = Torn \/ used \subseteq Blocks
      /\ m_bitmap = Torn \/ m_bitmap \subseteq Blocks
  BY DEF IInv, UsedInv
<1>7. QED
  BY <1>1, <1>2, <1>3, <1>4, <1>5, <1>6 DEF TInv, TypeInv, AheadInv, TypeOK

\* The tree of a file system without files.
LEMMA EmptyIsTree == IsTree(EmptyTree)
BY DEF IsTree, EmptyTree

\* The invariant holds when no file system has been made.
LEMMA InitTypes == Init => TInv
<1> SUFFICES ASSUME Init PROVE TInv
  OBVIOUS
<1>1. HeldInv
  <2>1. <<>> \in Seq(Unit) /\ Len(<<>>) = 0
    BY EmptySeq
  <2>2. 0 <= BlockSize /\ 0 # BlockSize
    BY Sizes
  <2>3. \A b \in Blocks : block[b] = <<>>
    BY DEF Init
  <2>4. BlocksHold(block)
    BY <2>1, <2>2, <2>3 DEF BlocksHold
  <2>5. QED BY <2>1, <2>4 DEF Init, HeldInv
<1>2. 0 \in 0 .. BlocksCount
  BY BlocksAssumption
<1>3. JobsInv
  BY DEF Init, JobsInv, JobsIn
<1>4. QED
  BY <1>1, <1>2, <1>3, EmptyIsTree DEF Init, TInv, TypeInv, TreesInv, PCs

\* The tree that a command works on.
LEMMA TreeIs == TInv => IsTree(Tree)
BY EmptyIsTree DEF TInv, TreesInv, Tree

\* A command that goes on to its destructor.
LEMMA CommitTypes ==
  ASSUME TInv, pc = "idle", NEW root, NEW bitmap, Commit(root, bitmap),
         IsTree(root), losing' \subseteq Blocks
  PROVE  TInv'
<1>1. metadata' = metadata /\ block' = block /\ m_root' = root /\ i' = i
      /\ out' = out /\ queue' = queue /\ below' = below /\ lost' = lost
      /\ pc' = "commit" /\ formatted' \in BOOLEAN
  BY DEF Commit, disk, index, copying, TInv, TypeInv
<1>2. out = NoFile /\ queue = {} /\ below = <<>>
  BY DEF TInv, JobsInv
<1>3. JobsInv'
  BY <1>1, <1>2 DEF JobsInv, JobsIn
<1>4. QED
  BY <1>1, <1>3 DEF TInv, TypeInv, HeldInv, TreesInv, PCs

\* A command that goes on to write files.
LEMMA WriteTypes ==
  ASSUME TInv, pc = "idle", NEW root, NEW first, NEW later, NEW subdirs,
         Write(root, first, later, subdirs),
         IsTree(root), JobsIn(root, first, later, subdirs), losing' \subseteq Blocks
  PROVE  TInv'
<1>1. metadata' = metadata /\ block' = block /\ m_root' = root /\ i' = i
      /\ out' = first /\ queue' = later /\ below' = subdirs /\ lost' = lost
      /\ pc' = "writing" /\ formatted' \in BOOLEAN
  BY DEF Write, disk, index
<1>2. JobsInv'
  BY <1>1 DEF JobsInv
<1>3. QED
  BY <1>1, <1>2 DEF TInv, TypeInv, HeldInv, TreesInv, PCs

\* The end of a process, whatever it has left on the disk.
LEMMA EndTypes ==
  ASSUME TInv, End, metadata' = Torn \/ IsTree(metadata'),
         HeldInv', lost' \subseteq Blocks
  PROVE  TInv'
<1>1. 0 \in 0 .. BlocksCount
  BY BlocksAssumption
<1>2. JobsInv'
  BY DEF End, JobsInv, JobsIn
<1>3. QED
  BY <1>1, <1>2, EmptyIsTree DEF End, TInv, TypeInv, TreesInv, PCs

\* The blocks of some files are blocks.
LEMMA ChainsTyped ==
  ASSUME TInv, NEW t, IsTree(t), NEW S \in SUBSET DOMAIN t.files
  PROVE  Chains(t, S) \subseteq Blocks
BY ChainIsTyped DEF Chains, IsTree, Record, TInv, HeldInv

\* A file is opened.
LEMMA OpenTyped ==
  ASSUME NEW to \in Paths, NEW n \in HostSizes, NEW c \in Seq(Unit),
         NEW bitmap \in SUBSET Blocks, NextFree(bitmap) # NoBlock
  PROVE  Open(to, n, c, bitmap) \in FileOpen /\ Open(to, n, c, bitmap).to = to
<1>1. NextFree(bitmap) \in Blocks /\ NextFree(bitmap) \in Ends
  BY NextFreeIsFree DEF Ends
<1>2. ~Whole(c) => Front(c) \in Seq(Unit)
  <2>1. ASSUME Len(c) = 0
        PROVE  Whole(c)
    <3>1. DOMAIN c = {}
      <4>1. DOMAIN c = 1 .. Len(c)
        BY LenProperties
      <4>2. QED BY <2>1, <4>1
    <3>2. QED BY <3>1 DEF Whole
  <2>2. QED BY <2>1, FrontIs
<1>3. Whole(c) \in BOOLEAN
  BY DEF Whole
<1>4. QED BY <1>1, <1>2, <1>3 DEF Open, FileOpen

\* What a file of the host contains.
LEMMA ContentTyped ==
  ASSUME NEW n \in HostSizes
  PROVE  Content(n) \in Seq(Unit) /\ Len(Content(n)) = n
<1>1. n \in Nat
  BY HostSizesAssumption
<1>2. \A k \in 1 .. n : [of |-> n, at |-> k] \in Unit
  BY <1>1 DEF Unit
<1>3. QED BY <1>1, <1>2 DEF Content

\* Where move and copy put the source.
LEMMA DestinationIs ==
  ASSUME TInv, NEW p \in Paths, NEW q \in Paths, MayGo(p, q)
  PROVE  LET to == Destination(p, q)
         IN /\ to \in Paths /\ IsDir(Tree, Front(to)) /\ ~Exists(Tree, to)
            /\ to # p
<1>1. Destination(p, q) \in Paths /\ ~Exists(Tree, Destination(p, q))
      /\ Exists(Tree, p) /\ IsDir(Tree, Front(q))
  BY DEF MayGo
<1>2. ASSUME q \in Tree.dirs
      PROVE  Front(Append(q, Last(p))) = q
  <2>1. q \in Seq(Names) /\ p \in Seq(Names) /\ Len(p) \in Nat \ {0}
    BY PathsAreSeqs
  <2>2. Last(p) \in Names
    <3>1. Len(p) \in 1 .. Len(p)
      BY <2>1
    <3>2. QED BY <2>1, <3>1, ElementOfSeq DEF Last
  <2> DEFINE y == Append(q, Last(p))
  <2>3. y \in Seq(Names) /\ Len(y) = Len(q) + 1 /\ \A k \in 1 .. Len(q) : y[k] = q[k]
    BY <2>1, <2>2, AppendProperties
  <2>4. Len(q) \in Nat
    BY <2>1, LenProperties
  <2> HIDE DEF y
  <2>5. Len(y) # 0 /\ Len(y) - 1 = Len(q)
    BY <2>3, <2>4
  <2>6. Front(y) \in Seq(Names) /\ Len(Front(y)) = Len(q)
        /\ \A k \in 1 .. Len(q) : Front(y)[k] = y[k]
    BY <2>3, <2>5, FrontIs
  <2>7. Front(y) = q
    BY <2>1, <2>3, <2>6, SamePath
  <2>8. QED BY <2>7 DEF y
<1>3. QED BY <1>1, <1>2 DEF Destination, IsDir

\* move of a directory: it cannot be moved into itself.
LEMMA MovedTypes ==
  ASSUME TInv, NEW p \in Paths, NEW q \in Paths, MoveDir(p, q)
  PROVE  TInv'
<1> DEFINE to == Destination(p, q)
           s == Subtree(Tree, p)
<1>1. /\ MayGo(p, q) /\ ~AtOrBelow(p, Front(to))
      /\ Fits(p, to, s.dirs \cup s.files)
      /\ Commit(Moved(Tree, p, to, s), Bitmap)
      /\ losing' = lost /\ pc = "idle" /\ IsTree(Tree)
  BY TreeIs DEF MoveDir, MayGo, Mounts
<1>2. to \in Paths /\ IsDir(Tree, Front(to))
  BY <1>1, DestinationIs
<1>3. p # Root
  BY PathsAreSeqs
<1>4. /\ s.dirs \subseteq Tree.dirs /\ s.files \subseteq DOMAIN Tree.files
      /\ \A x \in s.dirs \cup s.files : AtOrBelow(p, x)
      /\ \A x \in (Tree.dirs \ s.dirs) \cup (DOMAIN Tree.files \ s.files) :
           Front(x) \notin s.dirs
      /\ \A x \in s.dirs \cup s.files :
           x = p \/ (Below(p, x) /\ Front(x) \in s.dirs)
  BY <1>1, <1>3, SubtreeIsClosed
<1>5. Front(to) \notin s.dirs
  BY <1>1, <1>4
<1> HIDE DEF to, s
<1>6. IsTree(Moved(Tree, p, to, s))
  BY <1>1, <1>2, <1>4, <1>5, MovedIsTree
<1>7. losing' \subseteq Blocks
  BY <1>1 DEF TInv, TypeInv
<1>8. QED BY <1>1, <1>6, <1>7, CommitTypes

\* move of a file.
LEMMA MovedFileTypes ==
  ASSUME TInv, NEW p \in Paths, NEW q \in Paths, MoveFile(p, q)
  PROVE  TInv'
<1> DEFINE to == Destination(p, q)
           s == [dirs |-> {}, files |-> {p}]
<1>1. /\ MayGo(p, q) /\ p \in DOMAIN Tree.files
      /\ Commit(Moved(Tree, p, to, s), Bitmap)
      /\ losing' = lost /\ pc = "idle" /\ IsTree(Tree)
  BY TreeIs DEF MoveFile, MayGo, Mounts, Exists
<1>2. to \in Paths /\ IsDir(Tree, Front(to))
  BY <1>1, DestinationIs
<1>3. Onto(p, to, p) = to
  <2>1. p \in Seq(Names) /\ to \in Seq(Names)
    BY <1>2, PathsAreSeqs
  <2> HIDE DEF to
  <2>2. QED BY <2>1, OntoFront
<1>4. s.dirs = {} /\ s.files = {p}
  OBVIOUS
<1>5. Fits(p, to, s.dirs \cup s.files)
  BY <1>2, <1>3, <1>4 DEF Fits
<1> HIDE DEF to, s
<1>6. IsTree(Moved(Tree, p, to, s))
  BY <1>1, <1>2, <1>4, <1>5, MovedIsTree
<1>7. losing' \subseteq Blocks
  BY <1>1 DEF TInv, TypeInv
<1>8. QED BY <1>1, <1>6, <1>7, CommitTypes

\* rm of a directory or of a file.
LEMMA RemovedTypes ==
  ASSUME TInv, NEW p \in Paths \cup {Root}, Rm(p)
  PROVE  TInv'
<1> DEFINE s == Subtree(Tree, p)
<1>1. pc = "idle" /\ IsTree(Tree) /\ lost \subseteq Blocks
  BY TreeIs DEF Rm, Mounts, TInv, TypeInv
<1>2. ASSUME NEW ds, NEW fs, Drop(ds, fs),
             \A x \in (Tree.dirs \ ds) \cup (DOMAIN Tree.files \ fs) : Front(x) \notin ds
      PROVE  TInv'
  <2>1. IsTree([dirs |-> Tree.dirs \ ds,
                files |-> Restrict(Tree.files, DOMAIN Tree.files \ fs)])
    BY <1>1, <1>2, DropIsTree
  <2>2. PICK b : Commit([dirs |-> Tree.dirs \ ds,
                         files |-> Restrict(Tree.files, DOMAIN Tree.files \ fs)], b)
    BY <1>2 DEF Drop
  <2>3. losing' \subseteq Blocks
    BY <1>1, <1>2 DEF Drop
  <2>4. QED BY <1>1, <2>1, <2>2, <2>3, CommitTypes
<1>3. \A x \in (Tree.dirs \ s.dirs) \cup (DOMAIN Tree.files \ s.files) :
        Front(x) \notin s.dirs
  BY <1>1, SubtreeIsClosed
<1>4. Drop(s.dirs, s.files) \/ Drop({}, {p})
  BY DEF Rm
<1> HIDE DEF s
<1>5. QED BY <1>2, <1>3, <1>4

\* mkdir.
LEMMA MadeTypes ==
  ASSUME TInv, NEW p \in Paths, Mkdir(p)
  PROVE  TInv'
<1>1. pc = "idle" /\ IsTree(Tree) /\ Commit(Made(Tree, p), Bitmap)
  BY TreeIs DEF Mkdir, Mounts
<1>2. IsTree(Made(Tree, p))
  BY <1>1, MadeIsTree
<1>3. losing' \subseteq Blocks
  <2>1. Chains(Tree, {x \in DOMAIN Tree.files : Below(p, x)}) \subseteq Blocks
    BY <1>1, ChainsTyped
  <2>2. QED BY <2>1 DEF Mkdir, TInv, TypeInv
<1>4. QED BY <1>1, <1>2, <1>3, CommitTypes

\* import opens the file that it will write.
LEMMA ImportTypes ==
  ASSUME IInv, TInv, NEW p \in Paths, NEW n \in HostSizes, Import(p, n)
  PROVE  TInv'
<1> DEFINE f == Open(p, n, Content(n), Bitmap)
<1>1. /\ pc = "idle" /\ IsTree(Tree) /\ IsDir(Tree, Front(p))
      /\ NextFree(Bitmap) # NoBlock /\ Write(Tree, f, {}, <<>>)
  BY TreeIs DEF Import, Mounts
<1>2. Bitmap \in SUBSET Blocks
  BY <1>1, BitmapWithRoom
<1>3. f \in FileOpen /\ f.to = p
  BY <1>1, <1>2, ContentTyped, OpenTyped
<1> HIDE DEF f
<1>4. JobsIn(Tree, f, {}, <<>>)
  BY <1>1, <1>3 DEF JobsIn
<1>5. losing' \subseteq Blocks
  <2>1. Chains(Tree, {p} \cap DOMAIN Tree.files) \subseteq Blocks
    BY <1>1, ChainsTyped
  <2>2. QED BY <2>1 DEF Import, TInv, TypeInv
<1>6. QED BY <1>1, <1>4, <1>5, WriteTypes

\* copy of a file.
LEMMA CopyFileTypes ==
  ASSUME IInv, TInv, NEW p \in Paths, NEW q \in Paths, CopyFile(p, q)
  PROVE  TInv'
<1> DEFINE to == Destination(p, q)
           g == Tree.files[p]
           f == Open(to, g.size, Read(g), Bitmap)
<1>1. /\ pc = "idle" /\ IsTree(Tree) /\ MayGo(p, q)
      /\ NextFree(Bitmap) # NoBlock /\ Write(Tree, f, {}, <<>>)
      /\ p \in DOMAIN Tree.files /\ losing' = lost
  BY TreeIs DEF CopyFile, MayGo, Mounts, Exists
<1>2. Bitmap \in SUBSET Blocks
  BY <1>1, BitmapWithRoom
<1>3. g \in Record
  BY <1>1, FileIsRecord
<1>4. to \in Paths /\ IsDir(Tree, Front(to))
  BY <1>1, DestinationIs
<1>5. Read(g) \in Seq(Unit) /\ g.size \in HostSizes
  BY <1>3, ReadIsTyped, RecordIs DEF TInv, HeldInv
<1> HIDE DEF to, g
<1>6. f \in FileOpen /\ f.to = to
  BY <1>1, <1>2, <1>4, <1>5, OpenTyped
<1> HIDE DEF f
<1>7. JobsIn(Tree, f, {}, <<>>)
  BY <1>4, <1>6 DEF JobsIn
<1>8. losing' \subseteq Blocks
  BY <1>1 DEF TInv, TypeInv
<1>9. QED BY <1>1, <1>7, <1>8, WriteTypes

\* copy of a directory, which may be a copy into itself: what lies below it
\* then can be copied to a path within the bound.
LEMMA CopyDirTypes ==
  ASSUME TInv, NEW p \in Paths, NEW q \in Paths, CopyDir(p, q)
  PROVE  TInv'
<1> DEFINE to == Destination(p, q)
           s == Subtree(Tree, p)
           F == FilesIn(Tree, p)
           new == s.dirs \cup s.files \cup {to} \cup {Onto(p, to, x) : x \in F}
           root == WithDirs(Tree, {to})
           jobs == Jobs(Tree, p, to, F)
<1>1. /\ pc = "idle" /\ IsTree(Tree) /\ MayGo(p, q) /\ p \in Tree.dirs
      /\ Fits(p, to, IF AtOrBelow(p, to) THEN new ELSE s.dirs \cup s.files)
      /\ Write(root, NoFile, jobs, <<p, to>>) /\ losing' = lost
  BY TreeIs DEF CopyDir, MayGo, Mounts
<1>2. to \in Paths /\ IsDir(Tree, Front(to)) /\ ~Exists(Tree, to)
  BY <1>1, DestinationIs
<1>3. p \in Seq(Names) /\ to \in Seq(Names) /\ to # Root
  BY <1>2, PathsAreSeqs
<1>4. Fits(p, to, s.dirs \cup s.files)
  BY <1>1 DEF Fits
<1>5. ASSUME NEW x \in F
      PROVE  /\ x \in s.files /\ x \in Seq(Names)
             /\ Onto(p, to, x) \in Paths /\ Onto(p, to, x) \in Seq(Names)
             /\ Front(Onto(p, to, x)) = to /\ Below(to, Onto(p, to, x))
  <2>1. /\ x \in DOMAIN Tree.files /\ x \in Nodes(Tree) /\ Below(p, x)
        /\ Front(Onto(p, to, x)) = to /\ Below(to, Onto(p, to, x))
    BY <1>1, <1>2, CopiedFile DEF IsTree
  <2>2. x \in s.files
    BY <2>1 DEF Subtree
  <2>3. Onto(p, to, x) \in Paths
    BY <1>4, <2>2 DEF Fits
  <2>4. QED BY <1>1, <2>1, <2>2, <2>3, Existing, PathsAreSeqs
<1>6. \A j \in jobs : j \in [from : Record, to : Paths] /\ Front(j.to) = to
  <2>1. ASSUME NEW j \in jobs
        PROVE  j \in [from : Record, to : Paths] /\ Front(j.to) = to
    <3>1. PICK x \in F : j = [from |-> Tree.files[x], to |-> Onto(p, to, x)]
      BY DEF Jobs
    <3>2. Tree.files[x] \in Record
      BY <1>1, FileIsRecord DEF FilesIn
    <3> HIDE DEF to, F
    <3>3. QED BY <1>5, <3>1, <3>2
  <2>2. QED BY <2>1
<1>7. root.dirs = Tree.dirs \cup {to} /\ root.files = Tree.files
  BY DEF WithDirs
<1>8. ASSUME NEW x \in Nodes(root) \cup {j.to : j \in jobs} \cup {NoFile.to},
             AtOrBelow(p, x)
      PROVE  Onto(p, to, x) \in Paths
  <2>1. x \in Nodes(Tree) \/ x = to \/ (\E y \in F : x = Onto(p, to, y)) \/ x = Root
    BY <1>7 DEF Nodes, Jobs, NoFile
  <2>2. CASE x \in Nodes(Tree)
    <3>1. x \in Seq(Names) /\ Len(x) # 0
      BY <1>1, <2>2, Existing
    <3>2. x = p \/ Below(p, x)
      BY <1>3, <1>8, <3>1, BelowFront
    <3>3. x \in s.dirs \cup s.files \/ x = p
      BY <1>8, <2>2, <3>2 DEF Subtree, Nodes
    <3>4. Onto(p, to, p) = to
      <4> HIDE DEF to
      <4>1. QED BY <1>3, OntoFront
    <3>5. QED BY <1>2, <1>4, <3>3, <3>4 DEF Fits
  <2>3. CASE AtOrBelow(p, to) /\ (x = to \/ \E y \in F : x = Onto(p, to, y))
    <3>1. x \in new /\ Fits(p, to, new)
      BY <1>1, <2>3
    <3> HIDE DEF new, to
    <3>2. QED BY <3>1 DEF Fits
  <2>4. CASE x = Root
    <3>1. Len(p) \in Nat \ {0} /\ Len(Root) = 0 /\ Root \in Seq(Names)
      BY PathsAreSeqs
    <3>2. Len(p) <= Len(Root)
      BY <1>3, <1>8, <2>4, <3>1, PrefixIs
    <3>3. QED BY <3>1, <3>2
  <2>5. ASSUME NEW y \in F, x = Onto(p, to, y), ~AtOrBelow(p, to)
        PROVE  FALSE
    <3>1. x \in Seq(Names) /\ Front(x) = to /\ Below(to, x) /\ x \in Paths
      BY <1>5, <2>5
    <3>2. Len(x) # 0
      BY <3>1, PathsAreSeqs
    <3>3. x = p
      <4> HIDE DEF to
      <4>1. QED BY <1>3, <1>8, <2>5, <3>1, <3>2, BelowFront
    <3>4. IsDir(Tree, to)
      BY <1>1, <3>1, <3>3, Existing DEF Nodes
    <3>5. QED BY <1>2, <1>3, <3>4 DEF IsDir, Exists
  <2>6. QED BY <1>8, <2>1, <2>2, <2>3, <2>4, <2>5
<1>9. JobsIn(root, NoFile, jobs, <<p, to>>)
  <2> DEFINE d == <<p, to>>
  <2>1. d[1] = p /\ d[2] = to
    OBVIOUS
  <2>2. p \in root.dirs /\ to \in root.dirs
    BY <1>1, <1>7
  <2>3. \A j \in jobs : j \in [from : Record, to : Paths] /\ IsDir(root, Front(j.to))
    BY <1>6, <2>2 DEF IsDir
  <2> HIDE DEF d, jobs, root, to
  <2>4. JobsIn(root, NoFile, jobs, d)
    BY <1>8, <2>1, <2>2, <2>3 DEF JobsIn
  <2>5. QED BY <2>4 DEF d
<1>10. IsTree(root)
  <2>1. {to} \in SUBSET Paths /\ \A x \in {to} : IsDir(Tree, Front(x)) \/ Front(x) \in {to}
    BY <1>2
  <2> HIDE DEF to
  <2>2. QED BY <1>1, <2>1, DirsAreAdded DEF root
<1>11. losing' \subseteq Blocks
  BY <1>1 DEF TInv, TypeInv
<1> HIDE DEF root, jobs, to
<1>12. QED BY <1>1, <1>9, <1>10, <1>11, WriteTypes

\* Every command.
LEMMA CommandTypes == IInv /\ TInv /\ Command => TInv'
<1> SUFFICES ASSUME IInv, TInv, Command PROVE TInv'
  OBVIOUS
<1>1. ASSUME NEW format \in BOOLEAN, StartInit(format) PROVE TInv'
  <2>1. JobsInv'
    BY <1>1 DEF StartInit, copying, TInv, JobsInv, JobsIn
  <2>2. QED
    BY <1>1, <2>1 DEF StartInit, disk, index, TInv, TypeInv, HeldInv, TreesInv, PCs
<1>2. ASSUME NEW p, Ls(p) \/ Export(p) PROVE TInv'
  <2>1. pc = "idle" /\ Commit(Tree, Bitmap) /\ losing' = lost
    BY <1>2 DEF Ls, Export, Mounts
  <2>2. losing' \subseteq Blocks
    BY <2>1 DEF TInv, TypeInv
  <2>3. QED BY <2>1, <2>2, TreeIs, CommitTypes
<1>3. QED
  BY <1>1, <1>2, MovedTypes, MovedFileTypes, RemovedTypes, MadeTypes,
     ImportTypes, CopyFileTypes, CopyDirTypes DEF Command

\* What is written into a block of the file.
LEMMA BlockWritten ==
  ASSUME HeldInv, NEW b \in Blocks, NEW u \in Seq(Unit), Len(u) <= BlockSize,
         Len(u) = BlockSize => u[BlockSize] \in Links,
         block' = [block EXCEPT ![b] = u]
  PROVE  HeldInv'
BY DEF HeldInv, BlocksHold

\* The next file of a copy.
LEMMA CopyTypes ==
  ASSUME IInv, TInv, NEW j \in queue, NextCopy(j)
  PROVE  TInv'
<1> DEFINE f == Open(j.to, j.from.size, Read(j.from), m_bitmap)
<1>1. /\ pc = "writing" /\ NextFree(m_bitmap) # NoBlock
      /\ out' = f /\ queue' = queue \ {j} /\ out = NoFile
      /\ UNCHANGED <<disk, formatted, m_root, m_bitmap, pc, i, below, lost, losing>>
  BY DEF NextCopy
<1>2. m_bitmap \in SUBSET Blocks
  BY <1>1 DEF IInv, BitmapInv
<1>3. j.from \in Record /\ j.to \in Paths /\ IsDir(m_root, Front(j.to))
  BY DEF TInv, JobsInv, JobsIn
<1>4. Read(j.from) \in Seq(Unit) /\ j.from.size \in HostSizes
  BY <1>3, ReadIsTyped, RecordIs DEF TInv, HeldInv
<1>5. f \in FileOpen /\ f.to = j.to
  BY <1>1, <1>2, <1>3, <1>4, OpenTyped
<1> HIDE DEF f
<1>6. JobsIn(m_root, f, queue \ {j}, below)
  BY <1>3, <1>5 DEF TInv, JobsInv, JobsIn
<1>7. JobsInv'
  BY <1>1, <1>6 DEF JobsInv
<1>8. QED
  BY <1>1, <1>7 DEF disk, index, TInv, TypeInv, HeldInv, TreesInv

\* The subdirectories of a copy.
LEMMA SubdirsTypes ==
  ASSUME TInv, CopySubdirs
  PROVE  TInv'
<1> DEFINE p == below[1]
           q == below[2]
           s == Subtree(m_root, p)
           D == {Onto(p, q, x) : x \in s.dirs}
           F == FilesDeeper(m_root, p)
           root == WithDirs(m_root, D)
           jobs == Jobs(m_root, p, q, F)
<1>1. /\ pc = "writing" /\ out = NoFile /\ queue = {} /\ below # <<>>
      /\ m_root' = root /\ queue' = jobs /\ below' = <<>>
      /\ pc' \in {"commit", "writing"} /\ (pc' = "commit" => queue' = {})
      /\ UNCHANGED <<disk, formatted, i, out, lost, losing>>
  BY DEF CopySubdirs
<1>2. /\ p \in m_root.dirs /\ q \in m_root.dirs /\ IsTree(m_root)
      /\ \A x \in Nodes(m_root) : AtOrBelow(p, x) => Onto(p, q, x) \in Paths
  BY <1>1 DEF TInv, JobsInv, JobsIn, TreesInv
<1>3. p \in Paths /\ q \in Paths /\ IsDir(m_root, Front(q)) /\ p # Root
  BY <1>2, Existing, PathsAreSeqs DEF Nodes
<1>4. p \in Seq(Names) /\ q \in Seq(Names)
  BY <1>3, PathsAreSeqs
<1>5. /\ s.dirs \subseteq m_root.dirs
      /\ \A x \in s.dirs \cup s.files : AtOrBelow(p, x)
      /\ \A x \in s.dirs \cup s.files :
           x = p \/ (Below(p, x) /\ Front(x) \in s.dirs)
  BY <1>2, <1>3, SubtreeIsClosed
<1> HIDE DEF p, q
<1>6. ASSUME NEW x \in s.dirs
      PROVE  /\ Onto(p, q, x) \in Paths
             /\ IsDir(m_root, Front(Onto(p, q, x))) \/ Front(Onto(p, q, x)) \in D
  <2>1. x \in Nodes(m_root) /\ x \in Seq(Names)
    BY <1>2, <1>5, Existing DEF Nodes
  <2>2. Onto(p, q, x) \in Paths
    BY <1>2, <1>5, <2>1
  <2>3. CASE x = p
    BY <1>3, <1>4, <2>2, <2>3, OntoFront
  <2>4. CASE Below(p, x) /\ Front(x) \in s.dirs
    <3>1. Front(Onto(p, q, x)) = Onto(p, q, Front(x))
      BY <1>4, <2>1, <2>4, OntoFront
    <3>2. QED BY <2>2, <2>4, <3>1
  <2>5. QED BY <1>5, <2>3, <2>4
<1>7. IsTree(root)
  <2>1. D \in SUBSET Paths /\ \A x \in D : IsDir(m_root, Front(x)) \/ Front(x) \in D
    BY <1>6
  <2> HIDE DEF D
  <2>2. QED BY <1>2, <2>1, DirsAreAdded DEF root
<1>8. root.dirs = m_root.dirs \cup D
  BY DEF WithDirs
<1>9. ASSUME NEW x \in F
      PROVE  /\ m_root.files[x] \in Record /\ Onto(p, q, x) \in Paths
             /\ Front(Onto(p, q, x)) \in D
  <2>1. /\ x \in DOMAIN m_root.files /\ x \in Nodes(m_root) /\ Below(p, x)
        /\ AtOrBelow(p, x) /\ Front(Onto(p, q, x)) = Onto(p, q, Front(x))
        /\ Below(p, Front(x))
    BY <1>2, <1>3, CopiedFile DEF FilesDeeper
  <2>2. Front(x) \in s.dirs
    <3>1. x \in s.files
      BY <2>1 DEF Subtree
    <3>2. x = p \/ Front(x) \in s.dirs
      BY <1>5, <3>1
    <3>3. x # p
      BY <2>1 DEF Below, IsStrictPrefix
    <3>4. QED BY <3>2, <3>3
  <2>3. QED BY <1>2, <2>1, <2>2, FileIsRecord
<1>10. JobsIn(root, NoFile, jobs, <<>>)
  <2>1. ASSUME NEW j \in jobs
        PROVE  j \in [from : Record, to : Paths] /\ Front(j.to) \in D
    <3>1. PICK x \in F : j = [from |-> m_root.files[x], to |-> Onto(p, q, x)]
      BY DEF Jobs
    <3> HIDE DEF F, D
    <3>2. QED BY <1>9, <3>1
  <2> HIDE DEF jobs, root, D
  <2>2. QED BY <1>8, <2>1 DEF JobsIn, IsDir
<1> HIDE DEF root, jobs
<1>11. JobsInv'
  BY <1>1, <1>10 DEF JobsInv
<1>12. QED
  BY <1>1, <1>7, <1>11 DEF disk, index, TInv, TypeInv, HeldInv, TreesInv, PCs

\* A block is written: units, and a link to the next free block.
LEMMA FlushIs ==
  ASSUME IInv, TInv, FlushBlock
  PROVE  /\ pc = "writing" /\ Len(out.rest) >= DataSize /\ Len(out.rest) \in Nat
         /\ out \in FileOpen /\ out # NoFile /\ IsDir(m_root, Front(out.to))
         /\ out.cur \in Blocks /\ m_bitmap' = m_bitmap \cup {out.cur}
         /\ UNCHANGED <<metadata, ahead, used, formatted, m_root, pc, i, queue,
                        below, lost, losing>>
         /\ \E next \in Ends, u \in Seq(Unit), v \in Seq(Unit) :
              /\ Len(u) = BlockSize /\ u[BlockSize] = [next |-> next]
              /\ \A k \in 1 .. DataSize : u[k] = out.rest[k]
              /\ v = SubSeq(out.rest, DataSize + 1, Len(out.rest))
              /\ Len(v) = Len(out.rest) - DataSize
              /\ block' = [block EXCEPT ![out.cur] = u]
              /\ out' = [out EXCEPT !.cur = next, !.rest = v]
<1> DEFINE c == SubSeq(out.rest, 1, DataSize)
           next == NextFree(m_bitmap \cup {out.cur})
           u == Append(c, [next |-> next])
           v == SubSeq(out.rest, Len(c) + 1, Len(out.rest))
<1>1. /\ pc = "writing" /\ Len(out.rest) >= DataSize /\ out.cur # NoBlock
      /\ Flush(c)
      /\ UNCHANGED <<metadata, ahead, used, formatted, m_root, pc, i, queue, below,
                     lost, losing>>
  BY DEF FlushBlock, index
<1>2. out \in FileOpen /\ out # NoFile /\ IsDir(m_root, Front(out.to))
  <2>1. out # NoFile
    BY <1>1, Sizes DEF NoFile
  <2>2. QED BY <2>1 DEF TInv, JobsInv, JobsIn
<1>3. out.rest \in Seq(Unit) /\ Len(out.rest) \in Nat /\ out.cur \in Blocks
  BY <1>1, <1>2, LenProperties DEF FileOpen, Ends
<1>4. /\ c \in Seq(Unit) /\ Len(c) = DataSize
      /\ \A k \in 1 .. DataSize : c[k] = out.rest[k]
  <2>1. \A k \in 1 .. DataSize : k \in 1 .. Len(out.rest)
    BY <1>1, <1>3, Sizes
  <2>2. \A k \in 1 .. DataSize : out.rest[k] \in Unit
    BY <1>3, <2>1, ElementOfSeq
  <2>3. DataSize \in Nat
    BY Sizes
  <2>4. QED BY <1>3, <2>2, <2>3
<1>5. next \in Ends
  <2>1. m_bitmap \cup {out.cur} \in SUBSET Blocks
    BY <1>1, <1>3 DEF IInv, BitmapInv
  <2>2. QED BY <2>1, NextFreeIsFree DEF Ends
<1>6. /\ m_bitmap' = m_bitmap \cup {out.cur}
      /\ block' = [block EXCEPT ![out.cur] = u]
      /\ out' = [out EXCEPT !.cur = next, !.rest = v]
  <2> HIDE DEF next, c
  <2>1. QED BY <1>1, <1>4 DEF Flush, next
<1> HIDE DEF next, c
<1>7. /\ u \in Seq(Unit) /\ Len(u) = BlockSize /\ u[BlockSize] = [next |-> next]
      /\ \A k \in 1 .. DataSize : u[k] = out.rest[k]
  <2>1. [next |-> next] \in Unit
    BY <1>5 DEF Links, Unit, Ends
  <2>2. /\ u \in Seq(Unit) /\ Len(u) = Len(c) + 1
        /\ u[Len(c) + 1] = [next |-> next]
        /\ \A k \in 1 .. Len(c) : u[k] = c[k]
    BY <1>4, <2>1, AppendProperties
  <2>3. Len(c) + 1 = BlockSize
    BY <1>4, Sizes
  <2>4. QED BY <1>4, <2>2, <2>3
<1>8. /\ v \in Seq(Unit) /\ Len(v) = Len(out.rest) - DataSize
      /\ v = SubSeq(out.rest, DataSize + 1, Len(out.rest))
  <2>1. DataSize \in Nat /\ Len(c) + 1 \in 1 .. Len(out.rest) + 1
    BY <1>1, <1>3, <1>4, Sizes
  <2>2. /\ v \in Seq(Unit)
        /\ Len(v) = IF Len(c) + 1 <= Len(out.rest)
                    THEN Len(out.rest) - (Len(c) + 1) + 1 ELSE 0
    BY <1>3, <1>4, <2>1, SubSeqProperties
  <2>3. QED BY <1>1, <1>3, <1>4, <2>1, <2>2
<1> HIDE DEF u, v
<1>9. QED BY <1>1, <1>2, <1>3, <1>5, <1>6, <1>7, <1>8

\* A block with a link behind the units.
LEMMA FlushTypes ==
  ASSUME IInv, TInv, FlushBlock
  PROVE  TInv'
<1>1. PICK next \in Ends, u \in Seq(Unit), v \in Seq(Unit) :
        /\ Len(u) = BlockSize /\ u[BlockSize] = [next |-> next]
        /\ block' = [block EXCEPT ![out.cur] = u]
        /\ out' = [out EXCEPT !.cur = next, !.rest = v]
  BY FlushIs
<1>2. /\ pc = "writing" /\ out \in FileOpen /\ IsDir(m_root, Front(out.to))
      /\ out.cur \in Blocks
      /\ UNCHANGED <<metadata, ahead, used, formatted, m_root, pc, i, queue, below,
                     lost, losing>>
  BY FlushIs
<1>3. HeldInv'
  <2>1. u[BlockSize] \in Links /\ Len(u) <= BlockSize
    BY <1>1, Sizes DEF Links, Ends
  <2>2. QED BY <1>1, <1>2, <2>1, BlockWritten DEF TInv
<1>4. out' \in FileOpen /\ out'.to = out.to
  BY <1>1, <1>2 DEF FileOpen
<1>5. JobsIn(m_root, out', queue, below)
  BY <1>2, <1>4 DEF TInv, JobsInv, JobsIn
<1>6. JobsInv'
  BY <1>2, <1>5 DEF JobsInv
<1>7. QED
  BY <1>2, <1>3, <1>6 DEF TInv, TypeInv, TreesInv

\* The last part of a file.
LEMMA TailWritten ==
  ASSUME TInv, pc = "writing", out # NoFile, Len(out.rest) < DataSize,
         \/ out.cur # NoBlock /\ block' = [block EXCEPT ![out.cur] = out.rest]
         \/ block' = block
  PROVE  HeldInv'
<1>1. CASE block' = block
  BY <1>1 DEF TInv, HeldInv
<1>2. CASE out.cur # NoBlock /\ block' = [block EXCEPT ![out.cur] = out.rest]
  <2>1. out \in FileOpen
    BY DEF TInv, JobsInv, JobsIn
  <2>2. out.cur \in Blocks /\ out.rest \in Seq(Unit) /\ Len(out.rest) \in Nat
    BY <1>2, <2>1, LenProperties DEF FileOpen, Ends
  <2>3. Len(out.rest) <= BlockSize /\ Len(out.rest) # BlockSize
    BY <2>2, Sizes
  <2>4. QED BY <1>2, <2>2, <2>3, BlockWritten DEF TInv
<1>3. QED BY <1>1, <1>2

\* A file is put into the tree.
LEMMA FinishTypes ==
  ASSUME TInv, FinishFile
  PROVE  TInv'
<1> DEFINE r == [start |-> out.start, size |-> out.size]
           root == WithFile(m_root, out.to, r)
<1>1. /\ pc = "writing" /\ out # NoFile /\ Len(out.rest) < DataSize
      /\ m_root' = root /\ out' = NoFile
      /\ pc' \in {"commit", "writing"}
      /\ pc' = "commit" => queue = {} /\ below = <<>>
      /\ UNCHANGED <<metadata, ahead, used, formatted, i, queue, below, lost, losing>>
      /\ \/ out.cur # NoBlock /\ block' = [block EXCEPT ![out.cur] = out.rest]
         \/ block' = block
  BY DEF FinishFile, index
<1>2. /\ out \in FileOpen /\ IsDir(m_root, Front(out.to)) /\ IsTree(m_root)
  BY <1>1 DEF TInv, JobsInv, JobsIn, TreesInv
<1>3. r \in [start : Blocks, size : HostSizes] /\ out.to \in Paths
  BY <1>2 DEF FileOpen
<1> HIDE DEF r
<1>4. IsTree(root)
  BY <1>2, <1>3, FileIsAdded
<1>5. root.dirs = m_root.dirs /\ DOMAIN root.files = DOMAIN m_root.files \cup {out.to}
  BY DEF WithFile
<1> HIDE DEF root
<1>6. JobsIn(root, NoFile, queue, below)
  <2>1. JobsIn(m_root, out, queue, below)
    BY DEF TInv, JobsInv
  <2>2. \A j \in queue : j \in [from : Record, to : Paths] /\ IsDir(root, Front(j.to))
    BY <1>5, <2>1 DEF JobsIn, IsDir
  <2>3. ASSUME below # <<>>,
               NEW x \in Nodes(root) \cup {j.to : j \in queue} \cup {NoFile.to},
               AtOrBelow(below[1], x)
        PROVE  Onto(below[1], below[2], x) \in Paths
    <3>1. x \in Nodes(m_root) \cup {j.to : j \in queue} \cup {out.to} \/ x = Root
      BY <1>5 DEF Nodes, NoFile
    <3>2. x # Root
      <4>1. below[1] \in m_root.dirs
        BY <2>1, <2>3 DEF JobsIn
      <4>2. below[1] \in Seq(Names) /\ Len(below[1]) \in Nat \ {0}
        BY <1>2, <4>1, PathsAreSeqs DEF IsTree
      <4>3. AtOrBelow(below[1], Root) => Len(below[1]) <= Len(Root)
        BY <4>2, PathsAreSeqs, PrefixIs
      <4>4. QED BY <2>3, <4>2, <4>3, PathsAreSeqs
    <3>3. QED BY <2>1, <2>3, <3>1, <3>2 DEF JobsIn
  <2>4. below # <<>> => below[1] \in root.dirs /\ below[2] \in root.dirs
    BY <1>5, <2>1 DEF JobsIn
  <2>5. QED BY <2>2, <2>3, <2>4 DEF JobsIn
<1>7. JobsInv'
  BY <1>1, <1>6 DEF JobsInv
<1>8. HeldInv'
  BY <1>1, TailWritten
<1>9. QED
  BY <1>1, <1>4, <1>7, <1>8 DEF TInv, TypeInv, TreesInv, PCs

\* Every step of a process.
LEMMA ProgressTypes == IInv /\ TInv /\ Progress => TInv'
<1> SUFFICES ASSUME IInv, TInv, Progress PROVE TInv'
  OBVIOUS
<1>1. CASE CopyFails \/ FlushFails
  <2>1. End /\ metadata' = metadata /\ lost' = lost /\ block' = block
    BY <1>1 DEF CopyFails, FlushFails, Throw, index
  <2>2. QED BY <2>1, EndTypes DEF TInv, TypeInv, HeldInv, TreesInv
<1>2. CASE ReadFails
  <2>1. /\ End /\ metadata' = metadata /\ lost' = lost
        /\ pc = "writing" /\ out # NoFile /\ Len(out.rest) < DataSize
        /\ \/ out.cur # NoBlock /\ block' = [block EXCEPT ![out.cur] = out.rest]
           \/ block' = block
    BY <1>2 DEF ReadFails, Throw, index
  <2>2. HeldInv'
    BY <2>1, TailWritten
  <2>3. QED BY <2>1, <2>2, EndTypes DEF TInv, TypeInv, TreesInv
<1>3. CASE Writing
  BY <1>1, <1>2, <1>3, CopyTypes, SubdirsTypes, FlushTypes, FinishTypes DEF Writing
<1>4. CASE TruncateBlock
  <2>1. /\ pc = "formatting" /\ i < BlocksCount /\ i' = i + 1
        /\ block' = [block EXCEPT ![i] = <<>>]
        /\ lost' = IF used = Torn THEN lost ELSE used
        /\ UNCHANGED <<metadata, formatted, m_root, pc, copying, losing>>
    BY <1>4 DEF TruncateBlock, index
  <2>2. i \in Blocks /\ i + 1 \in 0 .. BlocksCount
    <3>1. i \in 0 .. BlocksCount /\ BlocksCount \in Nat
      BY BlocksAssumption DEF TInv, TypeInv
    <3>2. QED BY <2>1, <3>1 DEF Blocks
  <2>3. <<>> \in Seq(Unit) /\ Len(<<>>) <= BlockSize /\ Len(<<>>) # BlockSize
    <3>1. <<>> \in Seq(Unit) /\ Len(<<>>) = 0
      BY EmptySeq
    <3>2. 0 <= BlockSize /\ 0 # BlockSize
      BY Sizes
    <3>3. QED BY <3>1, <3>2
  <2>4. HeldInv'
    BY <2>1, <2>2, <2>3, BlockWritten DEF TInv
  <2>5. lost' \subseteq Blocks
    BY <2>1 DEF TInv, TypeInv, IInv, UsedInv
  <2>6. JobsInv'
    BY <2>1 DEF copying, TInv, JobsInv
  <2>7. QED
    BY <2>1, <2>2, <2>4, <2>5, <2>6 DEF TInv, TypeInv, TreesInv
<1>5. CASE AllTruncated
  BY <1>5 DEF AllTruncated, disk, index, copying, TInv, TypeInv, HeldInv, TreesInv,
              JobsInv, PCs
<1>6. CASE TruncateMetadata \/ TruncateBitmap
  BY <1>6 DEF TruncateMetadata, TruncateBitmap, copying, TInv, TypeInv, HeldInv,
              TreesInv, JobsInv, PCs
<1>7. CASE WriteMetadata
  <2>1. IsTree(ToWrite)
    BY EmptyIsTree DEF ToWrite, TInv, TreesInv
  <2>2. PICK tree : NextLine(tree) /\ LineWritten(tree)
    BY <1>7, LineIs
  <2>3. IsTree(tree)
    <3>1. CASE metadata = Torn /\ tree = EmptyTree
      BY <3>1, EmptyIsTree
    <3>2. ASSUME NEW p \in Paths, metadata # Torn, IsDir(metadata, Front(p)),
                 p \in ToWrite.dirs /\ tree = WithDirs(metadata, {p})
          PROVE  IsTree(tree)
      BY <3>2, DirsAreAdded DEF TInv, TreesInv
    <3>3. ASSUME NEW p \in Paths, metadata # Torn, IsDir(metadata, Front(p)),
                 p \in DOMAIN ToWrite.files,
                 tree = WithFile(metadata, p, ToWrite.files[p])
          PROVE  IsTree(tree)
      <4>1. ToWrite.files[p] \in [start : Blocks, size : HostSizes]
        BY <2>1, <3>3 DEF IsTree
      <4>2. QED BY <3>3, <4>1, FileIsAdded DEF TInv, TreesInv
    <3>4. QED BY <2>2, <3>1, <3>2, <3>3 DEF NextLine
  <2>4. QED
    BY <1>7, <2>2, <2>3, LineIs DEF LineWritten, copying, TInv, TypeInv, HeldInv,
       TreesInv, JobsInv, PCs
<1>8. CASE WriteBitmap
  BY <1>8, EndTypes DEF WriteBitmap, TInv, TypeInv, HeldInv, TreesInv
<1>9. QED
  BY <1>3, <1>4, <1>5, <1>6, <1>7, <1>8 DEF Progress

\* Every step.
LEMMA StepTypes == IInv /\ TInv /\ [Next]_vars => TInv'
<1> SUFFICES ASSUME IInv, TInv, [Next]_vars PROVE TInv'
  OBVIOUS
<1>1. CASE Crash
  BY <1>1, EndTypes DEF Crash, disk, index, TInv, TypeInv, HeldInv, TreesInv
<1>2. CASE UNCHANGED vars
  BY <1>2 DEF vars, disk, index, process, copying, TInv, TypeInv, HeldInv, TreesInv,
              JobsInv
<1>3. QED BY <1>1, <1>2, CommandTypes, ProgressTypes DEF Next

\* The two invariants.
LEMMA AlwaysTyped == Spec => [](IInv /\ TInv)
BY InitInv, StepInv, InitTypes, StepTypes, PTL DEF Spec

\* What metadata has of a newer tree changes only while it is written.
LEMMA StepAhead == AheadInv /\ [Next]_vars => AheadInv'
<1> SUFFICES ASSUME AheadInv, [Next]_vars PROVE AheadInv'
  OBVIOUS
<1>1. CASE Command
  BY <1>1 DEF Command, StartInit, Ls, Rm, Drop, Export, Mkdir, Import, MoveDir,
       MoveFile, CopyDir, CopyFile, Commit, Write, disk, index, AheadInv
<1>2. CASE Writing
  BY <1>2 DEF Writing, NextCopy, CopyFails, CopySubdirs, FlushBlock, FlushFails,
       FinishFile, ReadFails, Throw, disk, index, AheadInv
<1>3. CASE TruncateBlock \/ AllTruncated \/ TruncateMetadata \/ WriteMetadata
           \/ TruncateBitmap \/ WriteBitmap
  BY <1>3, LineIs DEF TruncateBlock, AllTruncated, TruncateMetadata, LineWritten,
       TruncateBitmap, WriteBitmap, disk, index, AheadInv
<1>4. CASE Crash \/ UNCHANGED vars
  BY <1>4 DEF Crash, vars, disk, index, AheadInv
<1>5. QED BY <1>1, <1>2, <1>3, <1>4 DEF Next, Progress

\* Every variable keeps its type: the trees on the disk and in memory are trees
\* whose files have a block each, whatever is moved and copied where, and at
\* whatever point processes are killed, lines of metadata included.
THEOREM TypeCorrect == Spec => []TypeOK
<1>1. Init => AheadInv
  BY DEF Init, AheadInv
<1>2. QED
  BY <1>1, StepAhead, AlwaysTyped, TInvIsTypeOK, PTL DEF Spec

-----------------------------------------------------------------------------
(***************************************************************************)
(* Chains when blocks change                                               *)
(***************************************************************************)

\* Chain, for given blocks.
ChainOf(B, f) == Walks(B, f.size)[f.size][f.start] \ {NoBlock}

\* Chain is that of the blocks as they are.
LEMMA ChainIsOf ==
  ASSUME NEW f
  PROVE  Chain(f) = ChainOf(block, f)
BY ChainIs DEF ChainOf

\* A chain consists of blocks.
LEMMA ChainOfTyped ==
  ASSUME NEW B, BlocksHold(B), NEW f \in Record
  PROVE  ChainOf(B, f) \subseteq Blocks
<1>1. f.size \in Nat /\ f.size \in 0 .. f.size /\ f.start \in Ends
  BY RecordIs
<1>2. Walks(B, f.size)[f.size][f.start] \subseteq Ends
  BY <1>1, ChainTyped
<1>3. QED BY <1>2 DEF Ends, ChainOf

\* If other blocks change, the way through the blocks stays.
LEMMA SameWalks ==
  ASSUME NEW B, NEW C, BlocksHold(B), NEW s \in Nat, NEW n \in 0 .. s, NEW b \in Ends,
         \A x \in Walks(B, s)[n][b] \ {NoBlock} : C[x] = B[x]
  PROVE  Walks(C, s)[n][b] = Walks(B, s)[n][b]
<1> DEFINE g == Walks(B, s)
           h == Walks(C, s)
           Same(m, c) == (\A x \in g[m][c] \ {NoBlock} : C[x] = B[x]) => h[m][c] = g[m][c]
           Bad == {m \in 0 .. s : \E c \in Ends : ~Same(m, c)}
<1>1. ASSUME NEW m \in 0 .. s, NEW c \in Ends
      PROVE  g[m][c] = ChainAt(B, g, m, c) /\ h[m][c] = ChainAt(C, h, m, c)
             /\ c \in g[m][c]
  BY WalkUnfolds, ChainTyped
<1> HIDE DEF g, h
<1>2. Bad = {}
  <2> SUFFICES ASSUME Bad # {} PROVE FALSE
    OBVIOUS
  <2>1. PICK m \in Bad : \A k \in Bad : m <= k
    <3>1. Bad \in SUBSET Nat
      OBVIOUS
    <3> HIDE DEF Bad
    <3>2. QED BY <3>1, LeastNat
  <2>2. PICK c \in Ends : m \in 0 .. s /\ ~Same(m, c)
    OBVIOUS
  <2>3. g[m][c] = ChainAt(B, g, m, c) /\ h[m][c] = ChainAt(C, h, m, c)
        /\ c \in g[m][c]
    BY <1>1, <2>2
  <2>4. (\A x \in g[m][c] \ {NoBlock} : C[x] = B[x]) /\ h[m][c] # g[m][c]
    BY <2>2
  <2>5. c # NoBlock => C[c] = B[c]
    BY <2>3, <2>4
  <2>6. c # NoBlock /\ HasNext(m) /\ Len(B[c]) = BlockSize
    BY <2>3, <2>4, <2>5 DEF ChainAt
  <2> DEFINE k == m - DataSize
             d == B[c][BlockSize].next
  <2>7. g[m][c] = {c} \cup g[k][d] /\ h[m][c] = {c} \cup h[k][d]
    BY <2>3, <2>5, <2>6 DEF ChainAt
  <2>8. d \in Ends
    BY <2>2, <2>6, NextInEnds DEF Ends
  <2>9. k \in 0 .. s /\ ~(m <= k)
    <3>1. m \in Nat /\ m - DataSize \in 0 .. m - 1
      BY <2>2, <2>6, Sizes
    <3>2. QED BY <2>2, <3>1, Sizes
  <2>10. k \notin Bad
    <3> HIDE DEF Bad
    <3>1. QED BY <2>1, <2>9
  <2> HIDE DEF k, d
  <2>11. Same(k, d)
    BY <2>8, <2>9, <2>10
  <2>12. h[k][d] = g[k][d]
    BY <2>4, <2>7, <2>11
  <2>13. QED BY <2>4, <2>7, <2>12
<1>3. Same(n, b)
  BY <1>2
<1>4. QED BY <1>3 DEF g, h

\* A chain is the same as long as its own blocks are.
LEMMA SameChain ==
  ASSUME NEW B, NEW C, BlocksHold(B), NEW f \in Record,
         \A x \in ChainOf(B, f) : C[x] = B[x]
  PROVE  ChainOf(C, f) = ChainOf(B, f)
<1>1. f.size \in Nat /\ f.size \in 0 .. f.size /\ f.start \in Ends
  BY RecordIs
<1>2. QED BY <1>1, SameWalks DEF ChainOf

\* Blocks that are truncated end the chains that go through them.
LEMMA ShorterWalks ==
  ASSUME NEW B, NEW C, BlocksHold(B), NEW s \in Nat, NEW n \in 0 .. s, NEW b \in Ends,
         \A x \in Blocks : C[x] = B[x] \/ C[x] = <<>>
  PROVE  Walks(C, s)[n][b] \subseteq Walks(B, s)[n][b]
<1> DEFINE g == Walks(B, s)
           h == Walks(C, s)
           Bad == {m \in 0 .. s : \E c \in Ends : ~(h[m][c] \subseteq g[m][c])}
<1>1. ASSUME NEW m \in 0 .. s, NEW c \in Ends
      PROVE  g[m][c] = ChainAt(B, g, m, c) /\ h[m][c] = ChainAt(C, h, m, c)
             /\ c \in g[m][c]
  BY WalkUnfolds, ChainTyped
<1> HIDE DEF g, h
<1>2. Bad = {}
  <2> SUFFICES ASSUME Bad # {} PROVE FALSE
    OBVIOUS
  <2>1. PICK m \in Bad : \A k \in Bad : m <= k
    <3>1. Bad \in SUBSET Nat
      OBVIOUS
    <3> HIDE DEF Bad
    <3>2. QED BY <3>1, LeastNat
  <2>2. PICK c \in Ends : m \in 0 .. s /\ ~(h[m][c] \subseteq g[m][c])
    OBVIOUS
  <2>3. g[m][c] = ChainAt(B, g, m, c) /\ h[m][c] = ChainAt(C, h, m, c)
        /\ c \in g[m][c]
    BY <1>1, <2>2
  <2>4. c # NoBlock /\ HasNext(m) /\ Len(C[c]) = BlockSize
    <3> HIDE DEF Bad
    <3>1. h[m][c] # {c}
      BY <2>2, <2>3
    <3>2. QED BY <2>3, <3>1 DEF ChainAt
  <2>5. C[c] = B[c]
    <3>1. c \in Blocks
      BY <2>2, <2>4 DEF Ends
    <3>2. Len(<<>>) # BlockSize
      <4>1. Len(<<>>) = 0
        BY EmptySeq
      <4>2. QED BY <4>1, Sizes
    <3>3. QED BY <2>4, <3>1, <3>2
  <2> DEFINE k == m - DataSize
             d == B[c][BlockSize].next
  <2>6. g[m][c] = {c} \cup g[k][d] /\ h[m][c] = {c} \cup h[k][d]
    BY <2>3, <2>4, <2>5 DEF ChainAt
  <2>7. d \in Ends
    BY <2>2, <2>4, <2>5, NextInEnds DEF Ends
  <2>8. k \in 0 .. s /\ ~(m <= k)
    <3>1. m \in Nat /\ m - DataSize \in 0 .. m - 1
      BY <2>2, <2>4, Sizes
    <3>2. QED BY <2>2, <3>1, Sizes
  <2>9. k \notin Bad
    <3> HIDE DEF Bad
    <3>1. QED BY <2>1, <2>8
  <2> HIDE DEF k, d
  <2>10. h[k][d] \subseteq g[k][d]
    BY <2>7, <2>8, <2>9
  <2> HIDE DEF Bad
  <2>11. QED BY <2>2, <2>6, <2>10
<1>3. QED BY <1>2 DEF g, h

\* Truncating blocks does not lengthen a chain.
LEMMA ShorterChain ==
  ASSUME NEW B, NEW C, BlocksHold(B), NEW f \in Record,
         \A x \in Blocks : C[x] = B[x] \/ C[x] = <<>>
  PROVE  ChainOf(C, f) \subseteq ChainOf(B, f)
<1>1. f.size \in Nat /\ f.size \in 0 .. f.size /\ f.start \in Ends
  BY RecordIs
<1>2. Walks(C, f.size)[f.size][f.start] \subseteq Walks(B, f.size)[f.size][f.start]
  BY <1>1, ShorterWalks
<1>3. QED BY <1>2 DEF ChainOf

\* A reader that is not cut off gets all units of a file.
LEMMA WholeReads ==
  ASSUME NEW B, BlocksHold(B), NEW s \in Nat, NEW n \in 0 .. s, NEW b \in Ends,
         Whole(Reads(B, s)[n][b])
  PROVE  Len(Reads(B, s)[n][b]) = n
<1> DEFINE g == Reads(B, s)
           Bad == {m \in 0 .. s : \E c \in Ends : Whole(g[m][c]) /\ Len(g[m][c]) # m}
<1>1. ASSUME NEW m \in 0 .. s, NEW c \in Ends
      PROVE  g[m][c] = ReadAt(B, g, m, c) /\ g[m][c] \in Seq(Unit)
  BY ReadUnfolds, ReadTyped
<1> HIDE DEF g
<1>2. Bad = {}
  <2> SUFFICES ASSUME Bad # {} PROVE FALSE
    OBVIOUS
  <2>1. PICK m \in Bad : \A k \in Bad : m <= k
    <3>1. Bad \in SUBSET Nat
      OBVIOUS
    <3> HIDE DEF Bad
    <3>2. QED BY <3>1, LeastNat
  <2>2. PICK c \in Ends : m \in 0 .. s /\ Whole(g[m][c]) /\ Len(g[m][c]) # m
    OBVIOUS
  <2> HIDE DEF Bad
  <2>3. g[m][c] = ReadAt(B, g, m, c) /\ m \in Nat
    BY <1>1, <2>2
  <2>4. ~Whole(<<Unopened>>) /\ ~Whole(<<Undefined>>)
    BY DEF Whole
  <2>5. m # 0
    BY <2>2, <2>3, EmptySeq DEF ReadAt
  <2>6. c \in Blocks
    BY <2>2, <2>3, <2>4, <2>5 DEF ReadAt, Ends
  <2>7. B[c] \in Seq(Unit) /\ Len(B[c]) \in Nat
    BY <2>6, UnitsIn
  <2>8. c # NoBlock
    BY <2>6, BlocksAssumption DEF Blocks, NoBlock
  <2>9. CASE ~HasNext(m)
    <3>1. ~Whole(Append(B[c], Unopened))
      <4>1. /\ Len(B[c]) + 1 \in DOMAIN Append(B[c], Unopened)
            /\ Append(B[c], Unopened)[Len(B[c]) + 1] = Unopened
        <5>1. Unopened \in Unit
          BY DEF Unit
        <5>2. Append(B[c], Unopened) \in Seq(Unit)
              /\ Len(Append(B[c], Unopened)) = Len(B[c]) + 1
              /\ Append(B[c], Unopened)[Len(B[c]) + 1] = Unopened
          BY <2>7, <5>1, AppendProperties
        <5>3. DOMAIN Append(B[c], Unopened) = 1 .. Len(B[c]) + 1
          BY <5>2, LenProperties
        <5>4. Len(B[c]) + 1 \in 1 .. Len(B[c]) + 1
          BY <2>7
        <5>5. QED BY <5>2, <5>3, <5>4
      <4>2. QED BY <4>1 DEF Whole
    <3>2. Len(B[c]) >= m /\ g[m][c] = SubSeq(B[c], 1, m)
      BY <2>2, <2>3, <2>4, <2>5, <2>8, <2>9, <3>1 DEF ReadAt
    <3>3. Len(SubSeq(B[c], 1, m)) = m
      <4>1. \A x \in 1 .. m : x \in 1 .. Len(B[c])
        BY <2>3, <2>7, <3>2
      <4>2. \A x \in 1 .. m : B[c][x] \in Unit
        BY <2>7, <4>1, ElementOfSeq
      <4>3. QED BY <2>3, <4>2
    <3>4. QED BY <2>2, <3>2, <3>3
  <2>10. CASE HasNext(m)
    <3> DEFINE k == m - DataSize
               d == B[c][BlockSize].next
               u == SubSeq(B[c], 1, DataSize)
               v == g[k][d]
    <3>1. Len(B[c]) = BlockSize /\ g[m][c] = u \o v
      BY <2>2, <2>3, <2>4, <2>5, <2>8, <2>10 DEF ReadAt
    <3>2. d \in Ends
      BY <2>6, <3>1, NextInEnds
    <3>3. k \in 0 .. s /\ ~(m <= k) /\ k \in Nat /\ DataSize + k = m
      <4>1. m \in Nat /\ m - DataSize \in 0 .. m - 1
        BY <2>2, <2>10, Sizes
      <4>2. QED BY <2>2, <4>1, Sizes
    <3>4. k \notin Bad
      BY <2>1, <3>3
    <3> HIDE DEF k, d
    <3>5. v \in Seq(Unit)
      BY <1>1, <3>2, <3>3
    <3>6. u \in Seq(Unit) /\ Len(u) = DataSize
      <4>1. \A x \in 1 .. DataSize : x \in 1 .. Len(B[c])
        BY <3>1, Sizes
      <4>2. \A x \in 1 .. DataSize : B[c][x] \in Unit
        BY <2>7, <4>1, ElementOfSeq
      <4>3. DataSize \in Nat
        BY Sizes
      <4>4. QED BY <4>2, <4>3
    <3> HIDE DEF u, v
    <3>7. /\ Len(u \o v) = DataSize + Len(v)
          /\ DOMAIN (u \o v) = 1 .. DataSize + Len(v) /\ DOMAIN v = 1 .. Len(v)
          /\ \A x \in 1 .. DataSize + Len(v) :
               (u \o v)[x] = IF x <= DataSize THEN u[x] ELSE v[x - DataSize]
      <4>1. /\ u \o v \in Seq(Unit) /\ Len(u \o v) = Len(u) + Len(v)
            /\ \A x \in 1 .. Len(u) + Len(v) :
                 (u \o v)[x] = IF x <= Len(u) THEN u[x] ELSE v[x - Len(u)]
        BY <3>5, <3>6, ConcatProperties
      <4>2. DOMAIN (u \o v) = 1 .. Len(u \o v)
        BY <4>1, LenProperties
      <4>3. DOMAIN v = 1 .. Len(v)
        BY <3>5, LenProperties
      <4>4. QED BY <3>6, <4>1, <4>2, <4>3
    <3>8. Whole(v)
      <4>1. ASSUME NEW x \in DOMAIN v
            PROVE  v[x] \in {(u \o v)[y] : y \in DOMAIN (u \o v)}
        <5>1. Len(v) \in Nat /\ DataSize \in Nat
          BY <3>5, LenProperties, Sizes
        <5>2. x \in 1 .. Len(v)
          BY <3>7
        <5>3. /\ DataSize + x \in 1 .. DataSize + Len(v)
              /\ ~(DataSize + x <= DataSize) /\ (DataSize + x) - DataSize = x
          BY <5>1, <5>2
        <5>4. (u \o v)[DataSize + x] = v[x]
          BY <3>7, <5>3
        <5>5. QED BY <3>7, <5>3, <5>4
      <4>2. QED BY <2>2, <3>1, <4>1 DEF Whole
    <3>9. Len(v) = k
      BY <3>2, <3>3, <3>4, <3>8 DEF Bad, v
    <3>10. QED BY <2>2, <3>1, <3>3, <3>7, <3>9
  <2>11. QED BY <2>9, <2>10
<1>3. QED BY <1>2 DEF g

\* A file that can be read to its end has the length that the tree says.
LEMMA WholeRead ==
  ASSUME BlocksHold(block), NEW f \in Record, Whole(Read(f))
  PROVE  Len(Read(f)) = f.size
<1>1. f.size \in Nat /\ f.size \in 0 .. f.size /\ f.start \in Ends
  BY RecordIs
<1>2. QED BY <1>1, ReadIs, WholeReads

-----------------------------------------------------------------------------
(***************************************************************************)
(* Files, marked blocks and lost blocks                                    *)
(***************************************************************************)

\* Where something lies below a path, the path exists.
LEMMA AncestorExists ==
  ASSUME NEW t, IsTree(t), NEW to \in Paths, NEW x \in Nodes(t), AtOrBelow(to, x)
  PROVE  Exists(t, to)
<1> SUFFICES ASSUME ~Exists(t, to) PROVE FALSE
  OBVIOUS
<1> DEFINE Bad == {k \in Nat : \E y \in Nodes(t) : Len(y) = k /\ AtOrBelow(to, y)}
<1>1. ASSUME NEW y \in Nodes(t)
      PROVE  y \in Seq(Names) /\ Len(y) \in Nat \ {0} /\ IsDir(t, Front(y))
  <2>1. y \in Seq(Names) /\ Len(y) # 0 /\ IsDir(t, Front(y))
    BY Existing
  <2>2. Len(y) \in Nat
    BY <2>1, LenProperties
  <2>3. QED BY <2>1, <2>2
<1>2. Len(x) \in Bad
  BY <1>1
<1>3. PICK m \in Bad : \A k \in Bad : m <= k
  <2>1. Bad \in SUBSET Nat
    OBVIOUS
  <2> HIDE DEF Bad
  <2>2. QED BY <1>2, <2>1, LeastNat
<1>4. PICK y \in Nodes(t) : Len(y) = m /\ AtOrBelow(to, y)
  OBVIOUS
<1>5. to \in Seq(Names) /\ Len(to) \in Nat \ {0}
  BY PathsAreSeqs
<1>6. y # to
  BY <1>4 DEF Exists, Nodes
<1>7. Below(to, y) /\ AtOrBelow(to, Front(y)) /\ Len(Front(y)) = Len(y) - 1
      /\ Front(y) \in Seq(Names)
  BY <1>1, <1>4, <1>5, <1>6, BelowFront, FrontIs
<1>8. Front(y) # Root
  <2>1. AtOrBelow(to, Root) => Len(to) <= Len(Root)
    BY <1>5, PathsAreSeqs, PrefixIs
  <2>2. QED BY <1>5, <1>7, <2>1, PathsAreSeqs
<1>9. Front(y) \in Nodes(t)
  BY <1>1, <1>8 DEF IsDir, Nodes
<1>10. Len(Front(y)) \in Bad
  BY <1>1, <1>7, <1>9
<1>11. ~(m <= Len(Front(y)))
  BY <1>1, <1>4, <1>7
<1> HIDE DEF Bad
<1>12. QED BY <1>3, <1>10, <1>11

\* The blocks of the files S of fs, when B is in the blocks.
ChainsOf(B, fs, S) == UNION {ChainOf(B, fs[x]) : x \in S}

\* The files K of fs share no block, their blocks are marked in U, and what
\* else is marked is in L.
AgreeOn(B, fs, K, U, L) ==
  /\ \A x, y \in K : x # y => ChainOf(B, fs[x]) \cap ChainOf(B, fs[y]) = {}
  /\ ChainsOf(B, fs, K) \subseteq U
  /\ U \subseteq ChainsOf(B, fs, K) \cup L

\* The files K of fs share no block.
Apart(B, fs, K) ==
  \A x, y \in K : x # y => ChainOf(B, fs[x]) \cap ChainOf(B, fs[y]) = {}

\* Files that agree with a bitmap share no block, ...
LEMMA AgreeIsApart ==
  ASSUME NEW B, NEW fs, NEW K, NEW U, NEW L, AgreeOn(B, fs, K, U, L)
  PROVE  Apart(B, fs, K)
BY DEF AgreeOn, Apart

\* ... nor do some of them in another tree, ...
LEMMA FewerApart ==
  ASSUME NEW B, NEW fs, NEW K, Apart(B, fs, K), NEW gs, NEW J, J \subseteq K,
         \A x \in J : gs[x] = fs[x]
  PROVE  Apart(B, gs, J)
<1> SUFFICES ASSUME NEW x \in J, NEW y \in J, x # y
             PROVE  ChainOf(B, gs[x]) \cap ChainOf(B, gs[y]) = {}
  BY DEF Apart
<1>1. x \in K /\ y \in K /\ gs[x] = fs[x] /\ gs[y] = fs[y]
  OBVIOUS
<1>2. QED BY <1>1 DEF Apart

\* ... nor when blocks are truncated.
LEMMA TruncatedApart ==
  ASSUME NEW B, NEW C, BlocksHold(B), NEW t, IsTree(t),
         Apart(B, t.files, DOMAIN t.files),
         \A b \in Blocks : C[b] = B[b] \/ C[b] = <<>>
  PROVE  Apart(C, t.files, DOMAIN t.files)
<1>1. ASSUME NEW x \in DOMAIN t.files
      PROVE  ChainOf(C, t.files[x]) \subseteq ChainOf(B, t.files[x])
  BY FileIsRecord, ShorterChain
<1>2. ASSUME NEW x \in DOMAIN t.files, NEW y \in DOMAIN t.files, x # y
      PROVE  ChainOf(C, t.files[x]) \cap ChainOf(C, t.files[y]) = {}
  <2>1. ChainOf(B, t.files[x]) \cap ChainOf(B, t.files[y]) = {}
    BY <1>2 DEF Apart
  <2>2. QED BY <1>1, <2>1
<1>3. QED BY <1>2 DEF Apart

\* Chains are those of the blocks as they are.
LEMMA ChainsAreOf ==
  ASSUME NEW t, NEW S
  PROVE  Chains(t, S) = ChainsOf(block, t.files, S)
BY ChainIsOf DEF Chains, ChainsOf

\* Blocks that are not marked may change.
LEMMA StillAgree ==
  ASSUME NEW B, NEW C, BlocksHold(B), NEW t, IsTree(t),
         NEW K \in SUBSET DOMAIN t.files, NEW U, NEW L,
         AgreeOn(B, t.files, K, U, L), \A b \in U : C[b] = B[b]
  PROVE  /\ \A x \in K : ChainOf(C, t.files[x]) = ChainOf(B, t.files[x])
         /\ AgreeOn(C, t.files, K, U, L)
<1>1. ASSUME NEW x \in K
      PROVE  ChainOf(C, t.files[x]) = ChainOf(B, t.files[x])
  <2>1. t.files[x] \in Record
    BY FileIsRecord
  <2>2. ChainOf(B, t.files[x]) \subseteq U
    BY DEF AgreeOn, ChainsOf
  <2>3. QED BY <2>1, <2>2, SameChain
<1>2. ChainsOf(C, t.files, K) = ChainsOf(B, t.files, K)
  BY <1>1 DEF ChainsOf
<1>3. QED BY <1>1, <1>2 DEF AgreeOn

\* Truncated blocks are in no chain any more.
LEMMA TruncatedAgree ==
  ASSUME NEW B, NEW C, BlocksHold(B), NEW t, IsTree(t), NEW U, NEW L,
         AgreeOn(B, t.files, DOMAIN t.files, U, L),
         \A b \in Blocks : C[b] = B[b] \/ C[b] = <<>>
  PROVE  AgreeOn(C, t.files, DOMAIN t.files, U, U)
<1>1. ASSUME NEW x \in DOMAIN t.files
      PROVE  ChainOf(C, t.files[x]) \subseteq ChainOf(B, t.files[x])
  BY FileIsRecord, ShorterChain
<1>2. ChainsOf(C, t.files, DOMAIN t.files) \subseteq ChainsOf(B, t.files, DOMAIN t.files)
  BY <1>1 DEF ChainsOf
<1>3. ASSUME NEW x \in DOMAIN t.files, NEW y \in DOMAIN t.files, x # y
      PROVE  ChainOf(C, t.files[x]) \cap ChainOf(C, t.files[y]) = {}
  <2>1. ChainOf(B, t.files[x]) \cap ChainOf(B, t.files[y]) = {}
    BY <1>3 DEF AgreeOn
  <2>2. QED BY <1>1, <2>1
<1>4. QED BY <1>2, <1>3 DEF AgreeOn

\* Fewer files: the blocks of the others are lost, or marked as free.
LEMMA FewerAgree ==
  ASSUME NEW B, NEW fs, NEW K, NEW J, NEW U, NEW L, AgreeOn(B, fs, K, U, L),
         J \subseteq K
  PROVE  /\ AgreeOn(B, fs, K \ J, U, L \cup ChainsOf(B, fs, J))
         /\ AgreeOn(B, fs, K \ J, U \ ChainsOf(B, fs, J), L)
<1>1. ChainsOf(B, fs, K) = ChainsOf(B, fs, K \ J) \cup ChainsOf(B, fs, J)
  BY DEF ChainsOf
<1>2. ChainsOf(B, fs, K \ J) \cap ChainsOf(B, fs, J) = {}
  BY DEF ChainsOf, AgreeOn
<1>3. QED BY <1>1, <1>2 DEF AgreeOn

\* Files under other names.
LEMMA RenamedAgree ==
  ASSUME NEW B, NEW fs, NEW K, NEW gs, NEW J, NEW U, NEW L,
         AgreeOn(B, fs, K, U, L), NEW r \in [J -> K],
         \A y \in J : gs[y] = fs[r[y]],
         \A x, y \in J : r[x] = r[y] => x = y,
         \A x \in K : \E y \in J : r[y] = x
  PROVE  AgreeOn(B, gs, J, U, L)
<1>1. ChainsOf(B, gs, J) = ChainsOf(B, fs, K)
  <2>1. ASSUME NEW b, b \in ChainsOf(B, gs, J)
        PROVE  b \in ChainsOf(B, fs, K)
    BY <2>1 DEF ChainsOf
  <2>2. ASSUME NEW b, b \in ChainsOf(B, fs, K)
        PROVE  b \in ChainsOf(B, gs, J)
    BY <2>2 DEF ChainsOf
  <2>3. QED BY <2>1, <2>2
<1>2. ASSUME NEW x \in J, NEW y \in J, x # y
      PROVE  ChainOf(B, gs[x]) \cap ChainOf(B, gs[y]) = {}
  <2>1. r[x] \in K /\ r[y] \in K /\ r[x] # r[y]
    BY <1>2
  <2>2. QED BY <2>1 DEF AgreeOn
<1>3. QED BY <1>1, <1>2 DEF AgreeOn

\* A tree whose files are the same.
LEMMA SameFilesAgree ==
  ASSUME NEW B, NEW fs, NEW gs, NEW K, NEW U, NEW L, AgreeOn(B, fs, K, U, L),
         \A x \in K : gs[x] = fs[x]
  PROVE  AgreeOn(B, gs, K, U, L)
<1>1. ChainsOf(B, gs, K) = ChainsOf(B, fs, K)
  BY DEF ChainsOf
<1>2. QED BY <1>1 DEF AgreeOn

\* A file that was written to blocks that were not marked.
LEMMA OneMoreAgrees ==
  ASSUME NEW B, NEW fs, NEW K, NEW U, NEW L, NEW P, NEW x, NEW gs, NEW V,
         AgreeOn(B, fs, K \ {x}, U, L), \A y \in K \ {x} : gs[y] = fs[y],
         ChainOf(B, gs[x]) = P, P \cap ChainsOf(B, fs, K \ {x}) = {},
         V \subseteq U \cup P, U \subseteq V, P \subseteq V
  PROVE  AgreeOn(B, gs, K \cup {x}, V, L)
<1> DEFINE J == K \ {x}
<1>1. ChainsOf(B, gs, K \cup {x}) = ChainsOf(B, gs, J) \cup P
  BY DEF ChainsOf
<1>2. AgreeOn(B, gs, J, U, L) /\ ChainsOf(B, gs, J) = ChainsOf(B, fs, J)
  <2>1. ChainsOf(B, gs, J) = ChainsOf(B, fs, J)
    BY DEF ChainsOf
  <2>2. QED BY <2>1, SameFilesAgree
<1>3. ASSUME NEW y \in K \cup {x}, NEW z \in K \cup {x}, y # z
      PROVE  ChainOf(B, gs[y]) \cap ChainOf(B, gs[z]) = {}
  <2>1. CASE y # x /\ z # x
    BY <1>2, <1>3, <2>1 DEF AgreeOn
  <2>2. ASSUME NEW w \in J
        PROVE  ChainOf(B, gs[w]) \cap P = {}
    BY <1>2 DEF ChainsOf
  <2>3. QED BY <1>3, <2>1, <2>2
<1>4. QED BY <1>1, <1>2, <1>3 DEF AgreeOn

-----------------------------------------------------------------------------
(***************************************************************************)
(* The bitmap agrees with the tree                                         *)
(***************************************************************************)

\* Whether the reader, n units from the end of a file, looks for the link to a
\* next block exactly where the writer has put one.
TailFits(n) == \A k \in Nat \ {0} : n # k * DataSize + 1

\* No file is empty, and none ends within the link.
TailsFit == \A n \in HostSizes : n # 0 /\ TailFits(n)

\* The tree s is a part of t.
IsPart(s, t) ==
  /\ s.dirs \subseteq t.dirs
  /\ DOMAIN s.files \subseteq DOMAIN t.files
  /\ \A x \in DOMAIN s.files : s.files[x] = t.files[x]

\* Of a file that is being written to blocks A, with P written so far: whatever
\* comes into the other blocks, its chain goes through P, and on from cur.
WrittenAs(A, file, P) ==
  \A B : (\A b \in P : B[b] = A[b]) =>
    Walks(B, file.size)[file.size][file.start] =
      P \cup (IF Len(file.rest) = 0 THEN {}
              ELSE Walks(B, file.size)[Len(file.rest)][file.cur])

\* The bitmap agrees with the tree; while a file is written, it does so for the
\* others, and the rest of what is marked is the file's.
BlocksIn(A, root, file, bitmap, L) ==
  /\ file = NoFile => AgreeOn(A, root.files, DOMAIN root.files, bitmap, L)
  /\ file # NoFile /\ file.whole =>
       /\ Len(file.rest) <= file.size /\ TailFits(Len(file.rest))
       /\ \E P \in SUBSET bitmap :
            /\ AgreeOn(A, root.files, DOMAIN root.files \ {file.to}, bitmap \ P, L)
            /\ WrittenAs(A, file, P)

\* The files that are written are none of those that are there, nor lies
\* anything where the subdirectories will come.
QueueIn(root, file, jobs, dirs) ==
  /\ \A j, k \in jobs : j.to = k.to => j = k
  /\ \A j \in jobs : j.to \notin DOMAIN root.files \cup {file.to}
  /\ dirs # <<>> =>
       \A x \in DOMAIN root.files \cup {j.to : j \in jobs} \cup ({file.to} \ {Root}) :
         ~Below(dirs[2], Front(x))

\* The invariant: the disk agrees until metadata is written, but for a tree that a
\* kill has left newer than the bitmap, ...
DiskAgrees ==
  pc \in {"idle", "formatting", "writing", "commit"} /\ metadata # Torn /\ used # Torn =>
    /\ Apart(block, metadata.files, DOMAIN metadata.files)
    /\ ahead = "none" =>
         AgreeOn(block, metadata.files, DOMAIN metadata.files, used, lost)

\* ... a process starts with nothing in memory, ...
FreshInv ==
  pc \in {"idle", "formatting"} =>
    /\ m_root = EmptyTree /\ losing = {}
    /\ m_bitmap = IF formatted THEN {} ELSE Torn

\* ... what is in memory agrees while blocks are written ...
WriteAgrees ==
  pc = "writing" =>
    /\ formatted /\ metadata # Torn /\ used # Torn /\ ahead = "none"
    /\ QueueIn(m_root, out, queue, below)
    /\ BlocksIn(block, m_root, out, m_bitmap, losing)

\* ... and when it is written back, ...
CommitAgrees ==
  pc \in {"commit", "metadata", "between", "bitmap"} =>
    /\ m_bitmap = Torn <=> ~formatted
    /\ formatted => AgreeOn(block, m_root.files, DOMAIN m_root.files, m_bitmap, losing)

\* ... and the disk shows how far that has come.
ShownInv ==
  /\ pc = "commit" => ahead = "none" \/ m_root = EmptyTree
  /\ pc = "metadata" => \/ metadata = Torn /\ ahead = "none"
                        \/ ahead = "part" /\ IsPart(metadata, ToWrite)
  /\ pc = "between" => metadata = ToWrite /\ ahead = "all"
  /\ pc = "bitmap" => metadata = ToWrite /\ ahead = "none" /\ used = Torn

BInv == DiskAgrees /\ FreshInv /\ WriteAgrees /\ CommitAgrees /\ ShownInv

\* Between commands the invariant says that the bitmap agrees with the tree.
LEMMA BInvIsBlocksAgree == BInv => BlocksAgree
<1> DEFINE fs == metadata.files
           blocks == Chains(metadata, DOMAIN fs)
<1> SUFFICES ASSUME BInv, pc = "idle" /\ metadata # Torn /\ used # Torn
             PROVE  /\ \A p, q \in DOMAIN fs :
                         p # q => Chain(fs[p]) \cap Chain(fs[q]) = {}
                    /\ ahead = "none" =>
                         blocks \subseteq used /\ used \subseteq blocks \cup lost
  BY DEF BlocksAgree
<1>1. /\ Apart(block, fs, DOMAIN fs)
      /\ ahead = "none" => AgreeOn(block, fs, DOMAIN fs, used, lost)
  BY DEF BInv, DiskAgrees
<1>2. \A p \in DOMAIN fs : Chain(fs[p]) = ChainOf(block, fs[p])
  BY ChainIsOf
<1>3. blocks = ChainsOf(block, fs, DOMAIN fs)
  BY ChainsAreOf
<1>4. \A p, q \in DOMAIN fs : p # q => Chain(fs[p]) \cap Chain(fs[q]) = {}
  BY <1>1, <1>2 DEF Apart
<1> HIDE DEF fs, blocks
<1>5. QED BY <1>1, <1>3, <1>4 DEF AgreeOn

\* Nothing is claimed before a file system has been made.
LEMMA InitAgrees == Init => BInv
BY DEF Init, BInv, DiskAgrees, FreshInv, WriteAgrees, CommitAgrees, ShownInv

\* The tree and the bitmap that a command works on.
LEMMA TreeAgrees ==
  ASSUME ~StaleMounts, BInv, TInv, Mounts
  PROVE  /\ pc = "idle" /\ ahead = "none" /\ IsTree(Tree) /\ BlocksHold(block)
         /\ metadata = Torn => Bitmap = Torn /\ Tree = EmptyTree
         /\ metadata # Torn =>
              /\ used # Torn /\ Bitmap = used /\ Tree = metadata
              /\ AgreeOn(block, Tree.files, DOMAIN Tree.files, Bitmap, lost)
BY TreeIs DEF Mounts, Tree, Bitmap, BInv, DiskAgrees, TInv, HeldInv

\* A command that has a tree and a bitmap that agree goes to its destructor.
LEMMA CommitAgree ==
  ASSUME BInv, pc = "idle", ahead = "none", NEW root, NEW bitmap,
         Commit(root, bitmap), bitmap = Torn <=> metadata = Torn,
         metadata # Torn => AgreeOn(block, root.files, DOMAIN root.files, bitmap, losing')
  PROVE  BInv'
<1>1. /\ metadata' = metadata /\ ahead' = ahead /\ used' = used /\ block' = block
      /\ lost' = lost /\ m_root' = root /\ m_bitmap' = bitmap /\ pc' = "commit"
      /\ formatted' = (metadata # Torn)
  BY DEF Commit, disk, index
<1>2. CommitAgrees'
  BY <1>1 DEF CommitAgrees
<1>3. DiskAgrees'
  BY <1>1 DEF BInv, DiskAgrees
<1>4. QED
  BY <1>1, <1>2, <1>3 DEF BInv, FreshInv, WriteAgrees, ShownInv

\* A command begins to write.
LEMMA WriteAgree ==
  ASSUME BInv, pc = "idle", metadata # Torn, used # Torn, ahead = "none",
         NEW root, NEW first, NEW later, NEW subdirs,
         Write(root, first, later, subdirs),
         QueueIn(root, first, later, subdirs),
         BlocksIn(block, root, first, Bitmap, losing')
  PROVE  BInv'
<1>1. /\ metadata' = metadata /\ ahead' = ahead /\ used' = used /\ block' = block
      /\ lost' = lost /\ m_root' = root /\ m_bitmap' = Bitmap /\ pc' = "writing"
      /\ formatted' = TRUE
      /\ out' = first /\ queue' = later /\ below' = subdirs
  BY DEF Write, disk, index
<1>2. WriteAgrees'
  BY <1>1 DEF WriteAgrees
<1>3. DiskAgrees'
  BY <1>1 DEF BInv, DiskAgrees
<1>4. QED
  BY <1>1, <1>2, <1>3 DEF BInv, FreshInv, CommitAgrees, ShownInv

\* A file of n units is opened.
LEMMA OpenAgrees ==
  ASSUME TailsFit, NEW A, NEW root, NEW to \in Paths, NEW n \in HostSizes, NEW c,
         NEW bitmap, NEW L, Whole(c) => Len(c) = n,
         AgreeOn(A, root.files, DOMAIN root.files \ {to}, bitmap, L)
  PROVE  BlocksIn(A, root, Open(to, n, c, bitmap), bitmap, L)
<1> DEFINE f == Open(to, n, c, bitmap)
<1>1. /\ f.to = to /\ f.size = n /\ f.start = f.cur /\ f.whole = Whole(c)
      /\ Whole(c) => f.rest = c
  BY DEF Open
<1> HIDE DEF f
<1>2. f # NoFile
  BY <1>1, PathsAreSeqs DEF NoFile
<1>3. ASSUME f.whole
      PROVE  /\ Len(f.rest) <= f.size /\ TailFits(Len(f.rest))
             /\ AgreeOn(A, root.files, DOMAIN root.files \ {f.to}, bitmap \ {}, L)
             /\ WrittenAs(A, f, {})
  <2>1. Len(f.rest) = n
    BY <1>1, <1>3
  <2>2. n \in Nat /\ n # 0 /\ TailFits(n)
    BY HostSizesAssumption DEF TailsFit
  <2>3. n <= n
    BY <2>2
  <2>4. bitmap \ {} = bitmap
    OBVIOUS
  <2>5. WrittenAs(A, f, {})
    BY <1>1, <2>1, <2>2 DEF WrittenAs
  <2>6. QED BY <1>1, <2>1, <2>2, <2>3, <2>4, <2>5
<1>4. {} \in SUBSET bitmap
  OBVIOUS
<1>5. BlocksIn(A, root, f, bitmap, L)
  BY <1>2, <1>3, <1>4 DEF BlocksIn
<1>6. QED BY <1>5 DEF f

\* The files that are not removed.
LEMMA FilesLeft ==
  ASSUME NEW fs, NEW J
  PROVE  LET gs == Restrict(fs, DOMAIN fs \ J)
         IN DOMAIN gs = DOMAIN fs \ J /\ \A x \in DOMAIN gs : gs[x] = fs[x]
BY DEF Restrict

\* mkdir: the blocks of the files that it replaces are lost.
LEMMA MadeAgrees ==
  ASSUME ~StaleMounts, BInv, TInv, NEW p \in Paths, Mkdir(p)
  PROVE  BInv'
<1> DEFINE J == {x \in DOMAIN Tree.files : Below(p, x)}
           gs == Made(Tree, p).files
<1>1. Mounts /\ Commit(Made(Tree, p), Bitmap) /\ losing' = lost \cup Chains(Tree, J)
  BY DEF Mkdir
<1>2. DOMAIN gs = DOMAIN Tree.files \ J /\ \A x \in DOMAIN gs : gs[x] = Tree.files[x]
  BY DEF Made, Restrict
<1> HIDE DEF gs
<1>3. ASSUME metadata # Torn
      PROVE  AgreeOn(block, gs, DOMAIN gs, Bitmap, losing')
  <2>1. AgreeOn(block, Tree.files, DOMAIN Tree.files, Bitmap, lost)
    BY <1>1, <1>3, TreeAgrees
  <2>2. J \subseteq DOMAIN Tree.files
    OBVIOUS
  <2> HIDE DEF J
  <2>3. AgreeOn(block, Tree.files, DOMAIN Tree.files \ J, Bitmap,
                lost \cup ChainsOf(block, Tree.files, J))
    BY <2>1, <2>2, FewerAgree
  <2>4. losing' = lost \cup ChainsOf(block, Tree.files, J)
    BY <1>1, ChainsAreOf
  <2>5. AgreeOn(block, Tree.files, DOMAIN gs, Bitmap, losing')
    BY <1>2, <2>3, <2>4
  <2>6. QED BY <1>2, <2>5, SameFilesAgree
<1>4. QED BY <1>1, <1>3, TreeAgrees, CommitAgree DEF gs

\* rm: the blocks of the files are marked as free.
LEMMA RemovedAgrees ==
  ASSUME ~StaleMounts, IInv, BInv, TInv, NEW p \in Paths \cup {Root}, Rm(p)
  PROVE  BInv'
<1>1. Mounts
  BY DEF Rm
<1>2. ASSUME NEW ds, NEW J, Drop(ds, J), J \subseteq DOMAIN Tree.files
      PROVE  BInv'
  <2> DEFINE gs == Restrict(Tree.files, DOMAIN Tree.files \ J)
             root == [dirs |-> Tree.dirs \ ds, files |-> gs]
             bitmap == IF Bitmap = Torn THEN Torn ELSE Bitmap \ Freed(J)
  <2>1. Commit(root, bitmap) /\ losing' = lost
    BY <1>2 DEF Drop
  <2>2. DOMAIN gs = DOMAIN Tree.files \ J /\ \A x \in DOMAIN gs : gs[x] = Tree.files[x]
    BY FilesLeft
  <2>3. root.files = gs
    OBVIOUS
  <2> HIDE DEF gs, root
  <2>4. ASSUME metadata # Torn
        PROVE  AgreeOn(block, gs, DOMAIN gs, bitmap, lost)
    <3>1. AgreeOn(block, Tree.files, DOMAIN Tree.files, Bitmap, lost)
      BY <1>1, <2>4, TreeAgrees
    <3>2. AgreeOn(block, Tree.files, DOMAIN Tree.files \ J,
                  Bitmap \ ChainsOf(block, Tree.files, J), lost)
      BY <1>2, <3>1, FewerAgree
    <3>3. Bitmap # Torn
      BY <1>1, <2>4, TreeAgrees
    <3>4. bitmap = Bitmap \ ChainsOf(block, Tree.files, J)
      BY <3>3, ChainsAreOf DEF Freed
    <3>5. AgreeOn(block, Tree.files, DOMAIN gs, bitmap, lost)
      BY <2>2, <3>2, <3>4
    <3>6. QED BY <2>2, <3>5, SameFilesAgree
  <2>5. bitmap = Torn <=> metadata = Torn
    <3>1. CASE metadata = Torn
      BY <1>1, <3>1, TreeAgrees
    <3>2. CASE metadata # Torn
      <4>1. Bitmap \in SUBSET Blocks /\ Bitmap # Torn
        BY <1>1, <3>2, TreeAgrees DEF IInv, UsedInv
      <4>2. QED BY <3>2, <4>1, TornAssumption
    <3>3. QED BY <3>1, <3>2
  <2> HIDE DEF bitmap
  <2>6. QED BY <1>1, <2>1, <2>3, <2>4, <2>5, TreeAgrees, CommitAgree
<1>3. PICK ds, J : Drop(ds, J) /\ J \subseteq DOMAIN Tree.files
  <2>1. Subtree(Tree, p).files \subseteq DOMAIN Tree.files
    BY DEF Subtree
  <2>2. QED BY <2>1 DEF Rm
<1>4. QED BY <1>2, <1>3

\* Files that are moved to where nothing is keep their blocks.
LEMMA MovedFilesAgree ==
  ASSUME NEW t, IsTree(t), NEW p \in Paths, NEW to \in Paths, ~Exists(t, to),
         NEW s, s.files \subseteq DOMAIN t.files,
         \A x \in s.files : AtOrBelow(p, x),
         NEW B, NEW U, NEW L, AgreeOn(B, t.files, DOMAIN t.files, U, L)
  PROVE  LET gs == Moved(t, p, to, s).files
         IN AgreeOn(B, gs, DOMAIN gs, U, L)
<1> DEFINE gs == Moved(t, p, to, s).files
           stay == DOMAIN t.files \ s.files
           go == {Onto(p, to, x) : x \in s.files}
           r == [y \in DOMAIN gs |-> IF y \in stay THEN y ELSE Onto(to, p, y)]
<1>1. /\ DOMAIN gs = stay \cup go
      /\ \A y \in DOMAIN gs : gs[y] = IF y \in stay THEN t.files[y]
                                       ELSE t.files[Onto(to, p, y)]
  BY DEF Moved
<1> HIDE DEF gs
<1>2. p \in Seq(Names) /\ to \in Seq(Names)
  BY PathsAreSeqs
<1>3. ASSUME NEW x \in s.files
      PROVE  /\ Onto(to, p, Onto(p, to, x)) = x /\ AtOrBelow(to, Onto(p, to, x))
             /\ Onto(p, to, x) \notin stay
  <2>1. x \in Seq(Names) /\ AtOrBelow(p, x)
    BY Existing DEF Nodes
  <2>2. Onto(to, p, Onto(p, to, x)) = x /\ AtOrBelow(to, Onto(p, to, x))
    BY <1>2, <2>1, OntoBack
  <2>3. Onto(p, to, x) \notin stay
    BY <2>2, AncestorExists DEF Nodes
  <2>4. QED BY <2>2, <2>3
<1>4. ASSUME NEW y \in DOMAIN gs
      PROVE  /\ r[y] \in DOMAIN t.files /\ gs[y] = t.files[r[y]]
             /\ y \in stay => r[y] = y
             /\ y \notin stay => r[y] \in s.files /\ y = Onto(p, to, r[y])
  <2>1. CASE y \in stay
    BY <1>1, <2>1
  <2>2. CASE y \notin stay
    <3>1. PICK x \in s.files : y = Onto(p, to, x)
      BY <1>1, <2>2
    <3>2. r[y] = x
      BY <1>3, <2>2, <3>1
    <3>3. QED BY <1>1, <2>2, <3>1, <3>2
  <2>3. QED BY <2>1, <2>2
<1>5. r \in [DOMAIN gs -> DOMAIN t.files]
  BY <1>4
<1>6. \A x \in DOMAIN t.files : \E y \in DOMAIN gs : r[y] = x
  <2>1. ASSUME NEW x \in stay
        PROVE  x \in DOMAIN gs /\ r[x] = x
    BY <1>1
  <2>2. ASSUME NEW x \in s.files
        PROVE  Onto(p, to, x) \in DOMAIN gs /\ r[Onto(p, to, x)] = x
    BY <1>1, <1>3
  <2>3. QED BY <2>1, <2>2
<1> HIDE DEF r, stay
<1>7. ASSUME NEW x \in DOMAIN gs, NEW y \in DOMAIN gs, r[x] = r[y]
      PROVE  x = y
  <2>1. \A z \in DOMAIN t.files : z \in stay <=> z \notin s.files
    BY DEF stay
  <2>2. QED BY <1>4, <1>7, <2>1
<1>8. AgreeOn(B, gs, DOMAIN gs, U, L)
  BY <1>4, <1>5, <1>6, <1>7, RenamedAgree
<1>9. QED BY <1>8 DEF gs

\* move.
LEMMA MovedAgrees ==
  ASSUME ~StaleMounts, BInv, TInv, NEW p \in Paths, NEW q \in Paths, MoveDir(p,
         q) \/ MoveFile(p, q)
  PROVE  BInv'
<1> DEFINE to == Destination(p, q)
<1>1. PICK s : /\ MayGo(p, q) /\ Commit(Moved(Tree, p, to, s), Bitmap) /\ losing' = lost
               /\ s.files \subseteq DOMAIN Tree.files
               /\ \A x \in s.files : AtOrBelow(p, x)
  <2>1. CASE MoveDir(p, q)
    <3>1. /\ Subtree(Tree, p).files \subseteq DOMAIN Tree.files
          /\ \A x \in Subtree(Tree, p).files : AtOrBelow(p, x)
      BY DEF Subtree, Below, AtOrBelow, IsStrictPrefix
    <3>2. QED BY <2>1, <3>1 DEF MoveDir
  <2>2. CASE MoveFile(p, q)
    <3> DEFINE s == [dirs |-> {}, files |-> {p}]
    <3>1. s.files = {p}
      OBVIOUS
    <3>2. AtOrBelow(p, p)
      <4>1. p \in Seq(Names) /\ Len(p) \in Nat
        BY PathsAreSeqs
      <4>2. Len(p) <= Len(p)
        BY <4>1
      <4>3. QED BY <4>1, <4>2, PrefixIs
    <3>3. /\ MayGo(p, q) /\ Commit(Moved(Tree, p, to, s), Bitmap) /\ losing' = lost
          /\ p \in DOMAIN Tree.files
      BY <2>2 DEF MoveFile, MayGo, Exists
    <3> HIDE DEF s, to
    <3>4. QED BY <3>1, <3>2, <3>3
  <2>3. QED BY <2>1, <2>2
<1>2. Mounts /\ to \in Paths /\ ~Exists(Tree, to)
  BY <1>1, DestinationIs DEF MayGo
<1> HIDE DEF to
<1> DEFINE gs == Moved(Tree, p, to, s).files
<1>3. ASSUME metadata # Torn
      PROVE  AgreeOn(block, gs, DOMAIN gs, Bitmap, losing')
  <2>1. AgreeOn(block, Tree.files, DOMAIN Tree.files, Bitmap, lost) /\ IsTree(Tree)
    BY <1>2, <1>3, TreeAgrees
  <2>2. QED BY <1>1, <1>2, <2>1, MovedFilesAgree
<1>4. QED BY <1>1, <1>2, <1>3, TreeAgrees, CommitAgree

\* import: the blocks of the file that it replaces are lost.
LEMMA ImportAgrees ==
  ASSUME TailsFit, ~StaleMounts, IInv, BInv, TInv, NEW p \in Paths,
         NEW n \in HostSizes, Import(p, n)
  PROVE  BInv'
<1> DEFINE J == {p} \cap DOMAIN Tree.files
           f == Open(p, n, Content(n), Bitmap)
<1>1. /\ Mounts /\ NextFree(Bitmap) # NoBlock /\ Write(Tree, f, {}, <<>>)
      /\ losing' = lost \cup Chains(Tree, J)
  BY DEF Import
<1>2. metadata # Torn /\ used # Torn
  BY <1>1, BitmapWithRoom
<1>3. AgreeOn(block, Tree.files, DOMAIN Tree.files, Bitmap, lost) /\ pc = "idle"
  BY <1>1, <1>2, TreeAgrees
<1>4. AgreeOn(block, Tree.files, DOMAIN Tree.files \ {p}, Bitmap, losing')
  <2>1. J \subseteq DOMAIN Tree.files /\ DOMAIN Tree.files \ J = DOMAIN Tree.files \ {p}
    OBVIOUS
  <2>2. losing' = lost \cup ChainsOf(block, Tree.files, J)
    BY <1>1, ChainsAreOf
  <2> HIDE DEF J
  <2>3. AgreeOn(block, Tree.files, DOMAIN Tree.files \ J, Bitmap,
                lost \cup ChainsOf(block, Tree.files, J))
    BY <1>3, <2>1, FewerAgree
  <2>4. QED BY <2>1, <2>2, <2>3
<1>5. BlocksIn(block, Tree, f, Bitmap, losing')
  BY <1>4, ContentTyped, OpenAgrees
<1>6. QueueIn(Tree, f, {}, <<>>)
  BY DEF QueueIn
<1> HIDE DEF f
<1>7. QED BY <1>1, <1>2, <1>3, <1>5, <1>6, TreeAgrees, WriteAgree

\* copy of a file.
LEMMA CopyFileAgrees ==
  ASSUME TailsFit, ~StaleMounts, IInv, BInv, TInv, NEW p \in Paths,
         NEW q \in Paths, CopyFile(p, q)
  PROVE  BInv'
<1> DEFINE to == Destination(p, q)
           g == Tree.files[p]
           f == Open(to, g.size, Read(g), Bitmap)
<1>1. /\ Mounts /\ MayGo(p, q) /\ NextFree(Bitmap) # NoBlock /\ Write(Tree, f, {}, <<>>)
      /\ p \in DOMAIN Tree.files /\ losing' = lost
  BY DEF CopyFile, MayGo, Exists
<1>2. metadata # Torn /\ used # Torn
  BY <1>1, BitmapWithRoom
<1>3. /\ AgreeOn(block, Tree.files, DOMAIN Tree.files, Bitmap, lost) /\ pc = "idle"
      /\ IsTree(Tree) /\ BlocksHold(block)
  BY <1>1, <1>2, TreeAgrees
<1>4. g \in Record /\ to \in Paths /\ ~Exists(Tree, to)
  BY <1>1, <1>3, FileIsRecord, DestinationIs
<1>5. g.size \in HostSizes /\ (Whole(Read(g)) => Len(Read(g)) = g.size)
  BY <1>3, <1>4, RecordIs, WholeRead
<1>6. DOMAIN Tree.files \ {to} = DOMAIN Tree.files
  BY <1>4 DEF Exists
<1> HIDE DEF to, g
<1>7. BlocksIn(block, Tree, f, Bitmap, losing')
  BY <1>1, <1>3, <1>4, <1>5, <1>6, OpenAgrees
<1>8. QueueIn(Tree, f, {}, <<>>)
  BY DEF QueueIn
<1> HIDE DEF f
<1>9. QED BY <1>1, <1>2, <1>3, <1>7, <1>8, TreeAgrees, WriteAgree

\* copy of a directory.
LEMMA CopyDirAgrees ==
  ASSUME ~StaleMounts, BInv, TInv, NEW p \in Paths, NEW q \in Paths, CopyDir(p, q)
  PROVE  BInv'
<1> DEFINE to == Destination(p, q)
           root == WithDirs(Tree, {to})
           F == FilesIn(Tree, p)
           jobs == Jobs(Tree, p, to, F)
           d == <<p, to>>
<1>1. /\ Mounts /\ MayGo(p, q) /\ p \in Tree.dirs /\ losing' = lost
      /\ Write(root, NoFile, jobs, d)
      /\ Fits(p, to, Subtree(Tree, p).dirs \cup Subtree(Tree, p).files)
  BY DEF CopyDir, MayGo, Fits
<1>2. metadata # Torn
  BY <1>1, TreeAgrees DEF EmptyTree
<1>3. /\ AgreeOn(block, Tree.files, DOMAIN Tree.files, Bitmap, lost)
      /\ pc = "idle" /\ IsTree(Tree) /\ used # Torn
  BY <1>1, <1>2, TreeAgrees
<1>4. to \in Paths /\ ~Exists(Tree, to)
  BY <1>1, DestinationIs
<1>5. root.files = Tree.files
  BY DEF WithDirs
<1>6. d[2] = to /\ NoFile.to = Root
  BY DEF NoFile
<1> HIDE DEF to, root, d, F
<1>7. ASSUME NEW x \in F
      PROVE  /\ Onto(p, to, x) \in Paths /\ AtOrBelow(to, Onto(p, to, x))
             /\ Front(Onto(p, to, x)) = to /\ Onto(to, p, Onto(p, to, x)) = x
  <2>1. /\ AtOrBelow(to, Onto(p, to, x)) /\ Onto(to, p, Onto(p, to, x)) = x
        /\ Front(Onto(p, to, x)) = to /\ Below(p, x) /\ x \in DOMAIN Tree.files
    BY <1>3, <1>4, CopiedFile DEF F
  <2>2. x \in Subtree(Tree, p).files
    BY <2>1 DEF Subtree
  <2>3. QED BY <1>1, <2>1, <2>2 DEF Fits
<1>8. ASSUME NEW x \in DOMAIN Tree.files
      PROVE  ~AtOrBelow(to, x) /\ ~Below(to, Front(x))
  <2>1. x \in Nodes(Tree)
    BY DEF Nodes
  <2>2. x \in Seq(Names) /\ Len(x) # 0 /\ to \in Seq(Names)
    BY <1>3, <1>4, <2>1, Existing, PathsAreSeqs
  <2>3. ~AtOrBelow(to, x)
    BY <1>3, <1>4, <2>1, AncestorExists
  <2>4. Below(to, Front(x)) => AtOrBelow(to, Front(x))
    BY DEF Below, AtOrBelow, IsStrictPrefix
  <2>5. QED BY <2>2, <2>3, <2>4, BelowFront
<1>9. ASSUME NEW j \in jobs
      PROVE  \E x \in F : /\ j = [from |-> Tree.files[x], to |-> Onto(p, to, x)]
                          /\ j.to = Onto(p, to, x)
  BY DEF Jobs
<1> HIDE DEF jobs
<1>10. ASSUME NEW j \in jobs, NEW k \in jobs, j.to = k.to
       PROVE  j = k
  BY <1>7, <1>9, <1>10
<1>11. ASSUME NEW j \in jobs
       PROVE  j.to \notin DOMAIN Tree.files \cup {Root}
  BY <1>7, <1>8, <1>9, PathsAreSeqs
<1>12. ASSUME NEW j \in jobs
       PROVE  ~Below(to, Front(j.to))
  BY <1>7, <1>9 DEF Below, IsStrictPrefix
<1>13. QueueIn(root, NoFile, jobs, d)
  BY <1>5, <1>6, <1>8, <1>10, <1>11, <1>12 DEF QueueIn
<1>14. BlocksIn(block, root, NoFile, Bitmap, losing')
  BY <1>1, <1>3, <1>5 DEF BlocksIn
<1>15. QED BY <1>1, <1>2, <1>3, <1>13, <1>14, TreeAgrees, WriteAgree

\* Every command.
LEMMA CommandAgrees ==
  ASSUME TailsFit, ~StaleMounts, IInv, TInv, BInv, Command
  PROVE  BInv'
<1>1. ASSUME NEW format \in BOOLEAN, StartInit(format) PROVE BInv'
  BY <1>1 DEF StartInit, disk, index, BInv, DiskAgrees, FreshInv, WriteAgrees,
              CommitAgrees, ShownInv
<1>2. ASSUME NEW p, Ls(p) \/ Export(p) PROVE BInv'
  <2>1. Mounts /\ Commit(Tree, Bitmap) /\ losing' = lost
    BY <1>2 DEF Ls, Export
  <2>2. QED BY <2>1, TreeAgrees, CommitAgree
<1>3. QED
  BY <1>1, <1>2, MovedAgrees, RemovedAgrees, MadeAgrees, ImportAgrees,
     CopyFileAgrees, CopyDirAgrees DEF Command

-----------------------------------------------------------------------------
\* The next file of a copy is none that is there.
LEMMA NextCopyAgrees ==
  ASSUME TailsFit, IInv, TInv, BInv, NEW j \in queue, NextCopy(j)
  PROVE  BInv'
<1> DEFINE f == Open(j.to, j.from.size, Read(j.from), m_bitmap)
<1>1. /\ pc = "writing" /\ out = NoFile /\ out' = f /\ queue' = queue \ {j}
      /\ UNCHANGED <<metadata, ahead, used, block, formatted, m_root, m_bitmap, pc, i,
                     below, lost, losing>>
  BY DEF NextCopy, disk, index
<1>2. /\ formatted /\ metadata # Torn /\ used # Torn /\ ahead = "none"
      /\ QueueIn(m_root, NoFile, queue, below)
      /\ AgreeOn(block, m_root.files, DOMAIN m_root.files, m_bitmap, losing)
  BY <1>1 DEF BInv, WriteAgrees, BlocksIn
<1>3. j.from \in Record /\ j.to \in Paths /\ BlocksHold(block)
  BY DEF TInv, JobsInv, JobsIn, HeldInv
<1>4. j.from.size \in HostSizes /\ (Whole(Read(j.from)) => Len(Read(j.from)) = j.from.size)
  BY <1>3, RecordIs, WholeRead
<1>5. DOMAIN m_root.files \ {j.to} = DOMAIN m_root.files
  BY <1>2 DEF QueueIn
<1>6. BlocksIn(block, m_root, f, m_bitmap, losing)
  BY <1>2, <1>3, <1>4, <1>5, OpenAgrees
<1>7. f.to = j.to
  BY DEF Open
<1> HIDE DEF f
<1>8. QueueIn(m_root, f, queue \ {j}, below)
  BY <1>2, <1>7 DEF QueueIn
<1>9. WriteAgrees'
  BY <1>1, <1>2, <1>6, <1>8 DEF WriteAgrees
<1>10. QED
  BY <1>1, <1>9 DEF BInv, DiskAgrees, FreshInv, CommitAgrees, ShownInv

\* The files in the subdirectories go to where nothing is yet.
LEMMA SubdirsAgree ==
  ASSUME IInv, TInv, BInv, CopySubdirs
  PROVE  BInv'
<1> DEFINE p == below[1]
           q == below[2]
           D == {Onto(p, q, x) : x \in Subtree(m_root, p).dirs}
           root == WithDirs(m_root, D)
           F == FilesDeeper(m_root, p)
           jobs == Jobs(m_root, p, q, F)
<1>1. /\ pc = "writing" /\ out = NoFile /\ queue = {} /\ below # <<>>
      /\ m_root' = root /\ queue' = jobs /\ below' = <<>>
      /\ pc' \in {"commit", "writing"}
      /\ UNCHANGED <<metadata, ahead, used, block, formatted, m_bitmap, i, out, lost,
                     losing>>
  BY DEF CopySubdirs, disk, index
<1>2. /\ formatted /\ metadata # Torn /\ used # Torn /\ ahead = "none"
      /\ AgreeOn(block, m_root.files, DOMAIN m_root.files, m_bitmap, losing)
      /\ \A x \in DOMAIN m_root.files : ~Below(q, Front(x))
  BY <1>1 DEF BInv, WriteAgrees, BlocksIn, QueueIn
<1>3. /\ p \in Paths /\ q \in Paths /\ IsTree(m_root)
      /\ \A x \in Nodes(m_root) : AtOrBelow(p, x) => Onto(p, q, x) \in Paths
  BY <1>1 DEF TInv, JobsInv, JobsIn, TreesInv, IsTree
<1>4. root.files = m_root.files
  BY DEF WithDirs
<1> HIDE DEF p, q, root, F
<1>5. ASSUME NEW x \in F
      PROVE  /\ Onto(p, q, x) \in Paths /\ Below(q, Front(Onto(p, q, x)))
             /\ Onto(q, p, Onto(p, q, x)) = x
  <2>1. /\ x \in Nodes(m_root) /\ AtOrBelow(p, x) /\ Onto(q, p, Onto(p, q, x)) = x
        /\ Below(q, Front(Onto(p, q, x)))
    BY <1>3, CopiedFile DEF F
  <2>2. QED BY <1>3, <2>1
<1>6. ASSUME NEW j \in jobs
      PROVE  \E x \in F : /\ j = [from |-> m_root.files[x], to |-> Onto(p, q, x)]
                          /\ j.to = Onto(p, q, x)
  BY DEF Jobs
<1> HIDE DEF jobs
<1>7. ASSUME NEW j \in jobs, NEW k \in jobs, j.to = k.to
      PROVE  j = k
  BY <1>5, <1>6, <1>7
<1>8. ASSUME NEW j \in jobs
      PROVE  j.to \notin DOMAIN m_root.files \cup {Root}
  BY <1>2, <1>5, <1>6, PathsAreSeqs
<1>9. NoFile.to = Root
  BY DEF NoFile
<1>10. QueueIn(root, NoFile, jobs, <<>>)
  BY <1>4, <1>7, <1>8, <1>9 DEF QueueIn
<1>11. BlocksIn(block, root, NoFile, m_bitmap, losing)
  BY <1>2, <1>4 DEF BlocksIn
<1>12. WriteAgrees'
  BY <1>1, <1>2, <1>10, <1>11 DEF WriteAgrees
<1>13. CommitAgrees'
  <2>1. m_bitmap # Torn
    BY <1>1, TornAssumption DEF IInv, BitmapInv
  <2>2. QED BY <1>1, <1>2, <1>4, <2>1 DEF CommitAgrees
<1>14. QED
  BY <1>1, <1>2, <1>12, <1>13 DEF BInv, DiskAgrees, FreshInv, ShownInv

\* What a command writes before it is committed is in no file on the disk.
LEMMA DiskStands ==
  ASSUME IInv, TInv, BInv, pc = "writing", out.cur # NoBlock, NEW u,
         block' = [block EXCEPT ![out.cur] = u]
  PROVE  /\ AgreeOn(block', metadata.files, DOMAIN metadata.files, used, lost)
         /\ out.cur \in Blocks /\ out.cur \notin m_bitmap
         /\ block'[out.cur] = u
         /\ \A b \in Blocks : b # out.cur => block'[b] = block[b]
<1>1. /\ metadata # Torn /\ used # Torn
      /\ AgreeOn(block, metadata.files, DOMAIN metadata.files, used, lost)
      /\ IsTree(metadata) /\ BlocksHold(block)
  BY DEF BInv, WriteAgrees, DiskAgrees, TInv, TreesInv, HeldInv
<1>2. /\ out.cur \in Blocks /\ out.cur \notin m_bitmap
      /\ used \subseteq m_bitmap /\ m_bitmap \subseteq Blocks
  BY DEF IInv, BitmapInv, NextInv
<1>3. /\ block'[out.cur] = u
      /\ \A b \in Blocks : b # out.cur => block'[b] = block[b]
  BY <1>2 DEF TInv, HeldInv
<1>4. \A b \in used : block'[b] = block[b]
  BY <1>2, <1>3
<1>5. DOMAIN metadata.files \in SUBSET DOMAIN metadata.files
  OBVIOUS
<1>6. AgreeOn(block', metadata.files, DOMAIN metadata.files, used, lost)
  BY <1>1, <1>4, <1>5, StillAgree
<1>7. QED BY <1>2, <1>3, <1>6

\* The link behind the last block leads to no block.
LEMMA NoBlockIsNone == NoBlock \notin Blocks /\ NoBlock \in Ends
BY BlocksAssumption DEF NoBlock, Blocks, Ends

\* After a block there is something left exactly if the reader goes on.
LEMMA RestFits ==
  ASSUME NEW r \in Nat, TailFits(r), r >= DataSize
  PROVE  /\ r - DataSize \in Nat /\ TailFits(r - DataSize)
         /\ HasNext(r) => r - DataSize # 0
         /\ ~HasNext(r) => r - DataSize = 0
<1> DEFINE D == DataSize
<1>1. D \in Nat /\ D > 0 /\ BlockSize = D + 1 /\ (HasNext(r) <=> r > D + 1)
  BY Sizes
<1> HIDE DEF D
<1>2. r >= D
  BY DEF D
<1>3. ASSUME NEW k \in Nat \ {0}, r - D = k * D + 1
      PROVE  FALSE
  <2>1. k + 1 \in Nat \ {0} /\ (k + 1) * D = k * D + D /\ k * D \in Nat
    BY <1>1
  <2>2. r = (k + 1) * D + 1
    BY <1>1, <1>3, <2>1
  <2>3. QED BY <2>1, <2>2 DEF TailFits, D
<1>4. r - D \in Nat
  BY <1>1, <1>2
<1>5. r # D + 1
  <2>1. 1 \in Nat \ {0} /\ 1 * D = D
    BY <1>1
  <2>2. r # 1 * DataSize + 1
    BY <2>1 DEF TailFits
  <2>3. QED BY <2>1, <2>2 DEF D
<1>6. (HasNext(r) => r - D # 0) /\ (~HasNext(r) => r - D = 0)
  BY <1>1, <1>2, <1>5
<1>7. TailFits(r - DataSize)
  BY <1>3 DEF TailFits, D
<1>8. QED BY <1>4, <1>6, <1>7 DEF D

\* A block is written: the chain goes through it to the next one.
LEMMA FlushAgrees ==
  ASSUME IInv, TInv, BInv, FlushBlock
  PROVE  BInv'
<1> DEFINE r == Len(out.rest)
           K == DOMAIN m_root.files \ {out.to}
<1>1. PICK next \in Ends, u \in Seq(Unit), v \in Seq(Unit) :
        /\ Len(u) = BlockSize /\ u[BlockSize] = [next |-> next]
        /\ Len(v) = Len(out.rest) - DataSize
        /\ block' = [block EXCEPT ![out.cur] = u]
        /\ out' = [out EXCEPT !.cur = next, !.rest = v]
  BY FlushIs
<1>2. /\ pc = "writing" /\ r >= DataSize /\ r \in Nat
      /\ out \in FileOpen /\ out # NoFile /\ out.to \in Paths
      /\ out.cur \in Blocks /\ m_bitmap' = m_bitmap \cup {out.cur}
      /\ UNCHANGED <<metadata, ahead, used, formatted, m_root, pc, i, queue, below,
                     lost, losing>>
  BY FlushIs DEF FileOpen
<1>3. out.cur # NoBlock
  BY <1>2, NoBlockIsNone
<1>4. /\ out'.to = out.to /\ out'.size = out.size /\ out'.start = out.start
      /\ out'.whole = out.whole /\ out'.cur = next
      /\ Len(out'.rest) = r - DataSize
  BY <1>1, <1>2 DEF FileOpen
<1>5. /\ AgreeOn(block', metadata.files, DOMAIN metadata.files, used, lost)
      /\ out.cur \in Blocks /\ out.cur \notin m_bitmap /\ block'[out.cur] = u
      /\ \A b \in Blocks : b # out.cur => block'[b] = block[b]
  BY <1>1, <1>2, <1>3, DiskStands
<1>6. /\ formatted /\ metadata # Torn /\ used # Torn /\ ahead = "none"
       /\ QueueIn(m_root, out, queue, below)
       /\ BlocksIn(block, m_root, out, m_bitmap, losing)
       /\ IsTree(m_root) /\ BlocksHold(block) /\ m_bitmap \subseteq Blocks
  BY <1>2 DEF BInv, WriteAgrees, TInv, TreesInv, HeldInv, IInv, BitmapInv
<1>7. ASSUME out.whole
       PROVE  /\ Len(out'.rest) <= out'.size /\ TailFits(Len(out'.rest))
              /\ \E Q \in SUBSET m_bitmap' :
                   /\ AgreeOn(block', m_root.files, K, m_bitmap' \ Q, losing)
                   /\ WrittenAs(block', out', Q)
  <2>1. /\ r <= out.size /\ TailFits(r)
        /\ \E P \in SUBSET m_bitmap :
             /\ AgreeOn(block, m_root.files, K, m_bitmap \ P, losing)
             /\ WrittenAs(block, out, P)
    BY <1>2, <1>6, <1>7 DEF BlocksIn
  <2>2. PICK P \in SUBSET m_bitmap :
          /\ AgreeOn(block, m_root.files, K, m_bitmap \ P, losing)
          /\ WrittenAs(block, out, P)
    BY <2>1
  <2>3. /\ r - DataSize \in Nat /\ TailFits(r - DataSize)
        /\ HasNext(r) => r - DataSize # 0
        /\ ~HasNext(r) => r - DataSize = 0
    BY <1>2, <2>1, RestFits
  <2>4. out.size \in Nat /\ r \in 0 .. out.size /\ r # 0 /\ out.cur \in Ends
        /\ r - DataSize <= out.size
    <3>1. out.size \in Nat
      BY <1>2, HostSizesAssumption DEF FileOpen
    <3>2. out.cur \in Ends
      BY <1>2 DEF FileOpen
    <3>3. QED BY <1>2, <2>1, <3>1, <3>2, Sizes
  <2> DEFINE Q == P \cup {out.cur}
  <2>5. Q \in SUBSET m_bitmap' /\ m_bitmap' \ Q = m_bitmap \ P
    BY <1>2, <1>5
  <2>6. \A b \in m_bitmap : block'[b] = block[b]
    BY <1>5, <1>6
  <2>7. AgreeOn(block', m_root.files, K, m_bitmap' \ Q, losing)
    <3>1. K \in SUBSET DOMAIN m_root.files /\ \A b \in m_bitmap \ P : block'[b] = block[b]
      BY <2>6
    <3> HIDE DEF K, Q
    <3>2. AgreeOn(block', m_root.files, K, m_bitmap \ P, losing)
      BY <1>6, <2>2, <3>1, StillAgree
    <3>3. QED BY <2>5, <3>2
  <2>8. ASSUME NEW B, \A b \in Q : B[b] = block'[b]
        PROVE  Walks(B, out.size)[out.size][out.start] =
                 Q \cup (IF r - DataSize = 0 THEN {}
                         ELSE Walks(B, out.size)[r - DataSize][next])
    <3>1. \A b \in P : B[b] = block[b]
      BY <2>6, <2>8
    <3>2. Walks(B, out.size)[out.size][out.start] = P \cup Walks(B, out.size)[r][out.cur]
      BY <2>2, <2>4, <3>1 DEF WrittenAs
    <3>3. Walks(B, out.size)[r][out.cur] = ChainAt(B, Walks(B, out.size), r, out.cur)
      BY <2>4, WalkUnfolds
    <3>4. B[out.cur] = u
      BY <1>5, <2>8
    <3>5. Walks(B, out.size)[r][out.cur] =
            IF HasNext(r) THEN {out.cur} \cup Walks(B, out.size)[r - DataSize][next]
            ELSE {out.cur}
      <4>1. B[out.cur][BlockSize].next = next /\ Len(B[out.cur]) = BlockSize
        BY <1>1, <3>4
      <4>2. QED BY <1>3, <3>3, <4>1 DEF ChainAt
    <3>6. QED BY <2>3, <3>2, <3>5
  <2>9. WrittenAs(block', out', Q)
    <3> HIDE DEF Q
    <3>1. QED BY <1>4, <2>8 DEF WrittenAs
  <2> HIDE DEF Q, K
  <2>10. Len(out'.rest) <= out'.size /\ TailFits(Len(out'.rest))
    BY <1>4, <2>3, <2>4
  <2>11. QED BY <2>5, <2>7, <2>9, <2>10
<1>8. out' # NoFile
  BY <1>2, <1>4, PathsAreSeqs DEF NoFile
<1>9. BlocksIn(block', m_root, out', m_bitmap', losing)
  <2>1. K = DOMAIN m_root.files \ {out'.to}
    BY <1>4
  <2> HIDE DEF K
  <2>2. QED BY <1>4, <1>7, <1>8, <2>1 DEF BlocksIn
<1>10. QueueIn(m_root, out', queue, below)
  BY <1>4, <1>6 DEF QueueIn
<1>11. WriteAgrees'
  BY <1>2, <1>6, <1>9, <1>10 DEF WriteAgrees
<1>12. DiskAgrees'
  BY <1>2, <1>5, AgreeIsApart DEF DiskAgrees
<1>13. QED
  BY <1>2, <1>11, <1>12 DEF BInv, FreshInv, CommitAgrees, ShownInv

\* The last part is written, if there is one and room for it: the chain is what
\* has been written.
LEMMA FinishAgrees ==
  ASSUME IInv, TInv, BInv, FinishFile
  PROVE  BInv'
<1> DEFINE f == [start |-> out.start, size |-> out.size]
           root == WithFile(m_root, out.to, f)
           r == Len(out.rest)
           K == DOMAIN m_root.files
           writes == out.rest # <<>> /\ out.cur # NoBlock
<1>1. /\ pc = "writing" /\ out # NoFile /\ r < DataSize /\ out.whole
      /\ m_root' = root /\ out' = NoFile /\ pc' \in {"commit", "writing"}
      /\ UNCHANGED <<metadata, ahead, used, formatted, i, queue, below, lost, losing>>
      /\ IF writes
         THEN block' = [block EXCEPT ![out.cur] = out.rest]
              /\ m_bitmap' = m_bitmap \cup {out.cur}
         ELSE block' = block /\ m_bitmap' = m_bitmap
  BY DEF FinishFile, index
<1>2. out \in FileOpen
  BY <1>1 DEF TInv, JobsInv, JobsIn
<1>3. /\ out.rest \in Seq(Unit) /\ r \in Nat /\ out.to \in Paths
      /\ (r = 0 <=> out.rest = <<>>)
  <2>1. out.rest \in Seq(Unit) /\ out.to \in Paths
    BY <1>2 DEF FileOpen
  <2>2. QED BY <2>1, LenProperties, EmptySeq
<1>4. /\ formatted /\ metadata # Torn /\ used # Torn /\ ahead = "none"
      /\ QueueIn(m_root, out, queue, below)
      /\ BlocksIn(block, m_root, out, m_bitmap, losing)
      /\ AgreeOn(block, metadata.files, DOMAIN metadata.files, used, lost)
      /\ IsTree(m_root) /\ BlocksHold(block) /\ m_bitmap \subseteq Blocks
  BY <1>1 DEF BInv, WriteAgrees, DiskAgrees, TInv, TreesInv, HeldInv, IInv, BitmapInv
<1>5. r <= out.size
  BY <1>1, <1>4 DEF BlocksIn
<1>6. PICK P \in SUBSET m_bitmap :
        /\ AgreeOn(block, m_root.files, K \ {out.to}, m_bitmap \ P, losing)
        /\ WrittenAs(block, out, P)
  BY <1>1, <1>4 DEF BlocksIn
<1>7. /\ AgreeOn(block', metadata.files, DOMAIN metadata.files, used, lost)
      /\ writes => out.cur \in Blocks /\ out.cur \notin m_bitmap
      /\ \A b \in m_bitmap : block'[b] = block[b]
  <2>1. CASE writes
    BY <1>1, <1>4, <2>1, DiskStands
  <2>2. CASE ~writes
    BY <1>1, <1>4, <2>2
  <2>3. QED BY <2>1, <2>2
<1> DEFINE Q == P \cup (IF writes THEN {out.cur} ELSE {})
<1>8. out.size \in Nat /\ r \in 0 .. out.size /\ out.cur \in Ends
  <2>1. out.size \in Nat
    BY <1>2, HostSizesAssumption DEF FileOpen
  <2>2. out.cur \in Ends
    BY <1>2 DEF FileOpen
  <2>3. QED BY <1>3, <1>5, <2>1, <2>2
<1>9. ChainOf(block', f) = Q
  <2>1. Walks(block', out.size)[out.size][out.start] =
          P \cup (IF r = 0 THEN {} ELSE Walks(block', out.size)[r][out.cur])
    BY <1>6, <1>7 DEF WrittenAs
  <2>2. Walks(block', out.size)[r][out.cur] = {out.cur}
    <3>1. ~HasNext(r)
      BY <1>1, <1>3, Sizes
    <3>2. Walks(block', out.size)[r][out.cur] =
            ChainAt(block', Walks(block', out.size), r, out.cur)
      BY <1>8, WalkUnfolds
    <3>3. QED BY <3>1, <3>2 DEF ChainAt
  <2>3. NoBlock \notin P
    BY <1>4, NoBlockIsNone
  <2>4. f.size = out.size /\ f.start = out.start
    OBVIOUS
  <2> HIDE DEF f
  <2>5. ChainOf(block', f) = (P \cup (IF r = 0 THEN {} ELSE {out.cur})) \ {NoBlock}
    BY <2>1, <2>2, <2>4 DEF ChainOf
  <2>6. CASE r = 0
    BY <1>3, <2>3, <2>5, <2>6
  <2>7. CASE r # 0
    BY <1>3, <2>3, <2>5, <2>7
  <2>8. QED BY <2>6, <2>7
<1>10. AgreeOn(block', m_root.files, K \ {out.to}, m_bitmap \ P, losing)
  <2>1. K \ {out.to} \in SUBSET DOMAIN m_root.files
        /\ \A b \in m_bitmap \ P : block'[b] = block[b]
    BY <1>7
  <2> HIDE DEF K
  <2>2. QED BY <1>4, <1>6, <2>1, StillAgree
<1>11. /\ DOMAIN root.files = K \cup {out.to} /\ root.files[out.to] = f
       /\ \A x \in K \ {out.to} : root.files[x] = m_root.files[x]
  BY DEF WithFile
<1>12. /\ Q \cap (m_bitmap \ P) = {}
       /\ m_bitmap' \subseteq (m_bitmap \ P) \cup Q
       /\ m_bitmap \ P \subseteq m_bitmap' /\ Q \subseteq m_bitmap'
  BY <1>1, <1>7
<1> HIDE DEF root, f, Q, K, writes, r
<1>13. AgreeOn(block', root.files, K \cup {out.to}, m_bitmap', losing)
  <2>1. Q \cap ChainsOf(block', m_root.files, K \ {out.to}) = {}
    BY <1>10, <1>12 DEF AgreeOn
  <2>2. ChainOf(block', root.files[out.to]) = Q
    BY <1>9, <1>11
  <2> DEFINE U == m_bitmap \ P
  <2>3. /\ AgreeOn(block', m_root.files, K \ {out.to}, U, losing)
        /\ \A y \in K \ {out.to} : root.files[y] = m_root.files[y]
        /\ m_bitmap' \subseteq U \cup Q /\ U \subseteq m_bitmap'
        /\ Q \subseteq m_bitmap'
    BY <1>10, <1>11, <1>12
  <2> HIDE DEF U
  <2>4. QED BY <2>1, <2>2, <2>3, OneMoreAgrees
<1>14. BlocksIn(block', root, NoFile, m_bitmap', losing)
  BY <1>11, <1>13 DEF BlocksIn
<1>15. QueueIn(root, NoFile, queue, below)
  <2>1. NoFile.to = Root /\ out.to # Root
    BY <1>3, PathsAreSeqs DEF NoFile
  <2>2. \A j \in queue : j.to # Root
    BY PathsAreSeqs DEF TInv, JobsInv, JobsIn
  <2>3. QED BY <1>4, <1>11, <2>1, <2>2 DEF QueueIn, K
<1>16. WriteAgrees'
  BY <1>1, <1>4, <1>14, <1>15 DEF WriteAgrees
<1>17. CommitAgrees'
  <2>1. m_bitmap' # Torn
    <3>1. m_bitmap' \subseteq Blocks
      BY <1>1, <1>4, <1>7
    <3>2. QED BY <3>1, TornAssumption
  <2>2. QED BY <1>1, <1>4, <1>11, <1>13, <2>1 DEF CommitAgrees
<1>18. DiskAgrees'
  BY <1>1, <1>7, AgreeIsApart DEF DiskAgrees
<1>19. QED
  BY <1>1, <1>4, <1>16, <1>17, <1>18 DEF BInv, FreshInv, ShownInv

\* The end of a process leaves a disk that agrees.
LEMMA EndAgrees ==
  ASSUME End, metadata' # Torn /\ used' # Torn =>
                /\ Apart(block', metadata'.files, DOMAIN metadata'.files)
                /\ ahead' = "none" =>
                     AgreeOn(block', metadata'.files, DOMAIN metadata'.files, used', lost')
  PROVE  BInv'
BY DEF End, BInv, DiskAgrees, FreshInv, WriteAgrees, CommitAgrees, ShownInv

\* A block of the store is truncated.
LEMMA TruncatedAgrees ==
  ASSUME IInv, TInv, BInv, TruncateBlock
  PROVE  BInv'
<1>1. /\ pc = "formatting" /\ pc' = pc
      /\ block' = [block EXCEPT ![i] = <<>>]
      /\ lost' = IF used = Torn THEN lost ELSE used
      /\ UNCHANGED <<metadata, ahead, used, formatted, m_root, m_bitmap, losing>>
  BY DEF TruncateBlock, index
<1>2. ASSUME metadata # Torn, used # Torn
      PROVE  /\ Apart(block', metadata.files, DOMAIN metadata.files)
             /\ ahead = "none" =>
                  AgreeOn(block', metadata.files, DOMAIN metadata.files, used, used)
  <2>1. /\ Apart(block, metadata.files, DOMAIN metadata.files)
        /\ ahead = "none" =>
             AgreeOn(block, metadata.files, DOMAIN metadata.files, used, lost)
    BY <1>1, <1>2 DEF BInv, DiskAgrees
  <2>2. IsTree(metadata) /\ BlocksHold(block) /\ DOMAIN block = Blocks
    BY <1>2 DEF TInv, TreesInv, HeldInv
  <2>3. \A b \in Blocks : block'[b] = block[b] \/ block'[b] = <<>>
    BY <1>1, <2>2
  <2>4. Apart(block', metadata.files, DOMAIN metadata.files)
    BY <2>1, <2>2, <2>3, TruncatedApart
  <2>5. ahead = "none" =>
          AgreeOn(block', metadata.files, DOMAIN metadata.files, used, used)
    BY <2>1, <2>2, <2>3, TruncatedAgree
  <2>6. QED BY <2>4, <2>5
<1>3. DiskAgrees'
  BY <1>1, <1>2 DEF DiskAgrees
<1>4. QED
  BY <1>1, <1>3 DEF BInv, FreshInv, WriteAgrees, CommitAgrees, ShownInv

\* A part of metadata is written.
LEMMA LineAgrees ==
  ASSUME BInv, WriteMetadata
  PROVE  BInv'
<1>1. PICK tree : pc = "metadata" /\ NextLine(tree) /\ LineWritten(tree)
  BY LineIs
<1>2. IsPart(tree, ToWrite)
  <2>1. CASE metadata = Torn /\ tree = EmptyTree
    BY <2>1 DEF IsPart, EmptyTree
  <2>2. ASSUME NEW p \in Paths, metadata # Torn,
               p \in ToWrite.dirs /\ tree = WithDirs(metadata, {p})
        PROVE  IsPart(tree, ToWrite)
    BY <1>1, <2>2 DEF BInv, ShownInv, IsPart, WithDirs
  <2>3. ASSUME NEW p \in Paths, metadata # Torn, p \in DOMAIN ToWrite.files,
               tree = WithFile(metadata, p, ToWrite.files[p])
        PROVE  IsPart(tree, ToWrite)
    BY <1>1, <2>3 DEF BInv, ShownInv, IsPart, WithFile
  <2>4. QED BY <1>1, <2>1, <2>2, <2>3 DEF NextLine
<1>3. QED
  BY <1>1, <1>2 DEF LineWritten, BInv, DiskAgrees, FreshInv, WriteAgrees,
     CommitAgrees, ShownInv, ToWrite

\* Every step of a process.
LEMMA ProgressAgrees ==
  ASSUME TailsFit, IInv, TInv, BInv, Progress
  PROVE  BInv'
<1>1. CASE CopyFails \/ FlushFails
  <2>1. End /\ pc = "writing" /\ UNCHANGED <<metadata, ahead, used, lost, block>>
    BY <1>1 DEF CopyFails, FlushFails, Throw, index
  <2>2. QED BY <2>1, EndAgrees DEF BInv, DiskAgrees
<1>2. CASE ReadFails
  <2>1. /\ End /\ pc = "writing" /\ UNCHANGED <<metadata, ahead, used, lost>>
        /\ \/ out.cur # NoBlock /\ block' = [block EXCEPT ![out.cur] = out.rest]
           \/ block' = block
    BY <1>2 DEF ReadFails, Throw, index
  <2>2. CASE block' = block
    BY <2>1, <2>2, EndAgrees DEF BInv, DiskAgrees
  <2>3. CASE out.cur # NoBlock /\ block' = [block EXCEPT ![out.cur] = out.rest]
    <3>1. AgreeOn(block', metadata.files, DOMAIN metadata.files, used, lost)
      BY <2>1, <2>3, DiskStands
    <3>2. QED BY <2>1, <3>1, AgreeIsApart, EndAgrees
  <2>4. QED BY <2>1, <2>2, <2>3
<1>3. CASE Writing
  BY <1>1, <1>2, <1>3, NextCopyAgrees, SubdirsAgree, FlushAgrees, FinishAgrees
     DEF Writing
<1>4. CASE TruncateBlock
  BY <1>4, TruncatedAgrees
<1>5. CASE AllTruncated
  <2>1. /\ pc = "formatting" /\ pc' = "commit"
        /\ UNCHANGED <<metadata, ahead, used, block, formatted, m_root, m_bitmap, lost,
                       losing>>
    BY <1>5 DEF AllTruncated, disk, index
  <2>2. /\ m_root = EmptyTree /\ losing = {}
        /\ m_bitmap = IF formatted THEN {} ELSE Torn
    BY <2>1 DEF BInv, FreshInv
  <2>3. AgreeOn(block, EmptyTree.files, DOMAIN EmptyTree.files, {}, {})
    <3>1. DOMAIN EmptyTree.files = {}
      BY DEF EmptyTree
    <3>2. QED BY <3>1 DEF AgreeOn, ChainsOf
  <2>4. {} # Torn
    BY TornAssumption
  <2>5. CommitAgrees'
    BY <2>1, <2>2, <2>3, <2>4 DEF CommitAgrees
  <2>6. QED
    BY <2>1, <2>2, <2>5 DEF BInv, DiskAgrees, FreshInv, WriteAgrees, ShownInv
<1>6. CASE TruncateMetadata
  BY <1>6 DEF TruncateMetadata, BInv, DiskAgrees, FreshInv, WriteAgrees, CommitAgrees,
              ShownInv
<1>7. CASE WriteMetadata
  BY <1>7, LineAgrees
<1>8. CASE TruncateBitmap
  BY <1>8 DEF TruncateBitmap, BInv, DiskAgrees, FreshInv, WriteAgrees, CommitAgrees,
              ShownInv, ToWrite
<1>9. CASE WriteBitmap
  <2>1. /\ pc = "bitmap" /\ End /\ used' = m_bitmap /\ lost' = losing
        /\ metadata' = metadata /\ block' = block
    BY <1>9 DEF WriteBitmap
  <2>2. metadata = ToWrite
    BY <2>1 DEF BInv, ShownInv
  <2>3. ASSUME m_bitmap # Torn
        PROVE  AgreeOn(block, metadata.files, DOMAIN metadata.files, m_bitmap, losing)
    BY <2>1, <2>2, <2>3 DEF BInv, CommitAgrees, ToWrite
  <2>4. QED BY <2>1, <2>3, AgreeIsApart, EndAgrees
<1>10. QED
  BY <1>3, <1>4, <1>5, <1>6, <1>7, <1>8, <1>9 DEF Progress

\* The files of the tree that is written back share no block.
LEMMA WrittenApart ==
  ASSUME BInv, pc \in {"commit", "metadata", "between", "bitmap"}
  PROVE  Apart(block, ToWrite.files, DOMAIN ToWrite.files)
<1>1. CASE formatted
  BY <1>1, AgreeIsApart DEF BInv, CommitAgrees, ToWrite
<1>2. CASE ~formatted
  <2>1. DOMAIN ToWrite.files = {}
    BY <1>2 DEF ToWrite, EmptyTree
  <2>2. QED BY <2>1 DEF Apart
<1>3. QED BY <1>1, <1>2

\* A process may be killed anywhere.
LEMMA CrashAgrees ==
  ASSUME TInv, BInv, Crash
  PROVE  BInv'
<1>1. pc # "idle" /\ End /\ UNCHANGED <<metadata, ahead, used, block, lost>>
  BY DEF Crash, disk, index
<1> SUFFICES ASSUME metadata # Torn, used # Torn
             PROVE  /\ Apart(block, metadata.files, DOMAIN metadata.files)
                    /\ ahead = "none" =>
                         AgreeOn(block, metadata.files, DOMAIN metadata.files, used, lost)
  BY <1>1, EndAgrees
<1>2. CASE pc \in {"formatting", "writing", "commit"}
  BY <1>2 DEF BInv, DiskAgrees
<1>3. CASE pc = "metadata"
  <2>1. ahead = "part" /\ IsPart(metadata, ToWrite)
    BY <1>3 DEF BInv, ShownInv
  <2>2. Apart(block, ToWrite.files, DOMAIN ToWrite.files)
    BY <1>3, WrittenApart
  <2>3. Apart(block, metadata.files, DOMAIN metadata.files)
    BY <2>1, <2>2, FewerApart DEF IsPart
  <2>4. QED BY <2>1, <2>3
<1>4. CASE pc = "between"
  BY <1>4, WrittenApart DEF BInv, ShownInv
<1>5. CASE pc = "bitmap"
  BY <1>5 DEF BInv, ShownInv
<1>6. QED BY <1>1, <1>2, <1>3, <1>4, <1>5 DEF TInv, TypeInv, PCs

\* Every step, unless a command goes on with a tree newer than the bitmap.
LEMMA StepAgrees ==
  TailsFit /\ ~StaleMounts => (IInv /\ TInv /\ BInv /\ [Next]_vars => BInv')
<1> SUFFICES ASSUME TailsFit, ~StaleMounts, IInv, TInv, BInv, [Next]_vars PROVE BInv'
  OBVIOUS
<1>1. CASE UNCHANGED vars
  BY <1>1 DEF vars, disk, index, process, copying, BInv, DiskAgrees, FreshInv,
              WriteAgrees, CommitAgrees, ShownInv, ToWrite
<1>2. QED BY <1>1, CommandAgrees, ProgressAgrees, CrashAgrees DEF Next

\* Between commands no two files share a block, wherever a process was killed,
\* lines of metadata included; and the bitmap agrees with the tree unless a kill
\* has left metadata newer than it. This is so for all trees and sequences of
\* commands, also when commands fail or are cut short on a full disk, if a store
\* whose metadata is newer is formatted before it is used again (otherwise its
\* bitmap gives the blocks of files away), and for files that are not empty and do
\* not end within the link.
THEOREM BitmapAgrees == TailsFit /\ ~StaleMounts => (Spec => []BlocksAgree)
<1> SUFFICES ASSUME TailsFit /\ ~StaleMounts PROVE Spec => []BlocksAgree
  OBVIOUS
<1>1. IInv /\ TInv /\ BInv /\ [Next]_vars => BInv'
  BY StepAgrees
<1>2. QED
  BY <1>1, AlwaysTyped, InitAgrees, BInvIsBlocksAgree, PTL DEF Spec

-----------------------------------------------------------------------------
(***************************************************************************)
(* The store that is implemented                                           *)
(***************************************************************************)

\* What a reader of the file f gets when B is in the blocks.
ReadOf(B, f) == Reads(B, f.size)[f.size][f.start]

\* c has been read, or damage can be seen.
Gets(c, read) == read = c \/ ~Whole(read)

\* Of the contents c, all but file.rest is written: whatever comes into the
\* blocks that are free, a reader gets that first, and goes on at file.cur.
WrittenOf(A, file, bitmap, c) ==
  LET r == Len(file.rest)
  IN /\ c \in Seq(Unit) /\ Len(c) = file.size
     /\ r <= Len(c) /\ file.rest = SubSeq(c, Len(c) - r + 1, Len(c))
     /\ \A B : BlocksHold(B) /\ (\A b \in bitmap : B[b] = A[b]) =>
          ReadOf(B, file) =
            SubSeq(c, 1, Len(c) - r) \o Reads(B, file.size)[r][file.cur]

\* An import of n as p is under way ...
ImportGoes(A, s, t, file, bitmap, p, n) ==
  /\ t = s /\ IsDir(s, Front(p))
  /\ file.to = p /\ WrittenOf(A, file, bitmap, Content(n))

\* ... and done.
ImportDone(A, s, t, p, n) ==
  /\ IsDir(s, Front(p))
  /\ t.dirs = s.dirs /\ DOMAIN t.files = DOMAIN s.files \cup {p}
  /\ \A x \in DOMAIN s.files \ {p} : t.files[x] = s.files[x]
  /\ Gets(Content(n), ReadOf(A, t.files[p]))

\* The files that a copy of p is made of.
Copied(s, p) == {x \in DOMAIN s.files : IF p \in s.dirs THEN Below(p, x) ELSE x = p}

\* f reads as one of them.
IsCopy(A, s, p, f) == \E x \in Copied(s, p) : Gets(ReadOf(A, s.files[x]), ReadOf(A, f))

\* The copy of x exists or is still to be made.
CopyComes(A, s, t, file, bitmap, jobs, dirs, x, y) ==
  \/ y \in DOMAIN t.files /\ Gets(ReadOf(A, s.files[x]), ReadOf(A, t.files[y]))
  \/ file # NoFile /\ file.to = y /\ WrittenOf(A, file, bitmap, ReadOf(A, s.files[x]))
  \/ \E j \in jobs : j.to = y /\ j.from = s.files[x]
  \/ dirs # <<>> /\ Below(dirs[1], Front(x))

\* What stands of s in t, and that the rest lies at or below q.
Grown(s, t, q) ==
  /\ s.dirs \subseteq t.dirs
  /\ \A x \in t.dirs \ s.dirs : AtOrBelow(q, x)
  /\ DOMAIN s.files \subseteq DOMAIN t.files
  /\ \A x \in DOMAIN s.files : t.files[x] = s.files[x]
  /\ \A y \in DOMAIN t.files \ DOMAIN s.files : AtOrBelow(q, y)

\* A copy of p to q is under way: s is the tree before, t the one in memory.
CopyGoes(A, s, t, file, bitmap, jobs, dirs, p, q) ==
  /\ Exists(s, p) /\ ~Exists(s, q) /\ IsDir(s, Front(q))
  /\ Grown(s, t, q)
  /\ \A y \in DOMAIN t.files \ DOMAIN s.files : IsCopy(A, s, p, t.files[y])
  /\ dirs # <<>> => dirs = <<p, q>>
  /\ \A x \in s.dirs : AtOrBelow(p, x) => Onto(p, q, x) \in t.dirs \/ dirs # <<>>
  /\ \A j \in jobs :
       /\ AtOrBelow(q, j.to)
       /\ \E y \in DOMAIN t.files : j.from = t.files[y]
       /\ IsCopy(A, s, p, j.from)
  /\ file # NoFile =>
       /\ AtOrBelow(q, file.to) /\ file.to \notin DOMAIN t.files
       /\ \E x \in Copied(s, p) : WrittenOf(A, file, bitmap, ReadOf(A, s.files[x]))
  /\ \A x \in Copied(s, p) :
       CopyComes(A, s, t, file, bitmap, jobs, dirs, x, Onto(p, q, x))

\* p and what lies below is gone.
IsRemoved(s, t, p) ==
  LET gone == Subtree(s, p)
      ds == IF IsDir(s, p) THEN gone.dirs ELSE {}
      fs == IF IsDir(s, p) THEN gone.files ELSE {p}
  IN /\ Exists(s, p) \/ p = Root
     /\ t = [dirs |-> s.dirs \ ds, files |-> Restrict(s.files, DOMAIN s.files \ fs)]

\* p and what lies below has gone to q, where there was nothing.
IsMoved(s, t, p, q) ==
  /\ Exists(s, p) /\ ~Exists(s, q) /\ IsDir(s, Front(q))
  /\ p \in s.dirs => ~AtOrBelow(p, q)
  /\ t = Moved(s, p, q, IF p \in s.dirs THEN Subtree(s, p)
                         ELSE [dirs |-> {}, files |-> {p}])

\* What a command that changes the tree s has made of it.
Effect(A, s, t) ==
  \/ t = s
  \/ t = EmptyTree
  \/ \E p \in Paths : t = Made(s, p)
  \/ \E p \in Paths \cup {Root} : IsRemoved(s, t, p)
  \/ \E p, q \in Paths : IsMoved(s, t, p, q)
  \/ \E p \in Paths, n \in HostSizes : ImportDone(A, s, t, p, n)
  \/ \E p, q \in Paths : CopyGoes(A, s, t, NoFile, {}, {}, <<>>, p, q)

\* What a command that writes has done so far.
Work(A, s, t, file, bitmap, jobs, dirs) ==
  \/ \E p \in Paths, n \in HostSizes :
       /\ file # NoFile /\ jobs = {} /\ dirs = <<>>
       /\ ImportGoes(A, s, t, file, bitmap, p, n)
  \/ \E p, q \in Paths : CopyGoes(A, s, t, file, bitmap, jobs, dirs, p, q)

\* The invariant: what has been done, unless a file could not be read, ...
WorkInv ==
  pc = "writing" /\ (out = NoFile \/ out.whole) =>
    Work(block, metadata, m_root, out, m_bitmap, queue, below)

\* ... and what is about to be shown.
EffectInv ==
  pc = "commit" /\ formatted => Effect(block, Tree, m_root)

RInv == WorkInv /\ EffectInv

-----------------------------------------------------------------------------
(***************************************************************************)
(* What is read when blocks change                                         *)
(***************************************************************************)

\* What is read of a file is the same as long as the blocks of its chain are.
LEMMA SameReads ==
  ASSUME NEW B, NEW C, BlocksHold(B), NEW s \in Nat, NEW n \in 0 .. s, NEW b \in Ends,
         \A x \in Walks(B, s)[n][b] \ {NoBlock} : C[x] = B[x]
  PROVE  Reads(C, s)[n][b] = Reads(B, s)[n][b]
<1> DEFINE w == Walks(B, s)
           g == Reads(B, s)
           h == Reads(C, s)
           Same(m, c) == (\A x \in w[m][c] \ {NoBlock} : C[x] = B[x]) => h[m][c] = g[m][c]
           Bad == {m \in 0 .. s : \E c \in Ends : ~Same(m, c)}
<1>1. ASSUME NEW m \in 0 .. s, NEW c \in Ends
      PROVE  /\ w[m][c] = ChainAt(B, w, m, c) /\ c \in w[m][c]
             /\ g[m][c] = ReadAt(B, g, m, c) /\ h[m][c] = ReadAt(C, h, m, c)
  BY WalkUnfolds, ReadUnfolds, ChainTyped
<1> HIDE DEF w, g, h
<1>2. Bad = {}
  <2> SUFFICES ASSUME Bad # {} PROVE FALSE
    OBVIOUS
  <2>1. PICK m \in Bad : \A k \in Bad : m <= k
    <3>1. Bad \in SUBSET Nat
      OBVIOUS
    <3> HIDE DEF Bad
    <3>2. QED BY <3>1, LeastNat
  <2>2. PICK c \in Ends : m \in 0 .. s /\ ~Same(m, c)
    OBVIOUS
  <2>3. /\ w[m][c] = ChainAt(B, w, m, c) /\ c \in w[m][c]
        /\ g[m][c] = ReadAt(B, g, m, c) /\ h[m][c] = ReadAt(C, h, m, c)
    BY <1>1, <2>2
  <2>4. (\A x \in w[m][c] \ {NoBlock} : C[x] = B[x]) /\ h[m][c] # g[m][c]
    BY <2>2
  <2>5. c # NoBlock => C[c] = B[c]
    BY <2>3, <2>4
  <2>6. m # 0 /\ c # NoBlock /\ HasNext(m) /\ Len(B[c]) = BlockSize
    BY <2>3, <2>4, <2>5 DEF ReadAt
  <2> DEFINE k == m - DataSize
             d == B[c][BlockSize].next
             u == SubSeq(B[c], 1, DataSize)
  <2>7. g[m][c] = u \o g[k][d] /\ h[m][c] = u \o h[k][d] /\ w[m][c] = {c} \cup w[k][d]
    BY <2>3, <2>5, <2>6 DEF ReadAt, ChainAt
  <2>8. d \in Ends
    BY <2>2, <2>6, NextInEnds DEF Ends
  <2>9. k \in 0 .. s /\ ~(m <= k)
    <3>1. m \in Nat /\ m - DataSize \in 0 .. m - 1
      BY <2>2, <2>6, Sizes
    <3>2. QED BY <2>2, <3>1, Sizes
  <2>10. k \notin Bad
    <3> HIDE DEF Bad
    <3>1. QED BY <2>1, <2>9
  <2> HIDE DEF k, d, u
  <2>11. Same(k, d)
    BY <2>8, <2>9, <2>10
  <2>12. h[k][d] = g[k][d]
    BY <2>4, <2>7, <2>11
  <2>13. QED BY <2>4, <2>7, <2>12
<1>3. Same(n, b)
  BY <1>2
<1>4. QED BY <1>3 DEF w, g, h

\* The same of a file.
LEMMA SameRead ==
  ASSUME NEW B, NEW C, BlocksHold(B), NEW f \in Record,
         \A x \in ChainOf(B, f) : C[x] = B[x]
  PROVE  ReadOf(C, f) = ReadOf(B, f)
<1>1. f.size \in Nat /\ f.size \in 0 .. f.size /\ f.start \in Ends
  BY RecordIs
<1>2. QED BY <1>1, SameReads DEF ChainOf, ReadOf

\* Read is ReadOf for the blocks as they are.
LEMMA ReadIsOf ==
  ASSUME NEW f
  PROVE  /\ Read(f) = ReadOf(block, f)
         /\ Read(f)' = ReadOf(block', f)
<1>1. Read(f) = ReadOf(block, f)
  BY ReadIs DEF ReadOf
<1>2. Read(f)' = ReadOf(block', f)
  BY DEF Read, ReadOf, Reads, ReadAt, Ends
<1>3. QED BY <1>1, <1>2

\* Of two parts, the whole is whole if both are.
LEMMA WholeParts ==
  ASSUME NEW u \in Seq(Unit), NEW v \in Seq(Unit), Whole(u \o v)
  PROVE  Whole(v)
<1>1. /\ u \o v \in Seq(Unit) /\ Len(u \o v) = Len(u) + Len(v)
      /\ \A x \in 1 .. Len(u) + Len(v) :
           (u \o v)[x] = IF x <= Len(u) THEN u[x] ELSE v[x - Len(u)]
  BY ConcatProperties
<1>2. /\ DOMAIN (u \o v) = 1 .. Len(u) + Len(v) /\ DOMAIN v = 1 .. Len(v)
      /\ Len(u) \in Nat /\ Len(v) \in Nat
  BY <1>1, LenProperties
<1>3. ASSUME NEW x \in DOMAIN v
      PROVE  v[x] \in {(u \o v)[y] : y \in DOMAIN (u \o v)}
  <2>1. x \in 1 .. Len(v)
    BY <1>2
  <2>2. /\ Len(u) + x \in 1 .. Len(u) + Len(v)
        /\ ~(Len(u) + x <= Len(u)) /\ (Len(u) + x) - Len(u) = x
    BY <1>2, <2>1
  <2>3. (u \o v)[Len(u) + x] = v[x]
    BY <1>1, <2>2
  <2>4. QED BY <1>2, <2>2, <2>3
<1>4. QED BY <1>3 DEF Whole

\* The first units of a sequence.
LEMMA Taken ==
  ASSUME NEW c \in Seq(Unit), NEW n \in 0 .. Len(c)
  PROVE  /\ SubSeq(c, 1, n) \in Seq(Unit) /\ Len(SubSeq(c, 1, n)) = n
         /\ \A k \in 1 .. n : SubSeq(c, 1, n)[k] = c[k]
<1>1. n \in Nat /\ Len(c) \in Nat /\ \A k \in 1 .. n : k \in 1 .. Len(c)
  BY LenProperties
<1>2. \A k \in 1 .. n : c[k] \in Unit
  BY <1>1, ElementOfSeq
<1>3. QED BY <1>1, <1>2

\* Of a file some blocks of which are truncated one gets the same, or sees it.
LEMMA TruncatedReads ==
  ASSUME NEW B, NEW C, BlocksHold(B), BlocksHold(C),
         NEW s \in Nat, NEW n \in 0 .. s, NEW b \in Ends,
         \A x \in Blocks : C[x] = B[x] \/ C[x] = <<>>
  PROVE  Gets(Reads(B, s)[n][b], Reads(C, s)[n][b])
<1> DEFINE g == Reads(B, s)
           h == Reads(C, s)
           Bad == {m \in 0 .. s : \E c \in Ends : ~Gets(g[m][c], h[m][c])}
<1>1. ASSUME NEW m \in 0 .. s, NEW c \in Ends
      PROVE  /\ g[m][c] = ReadAt(B, g, m, c) /\ h[m][c] = ReadAt(C, h, m, c)
             /\ h[m][c] \in Seq(Unit)
  BY ReadUnfolds, ReadTyped
<1> HIDE DEF g, h
<1>2. Bad = {}
  <2> SUFFICES ASSUME Bad # {} PROVE FALSE
    OBVIOUS
  <2>1. PICK m \in Bad : \A k \in Bad : m <= k
    <3>1. Bad \in SUBSET Nat
      OBVIOUS
    <3> HIDE DEF Bad
    <3>2. QED BY <3>1, LeastNat
  <2>2. PICK c \in Ends : m \in 0 .. s /\ ~Gets(g[m][c], h[m][c])
    OBVIOUS
  <2> HIDE DEF Bad
  <2>3. g[m][c] = ReadAt(B, g, m, c) /\ h[m][c] = ReadAt(C, h, m, c) /\ m \in Nat
    BY <1>1, <2>2
  <2>4. h[m][c] # g[m][c] /\ Whole(h[m][c])
    BY <2>2 DEF Gets
  <2>5. m # 0 /\ c # NoBlock /\ c \in Blocks
    BY <2>2, <2>3, <2>4 DEF ReadAt, Ends
  <2>6. C[c] = B[c]
    <3> SUFFICES ASSUME C[c] = <<>> PROVE FALSE
      BY <2>5
    <3>1. Len(C[c]) # BlockSize /\ ~(Len(C[c]) >= m)
      <4>1. Len(C[c]) = 0
        BY EmptySeq
      <4>2. QED BY <2>3, <2>5, <4>1, Sizes
    <3>2. h[m][c] = <<Undefined>>
      BY <2>3, <2>5, <3>1 DEF ReadAt
    <3>3. ~Whole(<<Undefined>>)
      BY DEF Whole
    <3>4. QED BY <2>4, <3>2, <3>3
  <2>7. HasNext(m) /\ Len(B[c]) = BlockSize
    BY <2>3, <2>4, <2>5, <2>6 DEF ReadAt
  <2> DEFINE k == m - DataSize
             d == B[c][BlockSize].next
             u == SubSeq(B[c], 1, DataSize)
  <2>8. g[m][c] = u \o g[k][d] /\ h[m][c] = u \o h[k][d]
    BY <2>3, <2>5, <2>6, <2>7 DEF ReadAt
  <2>9. d \in Ends
    BY <2>5, <2>7, NextInEnds
  <2>10. k \in 0 .. s /\ ~(m <= k)
    <3>1. m \in Nat /\ m - DataSize \in 0 .. m - 1
      BY <2>2, <2>7, Sizes
    <3>2. QED BY <2>2, <3>1, Sizes
  <2>11. k \notin Bad
    BY <2>1, <2>10
  <2>12. u \in Seq(Unit)
    <3>1. B[c] \in Seq(Unit) /\ DataSize \in 0 .. Len(B[c])
      BY <2>5, <2>7, UnitsIn, Sizes
    <3>2. QED BY <3>1, Taken
  <2> HIDE DEF k, d, u
  <2>13. Gets(g[k][d], h[k][d]) /\ h[k][d] \in Seq(Unit)
    BY <1>1, <2>9, <2>10, <2>11 DEF Bad
  <2>14. Whole(h[k][d])
    BY <2>4, <2>8, <2>12, <2>13, WholeParts
  <2>15. QED BY <2>4, <2>8, <2>13, <2>14 DEF Gets
<1>3. Gets(g[n][b], h[n][b])
  BY <1>2
<1>4. QED BY <1>3 DEF g, h

\* The same of a file.
LEMMA TruncatedRead ==
  ASSUME NEW B, NEW C, BlocksHold(B), BlocksHold(C), NEW f \in Record,
         \A x \in Blocks : C[x] = B[x] \/ C[x] = <<>>
  PROVE  Gets(ReadOf(B, f), ReadOf(C, f))
<1>1. f.size \in Nat /\ f.size \in 0 .. f.size /\ f.start \in Ends
  BY RecordIs
<1>2. QED BY <1>1, TruncatedReads DEF ReadOf

-----------------------------------------------------------------------------
(***************************************************************************)
(* What is read of a file while it is written                              *)
(***************************************************************************)

\* A part of a sequence.
LEMMA Part ==
  ASSUME NEW c \in Seq(Unit), NEW a \in 1 .. Len(c) + 1, NEW b \in 0 .. Len(c), a <= b + 1
  PROVE  /\ SubSeq(c, a, b) \in Seq(Unit) /\ Len(SubSeq(c, a, b)) = b - a + 1
         /\ \A k \in 1 .. b - a + 1 : SubSeq(c, a, b)[k] = c[a + k - 1]
<1>1. Len(c) \in Nat
  BY LenProperties
<1>2. \A k \in a .. b : c[k] \in Unit
  <2>1. \A k \in a .. b : k \in 1 .. Len(c)
    BY <1>1
  <2>2. QED BY <2>1, ElementOfSeq
<1>3. a \in Int /\ b \in Int
  BY <1>1
<1>4. /\ SubSeq(c, a, b) \in Seq(Unit)
      /\ Len(SubSeq(c, a, b)) = IF a <= b THEN b - a + 1 ELSE 0
      /\ \A k \in 1 .. b - a + 1 : SubSeq(c, a, b)[k] = c[a + k - 1]
  BY <1>2, <1>3, SubSeqProperties
<1>5. (IF a <= b THEN b - a + 1 ELSE 0) = b - a + 1
  BY <1>1
<1>6. QED BY <1>4, <1>5

\* The next d units w of c are appended to the first k.
LEMMA TakeMore ==
  ASSUME NEW c \in Seq(Unit), NEW k \in Nat, NEW d \in Nat, k + d <= Len(c),
         NEW w \in Seq(Unit), Len(w) = d, \A j \in 1 .. d : w[j] = c[k + j]
  PROVE  SubSeq(c, 1, k) \o w = SubSeq(c, 1, k + d)
<1>1. Len(c) \in Nat /\ k \in 0 .. Len(c) /\ k + 1 \in 1 .. Len(c) + 1
      /\ k + d \in 0 .. Len(c) /\ k + 1 <= (k + d) + 1 /\ (k + d) - (k + 1) + 1 = d
      /\ \A j \in 1 .. d : (k + 1) + j - 1 = k + j
  BY LenProperties
<1> DEFINE v == SubSeq(c, k + 1, k + d)
<1>2. v \in Seq(Unit) /\ Len(v) = d /\ \A j \in 1 .. d : v[j] = c[k + j]
  BY <1>1, Part
<1> HIDE DEF v
<1>3. v = w
  <2>1. Len(v) = Len(w) /\ \A j \in 1 .. Len(v) : v[j] = w[j]
    BY <1>2
  <2>2. QED BY <1>2, <2>1, SeqEqual
<1>4. SubSeq(c, 1, k) \o v = SubSeq(c, 1, k + d)
  <2>1. 1 \in 1 .. Len(c) + 1 /\ k \in 1 - 1 .. Len(c) /\ k + d \in k .. Len(c)
    BY <1>1
  <2>2. QED BY <2>1, ConcatAdjacentSubSeq DEF v
<1>5. QED BY <1>3, <1>4

\* The rest of a rest.
LEMMA RestOfRest ==
  ASSUME NEW c \in Seq(Unit), NEW r \in 0 .. Len(c), NEW d \in 0 .. r
  PROVE  SubSeq(SubSeq(c, Len(c) - r + 1, Len(c)), d + 1, r)
           = SubSeq(c, Len(c) - (r - d) + 1, Len(c))
<1> DEFINE m == Len(c)
           a == m - r + 1
           b == m - (r - d) + 1
           s == SubSeq(c, a, m)
           t == SubSeq(s, d + 1, r)
           u == SubSeq(c, b, m)
<1>1. m \in Nat /\ r \in Nat /\ d \in Nat /\ d <= r /\ r <= m
  BY LenProperties
<1> HIDE DEF m
<1>2. /\ a \in 1 .. m + 1 /\ m \in 0 .. m /\ a <= m + 1 /\ m - a + 1 = r
      /\ b \in 1 .. m + 1 /\ b <= m + 1 /\ m - b + 1 = r - d
      /\ d + 1 \in 1 .. r + 1 /\ r \in 0 .. r /\ d + 1 <= r + 1 /\ r - (d + 1) + 1 = r - d
      /\ r - d \in Nat
      /\ \A k \in 1 .. r - d :
           /\ (d + 1) + k - 1 \in 1 .. r
           /\ a + ((d + 1) + k - 1) - 1 = b + k - 1
  BY <1>1
<1> HIDE DEF a, b
<1>3. s \in Seq(Unit) /\ Len(s) = r /\ \A k \in 1 .. r : s[k] = c[a + k - 1]
  BY <1>2, Part DEF m
<1>4. u \in Seq(Unit) /\ Len(u) = r - d /\ \A k \in 1 .. r - d : u[k] = c[b + k - 1]
  BY <1>2, Part DEF m
<1> HIDE DEF s, u
<1>5. t \in Seq(Unit) /\ Len(t) = r - d /\ \A k \in 1 .. r - d : t[k] = s[(d + 1) + k - 1]
  BY <1>2, <1>3, Part
<1> HIDE DEF t
<1>6. \A k \in 1 .. r - d : t[k] = u[k]
  BY <1>2, <1>3, <1>4, <1>5
<1>7. t = u
  BY <1>4, <1>5, <1>6, SeqEqual
<1>8. QED BY <1>7 DEF t, u, s, a, b, m

\* A file is opened: nothing of it is written.
LEMMA OpenWritten ==
  ASSUME NEW A, NEW to, NEW n \in HostSizes, NEW c \in Seq(Unit), Whole(c), Len(c) = n,
         NEW bitmap \in SUBSET Blocks
  PROVE  WrittenOf(A, Open(to, n, c, bitmap), bitmap, c)
<1> DEFINE f == Open(to, n, c, bitmap)
<1>1. /\ f.size = n /\ f.start = f.cur /\ f.cur = NextFree(bitmap) /\ f.rest = c
  BY DEF Open
<1> HIDE DEF f
<1>2. f.cur \in Ends /\ n \in Nat /\ n \in 0 .. n /\ n - n + 1 = 1 /\ n - n = 0 /\ n <= n
  BY <1>1, NextFreeIsFree, HostSizesAssumption DEF Ends
<1>3. c = SubSeq(c, 1, n) /\ SubSeq(c, 1, 0) = <<>>
  BY SubSeqFull, SubSeqEmpty
<1>4. ASSUME NEW B, BlocksHold(B)
      PROVE  ReadOf(B, f) = SubSeq(c, 1, 0) \o Reads(B, f.size)[n][f.cur]
  <2>1. Reads(B, n)[n][f.cur] \in Seq(Unit)
    BY <1>2, <1>4, ReadTyped
  <2>2. QED BY <1>1, <1>3, <2>1, ConcatEmptySeq DEF ReadOf
<1>5. WrittenOf(A, f, bitmap, c)
  BY <1>1, <1>2, <1>3, <1>4 DEF WrittenOf
<1>6. QED BY <1>5 DEF f

\* A block is written: the first units are one block more.
LEMMA FlushWritten ==
  ASSUME IInv, TInv, FlushBlock, NEW c, WrittenOf(block, out, m_bitmap, c),
         TailFits(Len(out.rest))
  PROVE  WrittenOf(block', out', m_bitmap', c)
<1> DEFINE r == Len(out.rest)
           k == Len(c) - r
           D == DataSize
<1>1. PICK next \in Ends, u \in Seq(Unit), v \in Seq(Unit) :
        /\ Len(u) = BlockSize /\ u[BlockSize] = [next |-> next]
        /\ \A j \in 1 .. D : u[j] = out.rest[j]
        /\ v = SubSeq(out.rest, D + 1, r)
        /\ Len(v) = r - D
        /\ block' = [block EXCEPT ![out.cur] = u]
        /\ out' = [out EXCEPT !.cur = next, !.rest = v]
  BY FlushIs
<1>2. /\ pc = "writing" /\ r >= D /\ r \in Nat /\ out \in FileOpen
      /\ out.cur \in Blocks /\ m_bitmap' = m_bitmap \cup {out.cur}
  BY FlushIs
<1>3. out.cur # NoBlock /\ out.cur \in Ends
  BY <1>2, NoBlockIsNone DEF Ends
<1>4. /\ out'.size = out.size /\ out'.start = out.start
      /\ out'.cur = next /\ out'.rest = v
  BY <1>1, <1>2 DEF FileOpen
<1>5. /\ c \in Seq(Unit) /\ Len(c) = out.size /\ r <= Len(c)
      /\ out.rest = SubSeq(c, k + 1, Len(c))
      /\ \A B : BlocksHold(B) /\ (\A b \in m_bitmap : B[b] = block[b]) =>
           ReadOf(B, out) = SubSeq(c, 1, k) \o Reads(B, out.size)[r][out.cur]
  BY DEF WrittenOf
<1>6. /\ D \in Nat /\ D > 0 /\ BlockSize = D + 1 /\ r - D \in Nat
      /\ ~HasNext(r) => r - D = 0
  BY <1>2, RestFits, Sizes
<1>7. /\ Len(c) \in Nat /\ out.size \in Nat /\ k \in Nat /\ k + D <= Len(c)
      /\ r \in 0 .. out.size /\ r - D \in 0 .. out.size /\ r # 0
      /\ k + D = Len(c) - (r - D) /\ r - D <= Len(c)
      /\ r \in 0 .. Len(c) /\ D \in 0 .. r
  <2>1. Len(c) \in Nat
    BY <1>5, LenProperties
  <2>2. QED BY <1>2, <1>5, <1>6, <2>1
<1>8. v = SubSeq(c, Len(c) - (r - D) + 1, Len(c))
  BY <1>1, <1>5, <1>7, RestOfRest
<1>9. \A j \in 1 .. D : u[j] = c[k + j]
  <2>1. /\ k + 1 \in 1 .. Len(c) + 1 /\ Len(c) \in 0 .. Len(c) /\ k + 1 <= Len(c) + 1
        /\ Len(c) - (k + 1) + 1 = r
        /\ \A j \in 1 .. D : j \in 1 .. r /\ (k + 1) + j - 1 = k + j
    <3>1. ASSUME NEW m \in Nat, NEW a \in Nat, NEW b \in Nat, NEW d \in Nat,
                 a + b = m, d <= b
          PROVE  /\ a + 1 \in 1 .. m + 1 /\ m \in 0 .. m /\ a + 1 <= m + 1
                 /\ m - (a + 1) + 1 = b
                 /\ \A j \in 1 .. d : j \in 1 .. b /\ (a + 1) + j - 1 = a + j
      BY <3>1
    <3>2. k + r = Len(c) /\ D <= r
      BY <1>2, <1>7
    <3> HIDE DEF r, k, D
    <3>3. QED BY <1>2, <1>6, <1>7, <3>1, <3>2
  <2> HIDE DEF r, k, D
  <2>2. \A j \in 1 .. r : SubSeq(c, k + 1, Len(c))[j] = c[(k + 1) + j - 1]
    BY <1>5, <2>1, Part
  <2>3. QED BY <1>1, <1>5, <2>1, <2>2
<1>10. ASSUME NEW B, BlocksHold(B), \A b \in m_bitmap' : B[b] = block'[b]
       PROVE  ReadOf(B, out') = SubSeq(c, 1, k + D) \o Reads(B, out'.size)[r - D][next]
  <2> DEFINE w == SubSeq(u, 1, D)
             z == Reads(B, out.size)[r - D][next]
  <2>1. B[out.cur] = u /\ \A b \in m_bitmap : B[b] = block[b]
    <3>1. m_bitmap \in SUBSET Blocks /\ out.cur \notin m_bitmap
      BY <1>2, <1>3 DEF IInv, BitmapInv, NextInv
    <3>2. block'[out.cur] = u /\ \A b \in m_bitmap : block'[b] = block[b]
      BY <1>1, <1>2, <3>1 DEF TInv, HeldInv
    <3>3. QED BY <1>2, <1>10, <3>2
  <2>2. ReadOf(B, out) = SubSeq(c, 1, k) \o Reads(B, out.size)[r][out.cur]
    BY <1>5, <1>10, <2>1
  <2>3. ReadOf(B, out') = ReadOf(B, out)
    BY <1>4 DEF ReadOf
  <2>4. z \in Seq(Unit)
    BY <1>7, <1>10, ReadTyped
  <2>5. w \in Seq(Unit) /\ Len(w) = D /\ \A j \in 1 .. D : w[j] = c[k + j]
    <3>1. D \in 0 .. Len(u)
      BY <1>1, <1>6
    <3> HIDE DEF D, k
    <3>2. QED BY <1>9, <3>1, Taken
  <2>6. Reads(B, out.size)[r][out.cur] = w \o z
    <3>1. Reads(B, out.size)[r][out.cur] = ReadAt(B, Reads(B, out.size), r, out.cur)
      BY <1>3, <1>7, ReadUnfolds
    <3>2. CASE HasNext(r)
      <4>1. Len(B[out.cur]) = BlockSize /\ B[out.cur][BlockSize].next = next
        BY <1>1, <2>1
      <4>2. QED BY <1>3, <1>7, <2>1, <3>1, <3>2, <4>1 DEF ReadAt
    <3>3. CASE ~HasNext(r)
      <4>1. r = D /\ r - D = 0
        BY <1>2, <1>6, <3>3
      <4>2. Len(B[out.cur]) >= r
        BY <1>1, <1>6, <2>1, <4>1
      <4>3. Reads(B, out.size)[r][out.cur] = w
        BY <1>3, <1>7, <2>1, <3>1, <3>3, <4>1, <4>2 DEF ReadAt
      <4>4. z = <<>>
        <5>1. z = ReadAt(B, Reads(B, out.size), r - D, next)
          BY <1>7, ReadUnfolds
        <5>2. QED BY <4>1, <5>1 DEF ReadAt
      <4>5. QED BY <2>5, <4>3, <4>4, ConcatEmptySeq
    <3>4. QED BY <3>2, <3>3
  <2> HIDE DEF w, z, D, k, r
  <2>7. SubSeq(c, 1, k) \in Seq(Unit)
    <3>1. k \in 0 .. Len(c)
      BY <1>6, <1>7
    <3>2. QED BY <1>5, <3>1, Taken
  <2>8. SubSeq(c, 1, k) \o (w \o z) = (SubSeq(c, 1, k) \o w) \o z
    <3> DEFINE h == SubSeq(c, 1, k)
    <3>1. h \in Seq(Unit) /\ w \in Seq(Unit) /\ z \in Seq(Unit)
      BY <2>4, <2>5, <2>7
    <3> HIDE DEF h
    <3>2. (h \o w) \o z = h \o (w \o z)
      BY <3>1, ConcatAssociative
    <3>3. QED BY <3>2 DEF h
  <2>9. SubSeq(c, 1, k) \o w = SubSeq(c, 1, k + D)
    <3>1. /\ c \in Seq(Unit) /\ k \in Nat /\ D \in Nat /\ k + D <= Len(c)
          /\ w \in Seq(Unit) /\ Len(w) = D /\ \A j \in 1 .. D : w[j] = c[k + j]
      BY <1>5, <1>6, <1>7, <2>5
    <3>2. k \in Nat /\ D \in Nat /\ k + D <= Len(c)
      BY <3>1
    <3>3. c \in Seq(Unit) /\ w \in Seq(Unit) /\ Len(w) = D
      BY <3>1
    <3>4. \A j \in 1 .. D : w[j] = c[k + j]
      BY <3>1
    <3>5. QED BY <3>2, <3>3, <3>4, TakeMore, SMTT(30)
  <2>10. QED BY <1>4, <2>2, <2>3, <2>6, <2>8, <2>9 DEF z
<1>11. Len(v) = r - D /\ Len(c) - Len(v) = k + D
  BY <1>1, <1>7
<1> HIDE DEF k, D, r
<1>12. Len(out'.rest) = r - D /\ Len(c) = out'.size /\ Len(c) - Len(out'.rest) = k + D
  BY <1>4, <1>5, <1>11
<1>13. out'.rest = SubSeq(c, Len(c) - Len(out'.rest) + 1, Len(c))
  BY <1>4, <1>8, <1>12
<1>14. QED BY <1>4, <1>5, <1>7, <1>10, <1>12, <1>13 DEF WrittenOf

\* The file is finished: it reads as c, or shows that its end is missing.
LEMMA FinishWritten ==
  ASSUME IInv, TInv, FinishFile, NEW c, WrittenOf(block, out, m_bitmap, c)
  PROVE  Gets(c, ReadOf(block', [start |-> out.start, size |-> out.size]))
<1> DEFINE r == Len(out.rest)
           k == Len(c) - r
           s == out.size
           z == Reads(block', s)[r][out.cur]
           f == [start |-> out.start, size |-> out.size]
           writes == out.rest # <<>> /\ out.cur # NoBlock
<1>1. /\ pc = "writing" /\ out # NoFile /\ r < DataSize
      /\ IF writes
         THEN block' = [block EXCEPT ![out.cur] = out.rest]
              /\ m_bitmap' = m_bitmap \cup {out.cur}
         ELSE block' = block /\ m_bitmap' = m_bitmap
  BY DEF FinishFile, index
<1>2. /\ out \in FileOpen /\ out.rest \in Seq(Unit) /\ r \in Nat
      /\ out.cur \in Ends /\ (r = 0 <=> out.rest = <<>>)
  <2>1. out \in FileOpen
    BY <1>1 DEF TInv, JobsInv, JobsIn
  <2>2. out.rest \in Seq(Unit) /\ out.cur \in Ends
    BY <2>1 DEF FileOpen
  <2>3. QED BY <2>1, <2>2, LenProperties, EmptySeq
<1>3. BlocksHold(block')
  <2>1. \/ out.cur # NoBlock /\ block' = [block EXCEPT ![out.cur] = out.rest]
        \/ block' = block
    BY <1>1
  <2>2. HeldInv'
    BY <1>1, <2>1, TailWritten
  <2>3. QED BY <2>2 DEF HeldInv
<1>4. /\ writes => block'[out.cur] = out.rest
      /\ \A b \in m_bitmap : block'[b] = block[b]
  <2>1. m_bitmap \in SUBSET Blocks /\ (out.cur # NoBlock => out.cur \in Blocks \ m_bitmap)
    BY <1>1 DEF IInv, BitmapInv, NextInv
  <2>2. QED BY <1>1, <2>1 DEF TInv, HeldInv
<1>5. /\ c \in Seq(Unit) /\ Len(c) = s /\ r <= Len(c)
      /\ out.rest = SubSeq(c, k + 1, Len(c))
      /\ ReadOf(block', out) = SubSeq(c, 1, k) \o z
  BY <1>3, <1>4 DEF WrittenOf
<1>6. /\ Len(c) \in Nat /\ s \in Nat /\ k \in Nat /\ k + r = Len(c) /\ r \in 0 .. s
      /\ k \in 0 .. Len(c)
  <2>1. Len(c) \in Nat
    BY <1>5, LenProperties
  <2>2. QED BY <1>2, <1>5, <2>1
<1>7. ReadOf(block', f) = SubSeq(c, 1, k) \o z
  BY <1>5 DEF ReadOf
<1>8. z = ReadAt(block', Reads(block', s), r, out.cur)
  BY <1>2, <1>6, ReadUnfolds
<1>9. SubSeq(c, 1, k) \in Seq(Unit) /\ z \in Seq(Unit)
  BY <1>2, <1>3, <1>5, <1>6, Taken, ReadTyped
<1>10. SubSeq(c, 1, Len(c)) = c
  BY <1>5, SubSeqFull
<1>11. CASE r = 0
  <2>1. z = <<>> /\ k = Len(c)
    BY <1>6, <1>8, <1>11 DEF ReadAt
  <2> HIDE DEF z, k, r, f
  <2>2. SubSeq(c, 1, k) \o z = c
    BY <1>5, <1>10, <2>1, ConcatEmptySeq
  <2>3. QED BY <1>7, <2>2 DEF Gets, f
<1>12. CASE r # 0 /\ out.cur = NoBlock
  <2>1. z = <<Unopened>>
    BY <1>8, <1>12 DEF ReadAt
  <2>2. ~Whole(<<Unopened>>)
    BY DEF Whole
  <2> HIDE DEF z, k, r, f
  <2>3. ~Whole(SubSeq(c, 1, k) \o z)
    BY <1>9, <2>1, <2>2, WholeParts
  <2>4. QED BY <1>7, <2>3 DEF Gets, f
<1>13. CASE r # 0 /\ out.cur # NoBlock
  <2>1. writes /\ block'[out.cur] = out.rest /\ ~HasNext(r)
    BY <1>1, <1>2, <1>4, <1>13, Sizes
  <2>2. Len(block'[out.cur]) >= r
    BY <1>2, <2>1
  <2>3. z = SubSeq(out.rest, 1, r)
    BY <1>8, <1>13, <2>1, <2>2 DEF ReadAt
  <2>4. SubSeq(out.rest, 1, r) = out.rest
    BY <1>2, SubSeqFull
  <2>5. \A j \in 1 .. r : out.rest[j] = c[k + j]
    <3>1. /\ k + 1 \in 1 .. Len(c) + 1 /\ Len(c) \in 0 .. Len(c) /\ k + 1 <= Len(c) + 1
          /\ Len(c) - (k + 1) + 1 = r
          /\ \A j \in 1 .. r : (k + 1) + j - 1 = k + j
      <4>1. ASSUME NEW m \in Nat, NEW a \in Nat, NEW b \in Nat, a + b = m
            PROVE  /\ a + 1 \in 1 .. m + 1 /\ m \in 0 .. m /\ a + 1 <= m + 1
                   /\ m - (a + 1) + 1 = b
                   /\ \A j \in 1 .. b : (a + 1) + j - 1 = a + j
        BY <4>1
      <4> HIDE DEF r, k
      <4>2. QED BY <1>2, <1>6, <4>1
    <3> HIDE DEF r, k
    <3>2. \A j \in 1 .. r : SubSeq(c, k + 1, Len(c))[j] = c[(k + 1) + j - 1]
      BY <1>5, <3>1, Part
    <3>3. QED BY <1>5, <3>1, <3>2
  <2>6. SubSeq(c, 1, k) \o out.rest = SubSeq(c, 1, k + r)
    <3>1. Len(out.rest) = r /\ k + r <= Len(c)
      BY <1>6
    <3> DEFINE w == out.rest
    <3> HIDE DEF r, k
    <3>2. /\ c \in Seq(Unit) /\ k \in Nat /\ r \in Nat /\ k + r <= Len(c)
          /\ w \in Seq(Unit) /\ Len(w) = r /\ \A j \in 1 .. r : w[j] = c[k + j]
      BY <1>2, <1>5, <1>6, <2>5, <3>1
    <3> HIDE DEF w
    <3>3. SubSeq(c, 1, k) \o w = SubSeq(c, 1, k + r)
      BY <3>2, TakeMore
    <3>4. QED BY <3>3 DEF w
  <2> HIDE DEF z, k, r, f
  <2>7. QED BY <1>6, <1>7, <1>10, <2>3, <2>4, <2>6 DEF Gets, f
<1>14. QED BY <1>11, <1>12, <1>13

-----------------------------------------------------------------------------
(***************************************************************************)
(* Steps of the store                                                      *)
(***************************************************************************)

\* What lies above a directory are directories.
LEMMA AncestorIsDir ==
  ASSUME NEW t, IsTree(t), NEW p \in Paths, NEW x \in t.dirs, AtOrBelow(p, x)
  PROVE  p \in t.dirs
<1> DEFINE fs == DOMAIN t.files
           u == [dirs |-> t.dirs \ {}, files |-> Restrict(t.files, fs \ fs)]
<1>1. IsTree(u)
  BY DropIsTree
<1>2. u.dirs = t.dirs /\ DOMAIN u.files = {}
  BY DEF Restrict
<1> HIDE DEF u
<1>3. Exists(u, p)
  BY <1>1, <1>2, AncestorExists DEF Nodes
<1>4. QED BY <1>2, <1>3 DEF Exists

\* Both modules mean the same by these.
LEMMA SameNames ==
  /\ \A p, x : Store!AtOrBelow(p, x) = AtOrBelow(p, x)
  /\ \A p, x : Store!Below(p, x) = Below(p, x)
  /\ \A p, q, x : Store!Onto(p, q, x) = Onto(p, q, x)
  /\ \A x : Store!Front(x) = Front(x)
  /\ \A c : Store!Whole(c) = Whole(c)
  /\ \A n : Store!Content(n) = Content(n)
  /\ Store!Root = Root
<1>1. /\ \A p, x : Store!AtOrBelow(p, x) = AtOrBelow(p, x)
      /\ \A p, x : Store!Below(p, x) = Below(p, x)
  BY DEF Store!AtOrBelow, AtOrBelow, Store!Below, Below,
         Store!IsPrefix, IsPrefix, Store!IsStrictPrefix, IsStrictPrefix
<1>2. \A p, q, x : Store!Onto(p, q, x) = Onto(p, q, x)
  BY DEF Store!Onto, Onto
<1>3. \A x : Store!Front(x) = Front(x)
  BY DEF Store!Front, Front
<1>4. \A c : Store!Whole(c) = Whole(c)
  BY DEF Store!Whole, Whole, Store!Unopened, Unopened, Store!Undefined, Undefined
<1>5. \A n : Store!Content(n) = Content(n)
  BY DEF Store!Content, Content
<1>6. Store!Root = Root
  BY DEF Store!Root, Root
<1>7. QED BY <1>1, <1>2, <1>3, <1>4, <1>5, <1>6

\* The contents of the files of t when A is in the blocks.
Contents(A, t) == [x \in DOMAIN t.files |-> ReadOf(A, t.files[x])]

\* The files of the store are the contents of the tree that is shown.
LEMMA StoreFiles ==
  /\ [p \in DOMAIN Shown.files |-> Read(Shown.files[p])] = Contents(block, Shown)
  /\ [p \in DOMAIN Shown.files |-> Read(Shown.files[p])]' = Contents(block', Shown')
<1>1. [p \in DOMAIN Shown.files |-> Read(Shown.files[p])] = Contents(block, Shown)
  BY ReadIsOf DEF Contents
<1>2. [p \in DOMAIN Shown.files |-> Read(Shown.files[p])]' = Contents(block', Shown')
  BY DEF Contents, Read, ReadOf, Reads, ReadAt, Ends
<1>3. QED BY <1>1, <1>2

\* mkdir, as it is shown.
LEMMA MadeShown ==
  ASSUME NEW A, NEW s, NEW p, Shown = s, Shown' = Made(s, p), block = A, block' = A
  PROVE  Store!MakeDir(p)
<1> DEFINE F == [x \in DOMAIN Shown.files |-> Read(Shown.files[x])]
           rest == {x \in DOMAIN s.files : ~Below(p, x)}
           t == Made(s, p)
<1>1. F = Contents(A, s) /\ F' = Contents(A, t)
  BY StoreFiles
<1>2. /\ t.dirs = {x \in s.dirs : ~Below(p, x)} \cup {x \in Paths : AtOrBelow(x, p)}
      /\ DOMAIN t.files = rest /\ \A x \in rest : t.files[x] = s.files[x]
  BY DEF Made, Restrict
<1>3. /\ DOMAIN F = DOMAIN s.files /\ DOMAIN F' = rest
      /\ \A x \in rest : F'[x] = F[x]
  BY <1>1, <1>2 DEF Contents
<1> HIDE DEF t
<1>4. Shown'.dirs = t.dirs /\ Shown.dirs = s.dirs
  BY DEF t
<1> HIDE DEF F
<1>5. /\ Shown'.dirs =
           {x \in Shown.dirs : ~Below(p, x)} \cup {x \in Paths : AtOrBelow(x, p)}
      /\ DOMAIN F' = {x \in DOMAIN F : ~Below(p, x)}
      /\ \A x \in {x \in DOMAIN F : ~Below(p, x)} : x \in DOMAIN F' /\ F'[x] = F[x]
  BY <1>2, <1>3, <1>4
<1>6. QED BY <1>5, SameNames DEF F, Store!MakeDir, Store!Keep

\* rm, as it is shown.
LEMMA RemovedShown ==
  ASSUME NEW A, NEW s, IsTree(s), NEW t, NEW p \in Paths \cup {Root}, IsRemoved(s, t, p),
         Shown = s, Shown' = t, block = A, block' = A
  PROVE  Store!Delete(p)
<1> DEFINE F == [x \in DOMAIN Shown.files |-> Read(Shown.files[x])]
           rest == IF IsDir(s, p) THEN {x \in DOMAIN s.files : ~Below(p, x)}
                   ELSE DOMAIN s.files \ {p}
<1>1. F = Contents(A, s) /\ F' = Contents(A, t)
  BY StoreFiles
<1>2. /\ Exists(s, p) \/ p = Root
      /\ t.dirs = {x \in s.dirs : ~AtOrBelow(p, x)}
      /\ DOMAIN t.files = rest /\ \A x \in rest : t.files[x] = s.files[x]
  <2>1. CASE IsDir(s, p)
    <3>1. t.dirs = s.dirs \ {x \in s.dirs : AtOrBelow(p, x)}
      BY <2>1 DEF IsRemoved, Subtree
    <3>2. t.files = Restrict(s.files, DOMAIN s.files \ {x \in DOMAIN s.files : Below(p, x)})
      BY <2>1 DEF IsRemoved, Subtree
    <3>3. DOMAIN s.files \ {x \in DOMAIN s.files : Below(p, x)} = rest
      BY <2>1
    <3>4. QED BY <3>1, <3>2, <3>3 DEF IsRemoved, Restrict
  <2>2. CASE ~IsDir(s, p)
    <3>1. \A x \in s.dirs : ~AtOrBelow(p, x)
      BY <2>2, AncestorIsDir DEF IsDir
    <3>2. t.dirs = s.dirs \ {} /\ t.files = Restrict(s.files, rest)
      BY <2>2 DEF IsRemoved
    <3>3. QED BY <3>1, <3>2, <2>2 DEF IsRemoved, Restrict
  <2>3. QED BY <2>1, <2>2
<1>3. /\ DOMAIN F = DOMAIN s.files /\ DOMAIN F' = rest
      /\ \A x \in rest : x \in DOMAIN F' /\ F'[x] = F[x]
  BY <1>1, <1>2 DEF Contents
<1>4. /\ Shown.dirs = s.dirs /\ Shown'.dirs = {x \in Shown.dirs : ~AtOrBelow(p, x)}
  BY <1>2
<1> HIDE DEF F
<1>5. /\ Store!Exists(p) \/ p = Store!Root
      /\ Store!IsDir(p) <=> IsDir(s, p)
  BY <1>2, <1>3, <1>4, SameNames DEF Store!Exists, Store!IsDir, Exists, IsDir, F
<1>6. /\ DOMAIN F' = IF Store!IsDir(p) THEN {x \in DOMAIN F : ~Store!Below(p, x)}
                     ELSE DOMAIN F \ {p}
      /\ \A x \in DOMAIN F' : F'[x] = F[x]
      /\ Shown'.dirs = {x \in Shown.dirs : ~Store!AtOrBelow(p, x)}
  BY <1>3, <1>4, <1>5, SameNames
<1>7. QED BY <1>5, <1>6 DEF F, Store!Delete, Store!Keep

\* mv, as it is shown.
LEMMA MovedShown ==
  ASSUME NEW A, NEW s, IsTree(s), NEW t, NEW p \in Paths, NEW q \in Paths,
         IsMoved(s, t, p, q), Shown = s, Shown' = t, block = A, block' = A
  PROVE  Store!Move(p, q)
<1> DEFINE F == [x \in DOMAIN Shown.files |-> Read(Shown.files[x])]
           ds == {x \in s.dirs : AtOrBelow(p, x)}
           fs == {x \in DOMAIN s.files : IF p \in s.dirs THEN Below(p, x) ELSE x = p}
           S == IF p \in s.dirs THEN Subtree(s, p) ELSE [dirs |-> {}, files |-> {p}]
           stay == DOMAIN s.files \ fs
           there == {Onto(p, q, x) : x \in fs}
<1>1. F = Contents(A, s) /\ F' = Contents(A, t)
  BY StoreFiles
<1>2. S.dirs = ds /\ S.files = fs
  <2>1. CASE p \in s.dirs
    BY <2>1 DEF Subtree
  <2>2. CASE p \notin s.dirs
    <3>1. ds = {}
      BY <2>2, AncestorIsDir
    <3>2. fs = {p}
      BY <2>2 DEF IsMoved, Exists
    <3>3. QED BY <2>2, <3>1, <3>2
  <2>3. QED BY <2>1, <2>2
<1>3. t = Moved(s, p, q, S)
  BY DEF IsMoved
<1> HIDE DEF S
<1>4. /\ t.dirs = (s.dirs \ ds) \cup {Onto(p, q, x) : x \in ds}
      /\ DOMAIN t.files = stay \cup there
      /\ \A y \in stay : t.files[y] = s.files[y]
      /\ \A y \in there \ stay : t.files[y] = s.files[Onto(q, p, y)]
  BY <1>2, <1>3 DEF Moved
<1>5. ASSUME NEW x \in fs
      PROVE  /\ x \in DOMAIN s.files /\ Onto(p, q, x) \in there \ stay
             /\ Onto(q, p, Onto(p, q, x)) = x
  <2>1. x \in DOMAIN s.files /\ p \in Seq(Names) /\ q \in Seq(Names) /\ x \in Seq(Names)
    BY Existing, PathsAreSeqs DEF Nodes
  <2>2. AtOrBelow(p, x)
    <3>1. Len(x) # 0
      BY <2>1, Existing DEF Nodes
    <3>2. Below(p, x) => AtOrBelow(p, x)
      BY <2>1, <3>1, BelowFront
    <3>3. AtOrBelow(p, p)
      BY <2>1, PrefixIs
    <3>4. QED BY <3>2, <3>3
  <2>3. AtOrBelow(q, Onto(p, q, x)) /\ Onto(q, p, Onto(p, q, x)) = x
    BY <2>1, <2>2, OntoBack
  <2>4. Onto(p, q, x) \notin DOMAIN s.files
    BY <2>3, AncestorExists DEF IsMoved, Nodes
  <2>5. QED BY <2>1, <2>3, <2>4
<1>6. \A x \in fs : t.files[Onto(p, q, x)] = s.files[x] /\ Onto(p, q, x) \in DOMAIN t.files
  BY <1>4, <1>5
<1>7. /\ DOMAIN F = DOMAIN s.files /\ DOMAIN F' = stay \cup there
      /\ \A x \in stay : x \in DOMAIN F' /\ F'[x] = F[x]
      /\ \A x \in fs : F'[Onto(p, q, x)] = F[x]
  BY <1>1, <1>4, <1>6 DEF Contents
<1>8. /\ Shown.dirs = s.dirs
      /\ Shown'.dirs = {x \in s.dirs : ~AtOrBelow(p, x)} \cup {Onto(p, q, x) : x \in ds}
  BY <1>4
<1>9. /\ Exists(s, p) /\ ~Exists(s, q) /\ IsDir(s, Front(q))
      /\ p \in s.dirs => ~AtOrBelow(p, q)
  BY DEF IsMoved
<1> HIDE DEF F
<1>10. /\ Store!Exists(p) /\ Store!Free(q)
       /\ p \in Shown.dirs => ~Store!AtOrBelow(p, q)
       /\ Shown'.dirs = {x \in Shown.dirs : ~Store!AtOrBelow(p, x)}
             \cup {Store!Onto(p, q, x) : x \in {d \in Shown.dirs : Store!AtOrBelow(p, d)}}
  <2>1. Store!Exists(p) /\ Store!Free(q)
    BY <1>7, <1>8, <1>9, SameNames
    DEF Store!Exists, Store!Free, Store!IsDir, Exists, IsDir, F
  <2>2. p \in Shown.dirs => ~Store!AtOrBelow(p, q)
    BY <1>8, <1>9, SameNames
  <2>3. {Onto(p, q, x) : x \in ds}
          = {Store!Onto(p, q, x) : x \in {d \in Shown.dirs : Store!AtOrBelow(p, d)}}
    BY <1>8, SameNames
  <2>4. {x \in s.dirs : ~AtOrBelow(p, x)} = {x \in Shown.dirs : ~Store!AtOrBelow(p, x)}
    BY <1>8, SameNames
  <2>5. QED BY <1>8, <2>1, <2>2, <2>3, <2>4
<1> DEFINE gone == {x \in DOMAIN F :
                      IF p \in Shown.dirs THEN Store!Below(p, x) ELSE x = p}
<1>11. gone = fs
  BY <1>7, <1>8, SameNames
<1>12. there = {Store!Onto(p, q, x) : x \in gone}
  BY <1>11, SameNames
<1>13. /\ DOMAIN F' = (DOMAIN F \ gone) \cup {Store!Onto(p, q, x) : x \in gone}
       /\ \A x \in DOMAIN F \ gone : x \in DOMAIN F' /\ F'[x] = F[x]
       /\ \A x \in gone : F'[Store!Onto(p, q, x)] = F[x]
  BY <1>7, <1>11, <1>12, SameNames
<1>14. QED BY <1>10, <1>13 DEF F, Store!Move, Store!Keep

\* import, as it is shown.
LEMMA ImportShown ==
  ASSUME NEW A, NEW s, NEW t, NEW p \in Paths, NEW n, ImportDone(A, s, t, p, n),
         Shown = s, Shown' = t, block = A, block' = A
  PROVE  Store!Import(p, n)
<1> DEFINE F == [x \in DOMAIN Shown.files |-> Read(Shown.files[x])]
<1>1. F = Contents(A, s) /\ F' = Contents(A, t)
  BY StoreFiles
<1>2. /\ DOMAIN F = DOMAIN s.files /\ DOMAIN F' = DOMAIN s.files \cup {p}
      /\ \A x \in DOMAIN s.files \ {p} : x \in DOMAIN F' /\ F'[x] = F[x]
      /\ F'[p] = Content(n) \/ ~Whole(F'[p])
  BY <1>1 DEF Contents, ImportDone, Gets
<1>3. IsDir(s, Front(p)) /\ Shown.dirs = s.dirs /\ Shown'.dirs = Shown.dirs
  BY DEF ImportDone
<1> HIDE DEF F
<1>4. Store!IsDir(Store!Front(p))
  BY <1>3, SameNames DEF Store!IsDir, IsDir
<1>5. F'[p] = Store!Content(n) \/ ~Store!Whole(F'[p])
  BY <1>2, SameNames
<1>6. QED BY <1>2, <1>3, <1>4, <1>5 DEF F, Store!Import, Store!Keep, Store!Holds

\* cp, as it is shown.
LEMMA CopyShown ==
  ASSUME NEW A, NEW s, NEW t, NEW p \in Paths, NEW q \in Paths,
         CopyGoes(A, s, t, NoFile, {}, {}, <<>>, p, q),
         Shown = s, Shown' = t, block = A, block' = A
  PROVE  Store!Copy(p, q)
<1> DEFINE F == [x \in DOMAIN Shown.files |-> Read(Shown.files[x])]
           fs == Copied(s, p)
<1>1. F = Contents(A, s) /\ F' = Contents(A, t)
  BY StoreFiles
<1>2. /\ Exists(s, p) /\ ~Exists(s, q) /\ IsDir(s, Front(q))
      /\ s.dirs \subseteq t.dirs
      /\ \A x \in t.dirs \ s.dirs : AtOrBelow(q, x)
      /\ DOMAIN s.files \subseteq DOMAIN t.files
      /\ \A x \in DOMAIN s.files : t.files[x] = s.files[x]
      /\ \A x \in s.dirs : AtOrBelow(p, x) => Onto(p, q, x) \in t.dirs
  BY DEF CopyGoes, Grown
<1>3. \A y \in DOMAIN t.files \ DOMAIN s.files :
        AtOrBelow(q, y) /\ IsCopy(A, s, p, t.files[y])
  BY DEF CopyGoes, Grown
<1>4. \A x \in fs : CopyComes(A, s, t, NoFile, {}, {}, <<>>, x, Onto(p, q, x))
  BY DEF CopyGoes
<1>5. \A x \in fs : /\ Onto(p, q, x) \in DOMAIN t.files
                    /\ Gets(ReadOf(A, s.files[x]), ReadOf(A, t.files[Onto(p, q, x)]))
  BY <1>4 DEF CopyComes
<1>6. /\ DOMAIN F = DOMAIN s.files /\ DOMAIN F' = DOMAIN t.files
      /\ \A x \in DOMAIN s.files : F[x] = ReadOf(A, s.files[x])
      /\ \A x \in DOMAIN t.files : F'[x] = ReadOf(A, t.files[x])
  BY <1>1 DEF Contents
<1>7. fs = {x \in DOMAIN F : IF p \in Shown.dirs THEN Store!Below(p, x) ELSE x = p}
  BY <1>6, SameNames DEF Copied
<1>8. fs \subseteq DOMAIN s.files
  BY DEF Copied
<1>9. \A y \in DOMAIN t.files \ DOMAIN s.files :
        \E x \in fs : Gets(ReadOf(A, s.files[x]), ReadOf(A, t.files[y]))
  BY <1>3 DEF IsCopy
<1> HIDE DEF F, fs
<1>10. Shown.dirs = s.dirs /\ Shown'.dirs = t.dirs
  OBVIOUS
<1>11. Store!Exists(p) /\ Store!Free(q)
  BY <1>2, <1>6, <1>10, SameNames
  DEF Store!Exists, Store!Free, Store!IsDir, Exists, IsDir, F
<1>12. /\ Shown.dirs \subseteq Shown'.dirs
       /\ \A x \in Shown.dirs : Store!AtOrBelow(p, x) => Store!Onto(p, q, x) \in Shown'.dirs
       /\ \A x \in Shown'.dirs \ Shown.dirs : Store!AtOrBelow(q, x)
  BY <1>2, <1>10, SameNames
<1>13. /\ DOMAIN F \subseteq DOMAIN F'
       /\ \A x \in DOMAIN F : x \in DOMAIN F' /\ F'[x] = F[x]
  BY <1>2, <1>6
<1>14. ASSUME NEW x \in fs
       PROVE  /\ Store!Onto(p, q, x) \in DOMAIN F'
              /\ \/ F'[Store!Onto(p, q, x)] = F[x]
                 \/ ~Store!Whole(F'[Store!Onto(p, q, x)])
  BY <1>5, <1>6, <1>8, SameNames DEF Gets
<1>15. ASSUME NEW y \in DOMAIN F' \ DOMAIN F
       PROVE  /\ Store!AtOrBelow(q, y)
              /\ \E x \in fs : F'[y] = F[x] \/ ~Store!Whole(F'[y])
  <2>1. y \in DOMAIN t.files \ DOMAIN s.files
    BY <1>6
  <2>2. PICK x \in fs : Gets(ReadOf(A, s.files[x]), ReadOf(A, t.files[y]))
    BY <1>9, <2>1
  <2>3. F'[y] = F[x] \/ ~Store!Whole(F'[y])
    BY <1>6, <1>8, <2>1, <2>2, SameNames DEF Gets
  <2>4. QED BY <1>3, <2>1, <2>2, <2>3, SameNames
<1>16. QED
  BY <1>7, <1>11, <1>12, <1>13, <1>14, <1>15
  DEF F, Store!Copy, Store!Keep, Store!Arrives, Store!Holds

\* Everything is lost.
LEMMA LostShown ==
  ASSUME Shown' = EmptyTree, IsCut' = FALSE
  PROVE  Store!Lose
<1>1. DOMAIN Shown'.files = {}
  BY DEF EmptyTree
<1>2. [x \in DOMAIN Shown.files |-> Read(Shown.files[x])]' = <<>>
  BY <1>1
<1>3. QED BY <1>2 DEF Store!Lose, EmptyTree

\* A part is left.
LEMMA CutShown ==
  ASSUME IsPart(Shown', Shown), IsTree(Shown'), block' = block, IsCut' = TRUE
  PROVE  Store!Cut
<1> DEFINE F == [x \in DOMAIN Shown.files |-> Read(Shown.files[x])]
<1>1. F = Contents(block, Shown) /\ F' = Contents(block, Shown')
  BY StoreFiles
<1>2. /\ DOMAIN F = DOMAIN Shown.files /\ DOMAIN F' = DOMAIN Shown'.files
      /\ \A x \in DOMAIN Shown.files : F[x] = ReadOf(block, Shown.files[x])
      /\ \A x \in DOMAIN Shown'.files : F'[x] = ReadOf(block, Shown'.files[x])
  <2> HIDE DEF F
  <2>1. QED BY <1>1 DEF Contents
<1> HIDE DEF F
<1>3. Shown'.dirs \subseteq Shown.dirs /\ DOMAIN F' \subseteq DOMAIN F
  BY <1>2 DEF IsPart
<1>4. \A x \in DOMAIN F' : F'[x] = F[x]
  BY <1>2 DEF IsPart
<1>5. \A x \in Shown'.dirs \cup DOMAIN F' :
        Store!Front(x) \in Shown'.dirs \cup {Store!Root}
  BY <1>2, SameNames DEF IsTree, IsDir
<1>6. QED BY <1>3, <1>4, <1>5 DEF F, Store!Cut, Store!Keep

\* What the commands do to the tree are steps of the store, or none.
LEMMA EffectShown ==
  ASSUME NEW A, NEW s, IsTree(s), NEW t, Effect(A, s, t),
         Shown = s, Shown' = t, block = A, block' = A, IsCut = FALSE, IsCut' = FALSE
  PROVE  [Store!Next]_(Store!vars)
<1>1. CASE t = s
  <2>1. [x \in DOMAIN Shown.files |-> Read(Shown.files[x])]
          = [x \in DOMAIN Shown.files |-> Read(Shown.files[x])]'
    BY <1>1, StoreFiles
  <2>2. QED BY <1>1, <2>1 DEF Store!vars
<1>2. CASE t = EmptyTree
  <2>1. Store!Lose
    BY <1>2, LostShown
  <2>2. QED BY <2>1 DEF Store!Next, Store!Command
<1>3. ASSUME NEW p \in Paths, t = Made(s, p)
      PROVE  [Store!Next]_(Store!vars)
  <2>1. Store!MakeDir(p)
    BY <1>3, MadeShown
  <2>2. QED BY <2>1 DEF Store!Next, Store!Command
<1>4. ASSUME NEW p \in Paths \cup {Root}, IsRemoved(s, t, p)
      PROVE  [Store!Next]_(Store!vars)
  <2>1. Store!Delete(p)
    BY <1>4, RemovedShown
  <2>2. QED BY <2>1, SameNames DEF Store!Next, Store!Command
<1>5. ASSUME NEW p \in Paths, NEW q \in Paths, IsMoved(s, t, p, q)
      PROVE  [Store!Next]_(Store!vars)
  <2>1. Store!Move(p, q)
    BY <1>5, MovedShown
  <2>2. QED BY <2>1 DEF Store!Next, Store!Command
<1>6. ASSUME NEW p \in Paths, NEW n \in HostSizes, ImportDone(A, s, t, p, n)
      PROVE  [Store!Next]_(Store!vars)
  <2>1. Store!Import(p, n)
    BY <1>6, ImportShown
  <2>2. QED BY <2>1 DEF Store!Next, Store!Command
<1>7. ASSUME NEW p \in Paths, NEW q \in Paths,
             CopyGoes(A, s, t, NoFile, {}, {}, <<>>, p, q)
      PROVE  [Store!Next]_(Store!vars)
  <2>1. Store!Copy(p, q)
    BY <1>7, CopyShown
  <2>2. QED BY <2>1 DEF Store!Next, Store!Command
<1>8. QED BY <1>1, <1>2, <1>3, <1>4, <1>5, <1>6, <1>7 DEF Effect

-----------------------------------------------------------------------------
(***************************************************************************)
(* What a copy has done                                                    *)
(***************************************************************************)

\* A block is written that is not marked: what is there reads as before.
LEMMA ReadsStand ==
  ASSUME IInv, TInv, BInv, pc = "writing", NEW C, \A b \in m_bitmap : C[b] = block[b]
  PROVE  /\ metadata # Torn /\ formatted /\ IsTree(metadata) /\ IsTree(m_root)
         /\ \A x \in DOMAIN metadata.files :
              ReadOf(C, metadata.files[x]) = ReadOf(block, metadata.files[x])
         /\ out # NoFile /\ out.whole =>
              \A y \in DOMAIN m_root.files \ {out.to} :
                ReadOf(C, m_root.files[y]) = ReadOf(block, m_root.files[y])
<1>1. /\ formatted /\ metadata # Torn /\ used # Torn
      /\ BlocksIn(block, m_root, out, m_bitmap, losing)
      /\ AgreeOn(block, metadata.files, DOMAIN metadata.files, used, lost)
      /\ used \subseteq m_bitmap
  BY DEF BInv, WriteAgrees, DiskAgrees, IInv, BitmapInv
<1>2. IsTree(metadata) /\ IsTree(m_root) /\ BlocksHold(block)
  BY <1>1 DEF TInv, TreesInv, HeldInv
<1>3. ASSUME NEW x \in DOMAIN metadata.files
      PROVE  ReadOf(C, metadata.files[x]) = ReadOf(block, metadata.files[x])
  <2>1. ChainOf(block, metadata.files[x]) \subseteq used
    BY <1>1 DEF AgreeOn, ChainsOf
  <2>2. metadata.files[x] \in Record
    BY <1>2, FileIsRecord
  <2>3. QED BY <1>1, <1>2, <2>1, <2>2, SameRead
<1>4. ASSUME out # NoFile, out.whole, NEW y \in DOMAIN m_root.files \ {out.to}
      PROVE  ReadOf(C, m_root.files[y]) = ReadOf(block, m_root.files[y])
  <2>1. PICK P \in SUBSET m_bitmap :
          AgreeOn(block, m_root.files, DOMAIN m_root.files \ {out.to}, m_bitmap \ P, losing)
    BY <1>1, <1>4 DEF BlocksIn
  <2>2. ChainOf(block, m_root.files[y]) \subseteq m_bitmap
    BY <1>4, <2>1 DEF AgreeOn, ChainsOf
  <2>3. m_root.files[y] \in Record
    BY <1>2, <1>4, FileIsRecord
  <2>4. QED BY <1>2, <2>2, <2>3, SameRead
<1>5. QED BY <1>1, <1>2, <1>3, <1>4

\* Trees whose files read the same.
ReadAlike(A, C, t) ==
  \A x \in DOMAIN t.files : ReadOf(C, t.files[x]) = ReadOf(A, t.files[x])

\* A copy goes on: more of its file is written.
LEMMA CopyGoesOn ==
  ASSUME NEW A, NEW C, NEW s, NEW t, ReadAlike(A, C, s), ReadAlike(A, C, t),
         NEW file, NEW bitmap, NEW jobs, NEW dirs, NEW p, NEW q,
         CopyGoes(A, s, t, file, bitmap, jobs, dirs, p, q),
         file # NoFile, NEW file2, NEW bitmap2, file2 # NoFile, file2.to = file.to,
         \A c : WrittenOf(A, file, bitmap, c) => WrittenOf(C, file2, bitmap2, c)
  PROVE  CopyGoes(C, s, t, file2, bitmap2, jobs, dirs, p, q)
<1>1. /\ Exists(s, p) /\ ~Exists(s, q) /\ IsDir(s, Front(q))
      /\ Grown(s, t, q)
      /\ dirs # <<>> => dirs = <<p, q>>
      /\ \A x \in s.dirs : AtOrBelow(p, x) => Onto(p, q, x) \in t.dirs \/ dirs # <<>>
  BY DEF CopyGoes
<1>2. ASSUME NEW y \in DOMAIN t.files, IsCopy(A, s, p, t.files[y])
      PROVE  IsCopy(C, s, p, t.files[y])
  BY <1>2 DEF IsCopy, ReadAlike, Copied
<1>3. \A y \in DOMAIN t.files \ DOMAIN s.files : IsCopy(C, s, p, t.files[y])
  BY <1>2 DEF CopyGoes
<1>4. \A j \in jobs :
        /\ AtOrBelow(q, j.to) /\ (\E y \in DOMAIN t.files : j.from = t.files[y])
        /\ IsCopy(C, s, p, j.from)
  BY <1>2 DEF CopyGoes
<1>5. \A x \in Copied(s, p) : ReadOf(C, s.files[x]) = ReadOf(A, s.files[x])
  BY DEF Copied, ReadAlike
<1>6. /\ AtOrBelow(q, file2.to) /\ file2.to \notin DOMAIN t.files
      /\ \E x \in Copied(s, p) : WrittenOf(C, file2, bitmap2, ReadOf(C, s.files[x]))
  BY <1>5 DEF CopyGoes
<1>7. ASSUME NEW x \in Copied(s, p)
      PROVE  CopyComes(C, s, t, file2, bitmap2, jobs, dirs, x, Onto(p, q, x))
  <2>1. CopyComes(A, s, t, file, bitmap, jobs, dirs, x, Onto(p, q, x))
    BY DEF CopyGoes
  <2>2. QED BY <1>5, <2>1 DEF CopyComes, ReadAlike
<1>8. QED BY <1>1, <1>3, <1>4, <1>6, <1>7 DEF CopyGoes

\* A copy goes on: its file is finished.
LEMMA CopyGoesFurther ==
  ASSUME NEW A, NEW C, NEW s, NEW t, ReadAlike(A, C, s), ReadAlike(A, C, t),
         NEW file, NEW bitmap, NEW jobs, NEW dirs, NEW p, NEW q,
         CopyGoes(A, s, t, file, bitmap, jobs, dirs, p, q),
         file # NoFile, NEW f, NEW bitmap2,
         \A c : WrittenOf(A, file, bitmap, c) => Gets(c, ReadOf(C, f))
  PROVE  CopyGoes(C, s, WithFile(t, file.to, f), NoFile, bitmap2, jobs, dirs, p, q)
<1> DEFINE u == WithFile(t, file.to, f)
<1>1. /\ Exists(s, p) /\ ~Exists(s, q) /\ IsDir(s, Front(q))
      /\ Grown(s, t, q)
      /\ dirs # <<>> => dirs = <<p, q>>
      /\ \A x \in s.dirs : AtOrBelow(p, x) => Onto(p, q, x) \in t.dirs \/ dirs # <<>>
  BY DEF CopyGoes
<1>2. /\ AtOrBelow(q, file.to) /\ file.to \notin DOMAIN t.files
      /\ \E x \in Copied(s, p) : WrittenOf(A, file, bitmap, ReadOf(A, s.files[x]))
  BY DEF CopyGoes
<1>3. /\ u.dirs = t.dirs /\ DOMAIN u.files = DOMAIN t.files \cup {file.to}
      /\ u.files[file.to] = f
      /\ \A y \in DOMAIN t.files : u.files[y] = t.files[y]
  BY <1>2 DEF WithFile
<1> HIDE DEF u
<1>4. \A x \in Copied(s, p) : ReadOf(C, s.files[x]) = ReadOf(A, s.files[x])
  BY DEF Copied, ReadAlike
<1>5. ASSUME NEW y \in DOMAIN t.files, IsCopy(A, s, p, t.files[y])
      PROVE  IsCopy(C, s, p, t.files[y])
  BY <1>5 DEF IsCopy, ReadAlike, Copied
<1>6. IsCopy(C, s, p, f)
  BY <1>2, <1>4 DEF IsCopy
<1>7. \A y \in DOMAIN u.files \ DOMAIN s.files : IsCopy(C, s, p, u.files[y])
  BY <1>3, <1>5, <1>6 DEF CopyGoes
<1>8. \A j \in jobs :
        /\ AtOrBelow(q, j.to) /\ (\E y \in DOMAIN u.files : j.from = u.files[y])
        /\ IsCopy(C, s, p, j.from)
  BY <1>3, <1>5 DEF CopyGoes
<1>9. ASSUME NEW x \in Copied(s, p)
      PROVE  CopyComes(C, s, u, NoFile, bitmap2, jobs, dirs, x, Onto(p, q, x))
  <2>1. CopyComes(A, s, t, file, bitmap, jobs, dirs, x, Onto(p, q, x))
    BY DEF CopyGoes
  <2>2. QED BY <1>3, <1>4, <2>1 DEF CopyComes, ReadAlike
<1>10. Grown(s, u, q)
  BY <1>1, <1>2, <1>3 DEF Grown
<1>11. \A x \in s.dirs : AtOrBelow(p, x) => Onto(p, q, x) \in u.dirs \/ dirs # <<>>
  BY <1>1, <1>3
<1>12. CopyGoes(C, s, u, NoFile, bitmap2, jobs, dirs, p, q)
  BY <1>1, <1>7, <1>8, <1>9, <1>10, <1>11 DEF CopyGoes
<1>13. QED BY <1>12 DEF u

\* The next file of a copy is opened.
LEMMA CopyGoesNext ==
  ASSUME NEW A, BlocksHold(A), NEW s, NEW t, IsTree(t), NEW bitmap \in SUBSET Blocks,
         NEW jobs, NEW dirs, NEW p, NEW q,
         CopyGoes(A, s, t, NoFile, bitmap, jobs, dirs, p, q),
         NEW j \in jobs, j.to \notin DOMAIN t.files, NEW file, file # NoFile,
         file = Open(j.to, j.from.size, ReadOf(A, j.from), bitmap), file.whole
  PROVE  CopyGoes(A, s, t, file, bitmap, jobs \ {j}, dirs, p, q)
<1> DEFINE c == ReadOf(A, j.from)
<1>1. /\ AtOrBelow(q, j.to) /\ (\E y \in DOMAIN t.files : j.from = t.files[y])
      /\ IsCopy(A, s, p, j.from)
  BY DEF CopyGoes
<1>2. j.from \in Record
  BY <1>1, FileIsRecord
<1>3. Whole(c) /\ file.to = j.to
  BY DEF Open
<1>4. c \in Seq(Unit) /\ Len(c) = j.from.size /\ j.from.size \in HostSizes
  <2>1. /\ j.from.size \in Nat /\ j.from.size \in 0 .. j.from.size
        /\ j.from.start \in Ends /\ j.from.size \in HostSizes
    BY <1>2, RecordIs
  <2>2. QED BY <1>3, <2>1, ReadTyped, WholeReads DEF ReadOf
<1> HIDE DEF c
<1>5. WrittenOf(A, file, bitmap, c)
  BY <1>3, <1>4, OpenWritten DEF c
<1>6. \E x \in Copied(s, p) : c = ReadOf(A, s.files[x])
  BY <1>1, <1>3 DEF IsCopy, Gets, c
<1>7. ASSUME NEW x \in Copied(s, p)
      PROVE  CopyComes(A, s, t, file, bitmap, jobs \ {j}, dirs, x, Onto(p, q, x))
  <2>1. CopyComes(A, s, t, NoFile, bitmap, jobs, dirs, x, Onto(p, q, x))
    BY DEF CopyGoes
  <2>2. CASE j.to = Onto(p, q, x) /\ j.from = s.files[x]
    BY <1>3, <1>5, <2>2 DEF CopyComes, c
  <2>3. QED BY <2>1, <2>2 DEF CopyComes
<1>8. /\ Exists(s, p) /\ ~Exists(s, q) /\ IsDir(s, Front(q))
      /\ Grown(s, t, q)
      /\ \A y \in DOMAIN t.files \ DOMAIN s.files : IsCopy(A, s, p, t.files[y])
      /\ dirs # <<>> => dirs = <<p, q>>
      /\ \A x \in s.dirs : AtOrBelow(p, x) => Onto(p, q, x) \in t.dirs \/ dirs # <<>>
  BY DEF CopyGoes
<1>9. \A k \in jobs \ {j} :
        /\ AtOrBelow(q, k.to) /\ (\E y \in DOMAIN t.files : k.from = t.files[y])
        /\ IsCopy(A, s, p, k.from)
  BY DEF CopyGoes
<1>10. QED BY <1>1, <1>3, <1>5, <1>6, <1>7, <1>8, <1>9 DEF CopyGoes

\* Copies lie at or below the place that they are made for.
LEMMA CopiesLie ==
  ASSUME NEW t, IsTree(t), NEW p \in Paths, NEW q \in Paths, NEW x \in Nodes(t),
         AtOrBelow(p, x)
  PROVE  AtOrBelow(q, Onto(p, q, x))
<1>1. p \in Seq(Names) /\ q \in Seq(Names) /\ x \in Seq(Names)
  BY Existing, PathsAreSeqs
<1>2. QED BY <1>1, OntoBack

\* The files of a directory are in it or deeper down.
LEMMA InOrDeeper ==
  ASSUME NEW t, IsTree(t), NEW p \in Paths, NEW x \in DOMAIN t.files, Below(p, x)
  PROVE  x \in FilesIn(t, p) \/ Below(p, Front(x))
<1>1. p \in Seq(Names) /\ x \in Seq(Names) /\ Len(x) # 0 /\ Front(x) \in Seq(Names)
  BY Existing, PathsAreSeqs DEF Nodes
<1>2. AtOrBelow(p, Front(x))
  BY <1>1, BelowFront
<1>3. Below(p, Front(x)) \/ Front(x) = p
  BY <1>2 DEF Below, AtOrBelow, IsStrictPrefix
<1>4. QED BY <1>3 DEF FilesIn

\* The jobs are one for each file.
LEMMA JobsAre ==
  ASSUME NEW t, NEW p, NEW q, NEW F
  PROVE  /\ \A j \in Jobs(t, p, q, F) :
              \E x \in F : j.to = Onto(p, q, x) /\ j.from = t.files[x]
         /\ \A x \in F :
              \E j \in Jobs(t, p, q, F) : j.to = Onto(p, q, x) /\ j.from = t.files[x]
<1>1. ASSUME NEW x \in F
      PROVE  \E j \in Jobs(t, p, q, F) : j.to = Onto(p, q, x) /\ j.from = t.files[x]
  <2> DEFINE k == [from |-> t.files[x], to |-> Onto(p, q, x)]
  <2>1. k \in Jobs(t, p, q, F)
    BY DEF Jobs
  <2>2. k.to = Onto(p, q, x) /\ k.from = t.files[x]
    OBVIOUS
  <2> HIDE DEF k
  <2>3. QED BY <2>1, <2>2
<1>2. QED BY <1>1 DEF Jobs

\* A copy of a directory begins.
LEMMA CopyBegins ==
  ASSUME NEW A, NEW s, IsTree(s), NEW p \in Paths, NEW q \in Paths, p \in s.dirs,
         ~Exists(s, q), IsDir(s, Front(q)), NEW bitmap
  PROVE  CopyGoes(A, s, WithDirs(s, {q}), NoFile, bitmap,
                  Jobs(s, p, q, FilesIn(s, p)), <<p, q>>, p, q)
<1> DEFINE t == WithDirs(s, {q})
           F == FilesIn(s, p)
           jobs == Jobs(s, p, q, F)
           d == <<p, q>>
<1>1. t.dirs = s.dirs \cup {q} /\ t.files = s.files
  BY DEF WithDirs
<1>2. d # <<>> /\ d[1] = p
  OBVIOUS
<1>3. p \in Seq(Names) /\ q \in Seq(Names)
  BY PathsAreSeqs
<1>4. AtOrBelow(q, q)
  <2>1. Len(q) <= Len(q)
    BY PathsAreSeqs
  <2>2. QED BY <1>3, <2>1, PrefixIs
<1> HIDE DEF t, d
<1>5. ASSUME NEW x \in F
      PROVE  /\ x \in DOMAIN s.files /\ x \in Copied(s, p)
             /\ AtOrBelow(q, Onto(p, q, x))
  BY CopiedFile DEF F, Copied
<1>6. \A j \in jobs : \E x \in F : j.to = Onto(p, q, x) /\ j.from = s.files[x]
  BY JobsAre DEF jobs
<1>7. \A x \in F : \E j \in jobs : j.to = Onto(p, q, x) /\ j.from = s.files[x]
  BY JobsAre DEF jobs
<1>8. ASSUME NEW x \in Copied(s, p)
      PROVE  CopyComes(A, s, t, NoFile, bitmap, jobs, d, x, Onto(p, q, x))
  <2>1. x \in F \/ Below(p, Front(x))
    BY InOrDeeper DEF Copied, F
  <2> HIDE DEF F, jobs
  <2>2. QED BY <1>2, <1>7, <2>1 DEF CopyComes
<1> HIDE DEF F, jobs
<1>9. \A j \in jobs :
        /\ AtOrBelow(q, j.to) /\ (\E y \in DOMAIN t.files : j.from = t.files[y])
        /\ IsCopy(A, s, p, j.from)
  BY <1>1, <1>5, <1>6 DEF IsCopy, Gets
<1>10. Grown(s, t, q)
  BY <1>1, <1>4 DEF Grown
<1>11. CopyGoes(A, s, t, NoFile, bitmap, jobs, d, p, q)
  BY <1>1, <1>2, <1>8, <1>9, <1>10 DEF CopyGoes, Exists, d
<1>12. QED BY <1>11 DEF t, jobs, d, F

\* A copy goes on with the subdirectories.
LEMMA CopyGoesDown ==
  ASSUME NEW A, NEW s, IsTree(s), NEW t, IsTree(t), NEW bitmap,
         NEW p \in Paths, NEW q \in Paths, p \in t.dirs, NEW dirs, dirs # <<>>,
         CopyGoes(A, s, t, NoFile, bitmap, {}, dirs, p, q)
  PROVE  LET S == {Onto(p, q, x) : x \in Subtree(t, p).dirs}
             jobs == Jobs(t, p, q, FilesDeeper(t, p))
         IN CopyGoes(A, s, WithDirs(t, S), NoFile, bitmap, jobs, <<>>, p, q)
<1> DEFINE S == {Onto(p, q, x) : x \in Subtree(t, p).dirs}
           F == FilesDeeper(t, p)
           jobs == Jobs(t, p, q, F)
           u == WithDirs(t, S)
<1>1. u.dirs = t.dirs \cup S /\ u.files = t.files
  BY DEF WithDirs
<1>2. dirs = <<p, q>>
  BY DEF CopyGoes
<1>3. dirs[1] = p
  BY <1>2
<1>4. /\ Exists(s, p) /\ ~Exists(s, q) /\ IsDir(s, Front(q)) /\ Grown(s, t, q)
      /\ \A y \in DOMAIN t.files \ DOMAIN s.files : IsCopy(A, s, p, t.files[y])
  BY DEF CopyGoes
<1>5. p \in s.dirs
  <2>1. p \in Nodes(s)
    BY <1>4 DEF Exists, Nodes
  <2>2. ~AtOrBelow(q, p)
    BY <1>4, <2>1, AncestorExists
  <2>3. QED BY <1>4, <2>2 DEF Grown
<1>6. \A y \in S : AtOrBelow(q, y)
  <2>1. ASSUME NEW x \in Subtree(t, p).dirs
        PROVE  AtOrBelow(q, Onto(p, q, x))
    <3>1. x \in Nodes(t) /\ AtOrBelow(p, x)
      BY DEF Subtree, Nodes
    <3>2. QED BY <3>1, CopiesLie
  <2>2. QED BY <2>1
<1>7. \A x \in t.dirs : AtOrBelow(p, x) => Onto(p, q, x) \in S
  BY DEF Subtree
<1> HIDE DEF u, S
<1>8. Grown(s, u, q)
  BY <1>1, <1>4, <1>6 DEF Grown
<1>9. ASSUME NEW x \in F
      PROVE  /\ x \in DOMAIN t.files /\ AtOrBelow(q, Onto(p, q, x))
             /\ IsCopy(A, s, p, t.files[x])
  <2>1. x \in DOMAIN t.files /\ AtOrBelow(q, Onto(p, q, x)) /\ Below(p, x)
    BY CopiedFile DEF F
  <2>2. CASE x \in DOMAIN s.files
    <3>1. x \in Copied(s, p) /\ t.files[x] = s.files[x]
      BY <1>4, <1>5, <2>1, <2>2 DEF Copied, Grown
    <3>2. QED BY <2>1, <3>1 DEF IsCopy, Gets
  <2>3. QED BY <1>4, <2>1, <2>2
<1>10. \A j \in jobs : \E x \in F : j.to = Onto(p, q, x) /\ j.from = t.files[x]
  BY JobsAre DEF jobs
<1>11. \A x \in F : \E j \in jobs : j.to = Onto(p, q, x) /\ j.from = t.files[x]
  BY JobsAre DEF jobs
<1>12. ASSUME NEW x \in Copied(s, p)
       PROVE  CopyComes(A, s, u, NoFile, bitmap, jobs, <<>>, x, Onto(p, q, x))
  <2>1. CopyComes(A, s, t, NoFile, bitmap, {}, dirs, x, Onto(p, q, x))
    BY DEF CopyGoes
  <2>2. \/ Onto(p, q, x) \in DOMAIN t.files /\ Gets(ReadOf(A, s.files[x]),
                                                 ReadOf(A, t.files[Onto(p, q, x)]))
        \/ Below(p, Front(x))
    BY <1>3, <2>1 DEF CopyComes
  <2>3. x \in DOMAIN s.files /\ x \in DOMAIN t.files /\ t.files[x] = s.files[x]
    BY <1>4 DEF Copied, Grown
  <2>4. Below(p, Front(x)) => x \in F
    BY <2>3 DEF F, FilesDeeper
  <2> HIDE DEF F, jobs
  <2>5. Below(p, Front(x)) => \E j \in jobs : j.to = Onto(p, q, x) /\ j.from = s.files[x]
    BY <1>11, <2>3, <2>4
  <2>6. QED BY <1>1, <2>2, <2>5 DEF CopyComes
<1> HIDE DEF F, jobs
<1>13. \A j \in jobs :
         /\ AtOrBelow(q, j.to) /\ (\E y \in DOMAIN u.files : j.from = u.files[y])
         /\ IsCopy(A, s, p, j.from)
  BY <1>1, <1>9, <1>10
<1>14. \A x \in s.dirs : AtOrBelow(p, x) => Onto(p, q, x) \in u.dirs
  BY <1>1, <1>4, <1>7 DEF Grown
<1>15. CopyGoes(A, s, u, NoFile, bitmap, jobs, <<>>, p, q)
  BY <1>1, <1>4, <1>8, <1>12, <1>13, <1>14 DEF CopyGoes
<1>16. QED BY <1>15 DEF u, S, jobs, F

\* A copy of a file begins.
LEMMA FileCopyBegins ==
  ASSUME NEW A, BlocksHold(A), NEW s, IsTree(s), NEW bitmap \in SUBSET Blocks,
         NEW p \in Paths, NEW q \in Paths, p \notin s.dirs, p \in DOMAIN s.files,
         ~Exists(s, q), IsDir(s, Front(q)), NEW file, file # NoFile,
         file = Open(q, s.files[p].size, ReadOf(A, s.files[p]), bitmap), file.whole
  PROVE  CopyGoes(A, s, s, file, bitmap, {}, <<>>, p, q)
<1> DEFINE f == s.files[p]
           c == ReadOf(A, f)
<1>1. Copied(s, p) = {p}
  BY DEF Copied
<1>2. p \in Seq(Names) /\ q \in Seq(Names)
  BY PathsAreSeqs
<1>3. Onto(p, q, p) = q
  BY <1>2, OntoFront
<1>4. AtOrBelow(q, q)
  <2>1. Len(q) <= Len(q)
    BY PathsAreSeqs
  <2>2. QED BY <1>2, <2>1, PrefixIs
<1>5. f \in Record
  BY FileIsRecord
<1>6. Whole(c) /\ file.to = q
  BY DEF Open
<1>7. c \in Seq(Unit) /\ Len(c) = f.size /\ f.size \in HostSizes
  <2>1. /\ f.size \in Nat /\ f.size \in 0 .. f.size
        /\ f.start \in Ends /\ f.size \in HostSizes
    BY <1>5, RecordIs
  <2> HIDE DEF f
  <2>2. QED BY <1>6, <2>1, ReadTyped, WholeReads DEF ReadOf
<1> HIDE DEF f, c
<1>8. file = Open(q, f.size, c, bitmap)
  BY DEF c, f
<1>9. WrittenOf(A, file, bitmap, c)
  BY <1>6, <1>7, <1>8, OpenWritten
<1>10. c = ReadOf(A, s.files[p])
  BY DEF c, f
<1>11. \A x \in s.dirs : ~AtOrBelow(p, x)
  BY AncestorIsDir
<1>12. CopyComes(A, s, s, file, bitmap, {}, <<>>, p, q)
  BY <1>6, <1>9, <1>10 DEF CopyComes
<1>13. Grown(s, s, q)
  BY DEF Grown
<1>14. QED
  BY <1>1, <1>3, <1>4, <1>6, <1>9, <1>10, <1>11, <1>12, <1>13 DEF CopyGoes, Exists

-----------------------------------------------------------------------------
(***************************************************************************)
(* Commands and steps do what the store allows                             *)
(***************************************************************************)

\* A command that has changed the tree in memory goes to its destructor.
LEMMA CommitEffect ==
  ASSUME NEW root, NEW bitmap, Commit(root, bitmap),
         metadata # Torn => Effect(block, Tree, root)
  PROVE  RInv'
<1>1. /\ metadata' = metadata /\ block' = block /\ m_root' = root /\ pc' = "commit"
      /\ formatted' = (metadata # Torn)
  BY DEF Commit, disk, index
<1>2. Tree' = Tree
  BY <1>1 DEF Tree
<1>3. QED BY <1>1, <1>2 DEF RInv, WorkInv, EffectInv

\* A command begins to write.
LEMMA WriteWork ==
  ASSUME NEW root, NEW first, NEW later, NEW subdirs, Write(root, first, later, subdirs),
         first = NoFile \/ first.whole =>
           Work(block, metadata, root, first, Bitmap, later, subdirs)
  PROVE  RInv'
<1>1. /\ metadata' = metadata /\ block' = block /\ m_root' = root /\ pc' = "writing"
      /\ m_bitmap' = Bitmap /\ out' = first /\ queue' = later /\ below' = subdirs
  BY DEF Write, disk, index
<1>2. QED BY <1>1 DEF RInv, WorkInv, EffectInv

\* rm.
LEMMA RemovedEffect ==
  ASSUME NEW p \in Paths \cup {Root}, Rm(p)
  PROVE  RInv'
<1> DEFINE ds == IF IsDir(Tree, p) THEN Subtree(Tree, p).dirs ELSE {}
           fs == IF IsDir(Tree, p) THEN Subtree(Tree, p).files ELSE {p}
           t == [dirs |-> Tree.dirs \ ds,
                 files |-> Restrict(Tree.files, DOMAIN Tree.files \ fs)]
<1>1. Drop(ds, fs) /\ (Exists(Tree, p) \/ p = Root)
  BY DEF Rm, Exists, IsDir
<1>2. IsRemoved(Tree, t, p)
  BY <1>1 DEF IsRemoved
<1>3. PICK bitmap : Commit(t, bitmap)
  <2> HIDE DEF ds, fs
  <2>1. QED BY <1>1 DEF Drop
<1> HIDE DEF t
<1>4. Effect(block, Tree, t)
  BY <1>2 DEF Effect
<1>5. QED BY <1>3, <1>4, CommitEffect

\* move.
LEMMA MovedEffect ==
  ASSUME TInv, NEW p \in Paths, NEW q \in Paths, MoveDir(p, q) \/ MoveFile(p, q)
  PROVE  RInv'
<1> DEFINE to == Destination(p, q)
           s == IF p \in Tree.dirs THEN Subtree(Tree, p) ELSE [dirs |-> {}, files |-> {p}]
           t == Moved(Tree, p, to, s)
<1>1. /\ MayGo(p, q) /\ Exists(Tree, p) /\ Commit(t, Bitmap)
      /\ p \in Tree.dirs => ~AtOrBelow(p, Front(to))
  <2> HIDE DEF t, s
  <2>1. CASE MoveDir(p, q)
    <3>1. p \in Tree.dirs
      BY <2>1 DEF MoveDir
    <3>2. s = Subtree(Tree, p)
      BY <3>1 DEF s
    <3>3. QED BY <2>1, <3>1, <3>2 DEF MoveDir, MayGo, t
  <2>2. CASE MoveFile(p, q)
    <3>1. p \notin Tree.dirs
      BY <2>2 DEF MoveFile
    <3>2. s = [dirs |-> {}, files |-> {p}]
      BY <3>1 DEF s
    <3>3. QED BY <2>2, <3>1, <3>2 DEF MoveFile, MayGo, t
  <2>3. QED BY <2>1, <2>2
<1>2. to \in Paths /\ IsDir(Tree, Front(to)) /\ ~Exists(Tree, to) /\ to # p
  BY <1>1, DestinationIs
<1> HIDE DEF to
<1>3. p \in Tree.dirs => ~AtOrBelow(p, to)
  <2>1. p \in Seq(Names) /\ to \in Seq(Names) /\ Len(to) # 0
    BY <1>2, PathsAreSeqs
  <2>2. QED BY <1>1, <1>2, <2>1, BelowFront
<1>4. IsMoved(Tree, t, p, to)
  BY <1>1, <1>2, <1>3 DEF IsMoved
<1> HIDE DEF t
<1>5. Effect(block, Tree, t)
  BY <1>2, <1>4 DEF Effect
<1>6. QED BY <1>1, <1>5, CommitEffect

\* import.
LEMMA ImportWork ==
  ASSUME IInv, TInv, NEW p \in Paths, NEW n \in HostSizes, Import(p, n)
  PROVE  RInv'
<1> DEFINE f == Open(p, n, Content(n), Bitmap)
<1>1. /\ IsDir(Tree, Front(p)) /\ NextFree(Bitmap) # NoBlock
      /\ Write(Tree, f, {}, <<>>)
  BY DEF Import
<1>2. metadata # Torn /\ Bitmap \in SUBSET Blocks /\ Tree = metadata
  BY <1>1, BitmapWithRoom DEF Tree
<1>3. Content(n) \in Seq(Unit) /\ Len(Content(n)) = n
  BY ContentTyped
<1>4. f.to = p /\ f # NoFile /\ f.whole = Whole(Content(n))
  BY PathsAreSeqs DEF Open, NoFile
<1>5. Whole(Content(n)) => WrittenOf(block, f, Bitmap, Content(n))
  BY <1>2, <1>3, OpenWritten
<1> HIDE DEF f
<1>6. f.whole => ImportGoes(block, metadata, Tree, f, Bitmap, p, n)
  BY <1>1, <1>2, <1>4, <1>5 DEF ImportGoes
<1>7. f.whole => Work(block, metadata, Tree, f, Bitmap, {}, <<>>)
  BY <1>4, <1>6 DEF Work
<1>8. QED BY <1>1, <1>4, <1>7, WriteWork

\* copy of a file.
LEMMA CopyFileWork ==
  ASSUME IInv, TInv, NEW p \in Paths, NEW q \in Paths, CopyFile(p, q)
  PROVE  RInv'
<1> DEFINE to == Destination(p, q)
           g == Tree.files[p]
           f == Open(to, g.size, Read(g), Bitmap)
<1>1. /\ MayGo(p, q) /\ NextFree(Bitmap) # NoBlock /\ Write(Tree, f, {}, <<>>)
      /\ p \notin Tree.dirs /\ p \in DOMAIN Tree.files
  BY DEF CopyFile, MayGo, Exists
<1>2. /\ metadata # Torn /\ Bitmap \in SUBSET Blocks /\ Tree = metadata
      /\ IsTree(Tree) /\ BlocksHold(block)
  BY <1>1, BitmapWithRoom, TreeIs DEF Tree, TInv, HeldInv
<1>3. to \in Paths /\ IsDir(Tree, Front(to)) /\ ~Exists(Tree, to)
  BY <1>1, DestinationIs
<1> HIDE DEF to
<1>4. f # NoFile /\ f = Open(to, g.size, ReadOf(block, g), Bitmap)
  <2>1. f.to = to
    BY DEF Open
  <2>2. f # NoFile
    BY <1>3, <2>1, PathsAreSeqs DEF NoFile
  <2>3. QED BY <2>2, ReadIsOf
<1> HIDE DEF f
<1>5. f.whole => CopyGoes(block, Tree, Tree, f, Bitmap, {}, <<>>, p, to)
  BY <1>1, <1>2, <1>3, <1>4, FileCopyBegins
<1>6. f.whole => Work(block, metadata, Tree, f, Bitmap, {}, <<>>)
  BY <1>2, <1>3, <1>5 DEF Work
<1>7. QED BY <1>1, <1>4, <1>6, WriteWork

\* copy of a directory.
LEMMA CopyDirWork ==
  ASSUME TInv, NEW p \in Paths, NEW q \in Paths, CopyDir(p, q)
  PROVE  RInv'
<1> DEFINE to == Destination(p, q)
           root == WithDirs(Tree, {to})
           jobs == Jobs(Tree, p, to, FilesIn(Tree, p))
           d == <<p, to>>
<1>1. MayGo(p, q) /\ p \in Tree.dirs /\ Write(root, NoFile, jobs, d)
  BY DEF CopyDir
<1>2. to \in Paths /\ IsDir(Tree, Front(to)) /\ ~Exists(Tree, to)
  BY <1>1, DestinationIs
<1>3. IsTree(Tree) /\ Tree = metadata
  BY <1>1, TreeIs DEF Tree, EmptyTree
<1> HIDE DEF to
<1>4. CopyGoes(block, Tree, root, NoFile, Bitmap, jobs, d, p, to)
  BY <1>1, <1>2, <1>3, CopyBegins
<1> HIDE DEF root, jobs, d
<1>5. Work(block, metadata, root, NoFile, Bitmap, jobs, d)
  BY <1>2, <1>3, <1>4 DEF Work
<1>6. QED BY <1>1, <1>5, WriteWork

\* Every command.
LEMMA CommandWork == IInv /\ TInv /\ Command => RInv'
<1> SUFFICES ASSUME IInv, TInv, Command PROVE RInv'
  OBVIOUS
<1>1. ASSUME NEW format \in BOOLEAN, StartInit(format) PROVE RInv'
  BY <1>1 DEF StartInit, RInv, WorkInv, EffectInv
<1>2. ASSUME NEW p, Ls(p) \/ Export(p) PROVE RInv'
  <2>1. Commit(Tree, Bitmap)
    BY <1>2 DEF Ls, Export
  <2>2. Effect(block, Tree, Tree)
    BY DEF Effect
  <2>3. QED BY <2>1, <2>2, CommitEffect
<1>3. ASSUME NEW p \in Paths, Mkdir(p) PROVE RInv'
  <2>1. Commit(Made(Tree, p), Bitmap)
    BY <1>3 DEF Mkdir
  <2>2. Effect(block, Tree, Made(Tree, p))
    BY DEF Effect
  <2>3. QED BY <2>1, <2>2, CommitEffect
<1>4. QED
  BY <1>1, <1>2, <1>3, RemovedEffect, MovedEffect, ImportWork, CopyFileWork, CopyDirWork
  DEF Command

\* The next file of a copy.
LEMMA NextCopyWork ==
  ASSUME IInv, TInv, BInv, RInv, NEW j \in queue, NextCopy(j)
  PROVE  RInv'
<1>1. /\ pc = "writing" /\ out = NoFile /\ pc' = pc /\ queue' = queue \ {j}
      /\ out' = Open(j.to, j.from.size, Read(j.from), m_bitmap)
      /\ UNCHANGED <<metadata, block, m_root, m_bitmap, below>>
  BY DEF NextCopy, disk, index
<1>2. PICK p \in Paths, q \in Paths :
        CopyGoes(block, metadata, m_root, NoFile, m_bitmap, queue, below, p, q)
  BY <1>1 DEF RInv, WorkInv, Work
<1>3. /\ m_bitmap \in SUBSET Blocks /\ IsTree(m_root) /\ BlocksHold(block)
      /\ j.to \notin DOMAIN m_root.files /\ j.to \in Paths
  BY <1>1 DEF IInv, BitmapInv, TInv, TreesInv, HeldInv, BInv, WriteAgrees, QueueIn,
              JobsInv, JobsIn
<1>4. /\ out' = Open(j.to, j.from.size, ReadOf(block, j.from), m_bitmap)
      /\ out' # NoFile
  <2>1. out'.to = j.to
    BY <1>1 DEF Open
  <2>2. out' # NoFile
    BY <1>3, <2>1, PathsAreSeqs DEF NoFile
  <2>3. QED BY <1>1, <2>2, ReadIsOf
<1>5. out'.whole =>
        CopyGoes(block, metadata, m_root, out', m_bitmap, queue \ {j}, below, p, q)
  BY <1>2, <1>3, <1>4, CopyGoesNext
<1>6. out'.whole => Work(block, metadata, m_root, out', m_bitmap, queue \ {j}, below)
  BY <1>5 DEF Work
<1>7. QED BY <1>1, <1>4, <1>6 DEF RInv, WorkInv, EffectInv

\* Without a file that is written, the bitmap does not matter.
LEMMA AnyBitmap ==
  ASSUME NEW A, NEW s, NEW t, NEW bitmap, NEW bitmap2, NEW jobs, NEW dirs, NEW p, NEW q,
         CopyGoes(A, s, t, NoFile, bitmap, jobs, dirs, p, q)
  PROVE  CopyGoes(A, s, t, NoFile, bitmap2, jobs, dirs, p, q)
BY DEF CopyGoes, CopyComes

\* When nothing is left to do, the copy is done.
LEMMA WorkIsDone ==
  ASSUME NEW A, NEW s, NEW t, NEW bitmap, NEW p \in Paths, NEW q \in Paths,
         CopyGoes(A, s, t, NoFile, bitmap, {}, <<>>, p, q)
  PROVE  Effect(A, s, t)
BY AnyBitmap DEF Effect

\* The subdirectories of a copy.
LEMMA SubdirsWork ==
  ASSUME TInv, BInv, RInv, CopySubdirs
  PROVE  RInv'
<1>1. /\ pc = "writing" /\ out = NoFile /\ out' = out /\ queue = {} /\ below # <<>>
      /\ below' = <<>> /\ pc' \in {"commit", "writing"}
      /\ pc' = "commit" => queue' = {}
      /\ UNCHANGED <<metadata, block, m_bitmap>>
  BY DEF CopySubdirs, disk, index
<1>2. PICK p \in Paths, q \in Paths :
        CopyGoes(block, metadata, m_root, NoFile, m_bitmap, {}, below, p, q)
  BY <1>1 DEF RInv, WorkInv, Work
<1>3. below = <<p, q>>
  BY <1>1, <1>2 DEF CopyGoes
<1>4. below[1] = p /\ below[2] = q
  BY <1>3
<1> DEFINE S == {Onto(p, q, x) : x \in Subtree(m_root, p).dirs}
           root == WithDirs(m_root, S)
           jobs == Jobs(m_root, p, q, FilesDeeper(m_root, p))
<1>5. m_root' = root /\ queue' = jobs
  BY <1>4 DEF CopySubdirs
<1>6. /\ metadata # Torn /\ IsTree(metadata) /\ IsTree(m_root) /\ p \in m_root.dirs
  BY <1>1, <1>4 DEF TInv, TreesInv, JobsInv, JobsIn, BInv, WriteAgrees
<1>7. CopyGoes(block, metadata, root, NoFile, m_bitmap, jobs, <<>>, p, q)
  BY <1>1, <1>2, <1>6, CopyGoesDown
<1> HIDE DEF root, jobs
<1>8. CASE pc' = "commit"
  <2>1. Effect(block, metadata, root)
    BY <1>1, <1>5, <1>7, <1>8, WorkIsDone
  <2>2. Tree' = metadata
    BY <1>1, <1>6 DEF Tree
  <2>3. QED BY <1>1, <1>5, <1>8, <2>1, <2>2 DEF RInv, WorkInv, EffectInv
<1>9. CASE pc' = "writing"
  <2>1. Work(block, metadata, root, NoFile, m_bitmap, jobs, <<>>)
    BY <1>7 DEF Work
  <2>2. QED BY <1>1, <1>5, <1>9, <2>1 DEF RInv, WorkInv, EffectInv
<1>10. QED BY <1>1, <1>8, <1>9

\* A block of a file is written.
LEMMA FlushWork ==
  ASSUME IInv, TInv, BInv, RInv, FlushBlock
  PROVE  RInv'
<1>1. /\ pc = "writing" /\ out \in FileOpen /\ out # NoFile /\ out.cur \in Blocks
      /\ UNCHANGED <<metadata, m_root, pc, queue, below>>
      /\ \E next \in Ends, u \in Seq(Unit), v \in Seq(Unit) :
           /\ block' = [block EXCEPT ![out.cur] = u]
           /\ out' = [out EXCEPT !.cur = next, !.rest = v]
  BY FlushIs
<1>2. out'.to = out.to /\ out'.whole = out.whole /\ out' # NoFile
  <2>1. out'.to = out.to /\ out'.whole = out.whole /\ out.to \in Paths
    BY <1>1 DEF FileOpen
  <2>2. QED BY <2>1, PathsAreSeqs DEF NoFile
<1>3. \A b \in m_bitmap : block'[b] = block[b]
  <2>1. out.cur \notin m_bitmap /\ m_bitmap \in SUBSET Blocks
    BY <1>1, NoBlockIsNone DEF IInv, BitmapInv, NextInv
  <2>2. QED BY <1>1, <2>1 DEF TInv, HeldInv
<1>4. CASE out.whole
  <2>1. /\ TailFits(Len(out.rest))
        /\ Work(block, metadata, m_root, out, m_bitmap, queue, below)
    BY <1>1, <1>4 DEF BInv, WriteAgrees, BlocksIn, RInv, WorkInv
  <2>2. \A c : WrittenOf(block, out, m_bitmap, c) => WrittenOf(block', out', m_bitmap', c)
    BY <2>1, FlushWritten
  <2>3. ASSUME NEW p \in Paths, NEW n \in HostSizes, queue = {}, below = <<>>,
               ImportGoes(block, metadata, m_root, out, m_bitmap, p, n)
        PROVE  Work(block', metadata, m_root, out', m_bitmap', queue, below)
    <3>1. ImportGoes(block', metadata, m_root, out', m_bitmap', p, n)
      BY <1>2, <2>2, <2>3 DEF ImportGoes
    <3>2. QED BY <1>2, <2>3, <3>1 DEF Work
  <2>4. ASSUME NEW p \in Paths, NEW q \in Paths,
               CopyGoes(block, metadata, m_root, out, m_bitmap, queue, below, p, q)
        PROVE  Work(block', metadata, m_root, out', m_bitmap', queue, below)
    <3>1. ReadAlike(block, block', metadata) /\ ReadAlike(block, block', m_root)
      <4>1. out.to \notin DOMAIN m_root.files
        BY <1>1, <2>4 DEF CopyGoes
      <4>2. QED BY <1>1, <1>3, <1>4, <4>1, ReadsStand DEF ReadAlike
    <3>2. CopyGoes(block', metadata, m_root, out', m_bitmap', queue, below, p, q)
      BY <1>1, <1>2, <2>2, <2>4, <3>1, CopyGoesOn
    <3>3. QED BY <3>2 DEF Work
  <2>5. Work(block', metadata, m_root, out', m_bitmap', queue, below)
    BY <2>1, <2>3, <2>4 DEF Work
  <2>6. QED BY <1>1, <2>5 DEF RInv, WorkInv, EffectInv
<1>5. QED BY <1>1, <1>2, <1>4 DEF RInv, WorkInv, EffectInv

\* A file is finished.
LEMMA FinishWork ==
  ASSUME IInv, TInv, BInv, RInv, FinishFile
  PROVE  RInv'
<1> DEFINE f == [start |-> out.start, size |-> out.size]
           root == WithFile(m_root, out.to, f)
<1>1. /\ pc = "writing" /\ out # NoFile /\ out.whole /\ m_root' = root /\ out' = NoFile
      /\ UNCHANGED <<metadata, queue, below>>
      /\ pc' = IF queue = {} /\ below = <<>> THEN "commit" ELSE "writing"
  BY DEF FinishFile, index
<1>2. \A b \in m_bitmap : block'[b] = block[b]
  <2>1. m_bitmap \in SUBSET Blocks /\ (out.cur # NoBlock => out.cur \notin m_bitmap)
    BY <1>1 DEF IInv, BitmapInv, NextInv
  <2>2. \/ out.cur # NoBlock /\ block' = [block EXCEPT ![out.cur] = out.rest]
        \/ block' = block
    BY DEF FinishFile
  <2>3. QED BY <2>1, <2>2 DEF TInv, HeldInv
<1>3. \A c : WrittenOf(block, out, m_bitmap, c) => Gets(c, ReadOf(block', f))
  BY FinishWritten
<1>4. Work(block, metadata, m_root, out, m_bitmap, queue, below) /\ metadata # Torn
  BY <1>1 DEF RInv, WorkInv, BInv, WriteAgrees
<1>5. Tree' = metadata
  BY <1>1, <1>4 DEF Tree
<1> HIDE DEF f
<1>6. ASSUME NEW p \in Paths, NEW n \in HostSizes, queue = {}, below = <<>>,
             ImportGoes(block, metadata, m_root, out, m_bitmap, p, n)
      PROVE  RInv'
  <2>1. /\ root.dirs = metadata.dirs /\ DOMAIN root.files = DOMAIN metadata.files \cup {p}
        /\ \A x \in DOMAIN metadata.files \ {p} : root.files[x] = metadata.files[x]
        /\ root.files[p] = f /\ IsDir(metadata, Front(p))
    BY <1>6 DEF ImportGoes, WithFile
  <2>2. Gets(Content(n), ReadOf(block', f))
    BY <1>3, <1>6 DEF ImportGoes
  <2> HIDE DEF root
  <2>3. ImportDone(block', metadata, root, p, n)
    BY <2>1, <2>2 DEF ImportDone
  <2>4. Effect(block', metadata, root)
    BY <2>3 DEF Effect
  <2>5. QED BY <1>1, <1>5, <1>6, <2>4 DEF RInv, WorkInv, EffectInv
<1>7. ASSUME NEW p \in Paths, NEW q \in Paths,
             CopyGoes(block, metadata, m_root, out, m_bitmap, queue, below, p, q)
      PROVE  RInv'
  <2>1. ReadAlike(block, block', metadata) /\ ReadAlike(block, block', m_root)
    <3>1. out.to \notin DOMAIN m_root.files
      BY <1>1, <1>7 DEF CopyGoes
    <3>2. QED BY <1>1, <1>2, <3>1, ReadsStand DEF ReadAlike
  <2>2. CopyGoes(block', metadata, root, NoFile, m_bitmap', queue, below, p, q)
    BY <1>1, <1>3, <1>7, <2>1, CopyGoesFurther
  <2> HIDE DEF root
  <2>3. CASE queue = {} /\ below = <<>>
    <3>1. Effect(block', metadata, root)
      BY <2>2, <2>3, WorkIsDone
    <3>2. QED BY <1>1, <1>5, <2>3, <3>1 DEF RInv, WorkInv, EffectInv
  <2>4. CASE ~(queue = {} /\ below = <<>>)
    <3>1. Work(block', metadata, root, NoFile, m_bitmap', queue, below)
      BY <2>2 DEF Work
    <3>2. QED BY <1>1, <2>4, <3>1 DEF RInv, WorkInv, EffectInv
  <2>5. QED BY <2>3, <2>4
<1>8. QED BY <1>4, <1>6, <1>7 DEF Work

\* The end of a process.
LEMMA EndWork == End => RInv'
BY DEF End, RInv, WorkInv, EffectInv

\* Every step.
LEMMA StepWork ==
  ASSUME IInv, TInv, BInv, RInv, [Next]_vars
  PROVE  RInv'
<1>1. CASE CopyFails \/ FlushFails \/ ReadFails \/ WriteBitmap \/ Crash
  BY <1>1, EndWork DEF CopyFails, FlushFails, ReadFails, Throw, WriteBitmap, Crash
<1>2. CASE TruncateBlock \/ TruncateMetadata \/ WriteMetadata \/ TruncateBitmap
  BY <1>2, LineIs DEF TruncateBlock, TruncateMetadata, LineWritten, TruncateBitmap,
       RInv, WorkInv, EffectInv
<1>3. CASE AllTruncated
  <2>1. m_root' = EmptyTree /\ pc' = "commit"
    BY <1>3 DEF AllTruncated, BInv, FreshInv
  <2>2. Effect(block', Tree', m_root')
    BY <2>1 DEF Effect
  <2>3. QED BY <2>1, <2>2 DEF RInv, WorkInv, EffectInv
<1>4. CASE UNCHANGED vars
  BY <1>4 DEF vars, disk, index, process, copying, RInv, WorkInv, EffectInv, Tree
<1>5. CASE Writing
  BY <1>1, <1>5, NextCopyWork, SubdirsWork, FlushWork, FinishWork DEF Writing
<1>6. QED
  BY <1>1, <1>2, <1>3, <1>4, <1>5, CommandWork DEF Next, Progress

-----------------------------------------------------------------------------
(***************************************************************************)
(* The file system implements the store                                    *)
(***************************************************************************)

\* The store is empty when no file system has been made.
LEMMA InitShown == Init => Store!Init
<1> SUFFICES ASSUME Init PROVE Store!Init
  OBVIOUS
<1>1. Shown = EmptyTree
  BY DEF Init, Shown
<1>2. DOMAIN Shown.files = {}
  BY <1>1 DEF EmptyTree
<1>3. [x \in DOMAIN Shown.files |-> Read(Shown.files[x])] = <<>>
  BY <1>2
<1>4. IsCut = FALSE
  BY DEF Init, IsCut
<1>5. QED BY <1>1, <1>3, <1>4 DEF Store!Init, EmptyTree

\* What is shown stays as it is when neither the tree does change nor what is
\* read of its files.
LEMMA SameShown ==
  ASSUME Shown' = Shown, ReadAlike(block, block', Shown), IsCut' = IsCut
  PROVE  UNCHANGED Store!vars
<1>1. Contents(block', Shown') = Contents(block, Shown)
  BY DEF Contents, ReadAlike
<1>2. [x \in DOMAIN Shown.files |-> Read(Shown.files[x])]' =
        [x \in DOMAIN Shown.files |-> Read(Shown.files[x])]
  BY <1>1, StoreFiles
<1>3. QED BY <1>2 DEF Store!vars

\* Until metadata is truncated, the tree on the disk is shown, ...
LEMMA ShownIsTree == pc # "metadata" => Shown = Tree
BY DEF Shown, Tree

LEMMA NextShownIsTree == pc' # "metadata" => Shown' = Tree'
BY DEF Shown, Tree

\* ... which most steps leave alone, as they do the blocks.
LEMMA QuietShown ==
  ASSUME pc # "metadata", pc' # "metadata", metadata' = metadata, block' = block,
         IsCut' = IsCut
  PROVE  UNCHANGED Store!vars
<1>1. Shown' = Shown
  BY ShownIsTree, NextShownIsTree DEF Tree
<1>2. ReadAlike(block, block', Shown)
  BY DEF ReadAlike
<1>3. QED BY <1>1, <1>2, SameShown

\* Blocks that are written belong to no file that is shown.
LEMMA WritingShown ==
  ASSUME IInv, TInv, BInv, pc = "writing", pc' # "metadata", metadata' = metadata,
         ahead' = ahead, \A b \in m_bitmap : block'[b] = block[b]
  PROVE  UNCHANGED Store!vars
<1>1. Shown = metadata /\ Shown' = metadata
  BY ReadsStand, ShownIsTree, NextShownIsTree DEF Tree
<1>2. ReadAlike(block, block', Shown)
  BY <1>1, ReadsStand DEF ReadAlike
<1>3. IsCut' = IsCut
  BY DEF IsCut
<1>4. QED BY <1>1, <1>2, <1>3, SameShown

\* A format that has begun.
LEMMA FormatShown ==
  ASSUME TInv, TInv', TruncateBlock
  PROVE  Store!Erase
<1> DEFINE F == [x \in DOMAIN Shown.files |-> Read(Shown.files[x])]
<1>1. /\ pc = "formatting" /\ pc' = pc /\ metadata' = metadata
      /\ block' = [block EXCEPT ![i] = <<>>] /\ ahead' = ahead
  BY DEF TruncateBlock, index
<1>2. Shown' = Shown /\ Shown = Tree /\ IsTree(Shown)
  BY <1>1, ShownIsTree, NextShownIsTree, TreeIs DEF Tree
<1>3. \A b \in Blocks : block'[b] = block[b] \/ block'[b] = <<>>
  BY <1>1 DEF TInv, HeldInv
<1>4. BlocksHold(block) /\ BlocksHold(block')
  BY DEF TInv, HeldInv
<1>5. \A x \in DOMAIN Shown.files :
        Gets(ReadOf(block, Shown.files[x]), ReadOf(block', Shown.files[x]))
  BY <1>2, <1>3, <1>4, FileIsRecord, TruncatedRead
<1>6. /\ DOMAIN F = DOMAIN Shown.files /\ DOMAIN F' = DOMAIN Shown.files
      /\ \A x \in DOMAIN Shown.files : F[x] = ReadOf(block, Shown.files[x])
      /\ \A x \in DOMAIN Shown.files : F'[x] = ReadOf(block', Shown.files[x])
  <2>1. F = Contents(block, Shown) /\ F' = Contents(block', Shown')
    BY StoreFiles
  <2> HIDE DEF F
  <2>2. QED BY <1>2, <2>1 DEF Contents
<1> HIDE DEF F
<1>7. \A x \in DOMAIN F : F'[x] = F[x] \/ ~Store!Whole(F'[x])
  BY <1>5, <1>6, SameNames DEF Gets
<1>8. Shown'.dirs = Shown.dirs /\ DOMAIN F' = DOMAIN F
  BY <1>2, <1>6
<1>9. IsCut' = IsCut
  BY <1>1 DEF IsCut
<1>10. QED BY <1>7, <1>8, <1>9 DEF F, Store!Erase, Store!Holds

\* Every step is a step of the store, or none.
LEMMA StepShown ==
  ASSUME IInv, TInv, TInv', BInv, RInv, [Next]_vars
  PROVE  [Store!Next]_(Store!vars)
<1>1. CASE Command
  <2>1. pc = "idle" /\ metadata' = metadata /\ block' = block /\ ahead' = ahead
        /\ pc' \in {"formatting", "commit", "writing"}
    <3>1. pc = "idle" /\ UNCHANGED disk
          /\ pc' \in {"formatting", "commit", "writing"}
      BY <1>1 DEF Command, StartInit, Ls, Rm, Drop, Export, Mkdir, Import, MoveDir,
           MoveFile, CopyDir, CopyFile, MayGo, Mounts, Commit, Write
    <3>2. QED BY <3>1 DEF disk, index
  <2>2. IsCut' = IsCut
    BY <2>1 DEF IsCut
  <2>3. QED BY <2>1, <2>2, QuietShown
<1>2. CASE \/ \E j \in queue : NextCopy(j)
           \/ CopyFails \/ CopySubdirs \/ FlushFails \/ AllTruncated
           \/ TruncateBitmap \/ WriteBitmap
  <2>1. /\ pc # "metadata" /\ pc' # "metadata" /\ metadata' = metadata /\ block' = block
        /\ ahead' = ahead \/ (pc = "between" /\ ahead' = "none")
    BY <1>2 DEF NextCopy, CopyFails, CopySubdirs, FlushFails, AllTruncated,
                TruncateBitmap, WriteBitmap, Throw, End, disk, index
  <2>2. IsCut' = IsCut
    BY <2>1 DEF IsCut, BInv, ShownInv
  <2>3. QED BY <2>1, <2>2, QuietShown
<1>3. CASE FlushBlock \/ FinishFile \/ ReadFails
  <2>1. /\ pc = "writing" /\ pc' # "metadata" /\ metadata' = metadata /\ ahead' = ahead
        /\ \/ \E u : out.cur # NoBlock /\ block' = [block EXCEPT ![out.cur] = u]
           \/ block' = block
    BY <1>3 DEF FlushBlock, Flush, FinishFile, ReadFails, Throw, End, index
  <2>2. m_bitmap \in SUBSET Blocks /\ (out.cur # NoBlock => out.cur \notin m_bitmap)
    BY <2>1 DEF IInv, BitmapInv, NextInv
  <2>3. \A b \in m_bitmap : block'[b] = block[b]
    BY <2>1, <2>2 DEF TInv, HeldInv
  <2>4. QED BY <2>1, <2>3, WritingShown
<1>4. CASE TruncateBlock
  BY <1>4, FormatShown DEF Store!Next
<1>5. CASE TruncateMetadata
  <2>1. /\ pc = "commit" /\ pc' = "metadata" /\ block' = block
        /\ m_root' = m_root /\ formatted' = formatted
    BY <1>5 DEF TruncateMetadata
  <2>2. Shown = Tree /\ Shown' = IF formatted THEN m_root ELSE EmptyTree
    BY <2>1, ShownIsTree DEF Shown, ToWrite
  <2>3. IsCut' = FALSE
    BY <2>1 DEF IsCut
  <2>4. CASE formatted /\ ahead = "none"
    <3>1. Effect(block, Tree, m_root) /\ IsTree(Tree)
      BY <2>1, <2>4, TreeIs DEF RInv, EffectInv
    <3>2. Shown' = m_root /\ IsCut = FALSE
      BY <2>2, <2>4 DEF IsCut
    <3>3. QED BY <2>1, <2>2, <2>3, <3>1, <3>2, EffectShown
  <2>5. CASE ~formatted \/ ahead # "none"
    <3>1. Shown' = EmptyTree
      BY <2>1, <2>2, <2>5 DEF BInv, ShownInv
    <3>2. QED BY <2>3, <3>1, LostShown DEF Store!Next
  <2>6. QED BY <2>4, <2>5
<1>6. CASE WriteMetadata
  <2>1. PICK tree : pc = "metadata" /\ LineWritten(tree)
    BY <1>6, LineIs
  <2>2. /\ block' = block /\ ToWrite' = ToWrite /\ Shown = ToWrite
        /\ IsCut = FALSE /\ IsCut' = FALSE
    BY <2>1 DEF LineWritten, ToWrite, Shown, IsCut
  <2>3. CASE tree = ToWrite /\ tree = Torn
    <3>1. Shown' = EmptyTree
      BY <2>1, <2>3 DEF LineWritten, Shown
    <3>2. QED BY <2>2, <3>1, LostShown DEF Store!Next
  <2>4. CASE tree # ToWrite \/ tree # Torn
    <3>1. Shown' = Shown
      BY <2>1, <2>2, <2>4 DEF LineWritten, Shown
    <3>2. ReadAlike(block, block', Shown)
      BY <2>2 DEF ReadAlike
    <3>3. QED BY <2>2, <3>1, <3>2, SameShown
  <2>5. QED BY <2>3, <2>4
<1>7. CASE Crash
  <2>1. /\ pc' = "idle" /\ metadata' = metadata /\ block' = block /\ ahead' = ahead
        /\ Shown' = IF metadata = Torn THEN EmptyTree ELSE metadata
    BY <1>7 DEF Crash, End, disk, index, Shown
  <2>2. CASE pc = "metadata" /\ ahead = "part"
    <3>1. Shown = ToWrite /\ IsCut' = TRUE
      BY <2>1, <2>2 DEF Shown, IsCut
    <3>2. IsPart(Shown', ToWrite)
      <4>1. IsPart(EmptyTree, ToWrite)
        BY DEF IsPart, EmptyTree
      <4>2. QED BY <2>1, <2>2, <4>1 DEF BInv, ShownInv
    <3>3. IsTree(Shown')
      BY <2>1, EmptyIsTree DEF TInv, TreesInv
    <3>4. QED BY <2>1, <3>1, <3>2, <3>3, CutShown DEF Store!Next
  <2>3. CASE pc = "metadata" /\ ahead # "part"
    <3>1. Shown' = EmptyTree /\ IsCut' = FALSE
      BY <2>1, <2>3 DEF BInv, ShownInv, IsCut
    <3>2. QED BY <3>1, LostShown DEF Store!Next
  <2>4. CASE pc # "metadata"
    <3>1. IsCut' = IsCut
      BY <2>1, <2>4 DEF IsCut
    <3>2. QED BY <2>1, <2>4, <3>1, QuietShown
  <2>5. QED BY <2>2, <2>3, <2>4
<1>8. CASE UNCHANGED vars
  <2>1. Shown' = Shown /\ block' = block
    BY <1>8 DEF vars, disk, index, process, copying, Shown, ToWrite
  <2>2. ReadAlike(block, block', Shown)
    BY <2>1 DEF ReadAlike
  <2>3. IsCut' = IsCut
    BY <1>8 DEF vars, disk, index, process, IsCut
  <2>4. QED BY <2>1, <2>2, <2>3, SameShown
<1>9. QED
  BY <1>1, <1>2, <1>3, <1>4, <1>5, <1>6, <1>7, <1>8 DEF Next, Progress, Writing

\* Nothing is done yet when no file system has been made.
LEMMA InitWork == Init => RInv
BY DEF Init, RInv, WorkInv, EffectInv

\* The commands take effect as a whole, at the moment that metadata is
\* truncated, or not at all, on a full disk too: what the tree on the disk and its
\* blocks show is at any time the store of FileStore.  A process may be killed
\* anywhere.  That loses the store if it is before the first line of metadata is
\* written, and cuts off what has no line yet if it is between two lines; else it
\* leaves the store as it was, or as the command has made it.  The conditions are
\* those of BitmapAgrees: without them files lose blocks to others.
THEOREM ImplementsStore == TailsFit /\ ~StaleMounts => (Spec => RefinesStore)
<1> SUFFICES ASSUME TailsFit /\ ~StaleMounts PROVE Spec => RefinesStore
  OBVIOUS
<1> DEFINE I == IInv /\ TInv /\ BInv /\ RInv
<1>1. Init => I
  BY InitInv, InitTypes, InitAgrees, InitWork
<1>2. I /\ [Next]_vars => I'
  BY StepInv, StepTypes, StepAgrees, StepWork
<1>3. I /\ I' /\ [Next]_vars => [Store!Next]_(Store!vars)
  BY StepShown
<1>4. Init => Store!Init
  BY InitShown
<1> HIDE DEF I
<1>5. QED BY <1>1, <1>2, <1>3, <1>4, PTL DEF Spec, RefinesStore, Store!Spec

=============================================================================
