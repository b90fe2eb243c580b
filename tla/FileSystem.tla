----------------------------- MODULE FileSystem -----------------------------
(***************************************************************************)
(* The file system of 2014/obedin.nikolay/3.  The tree of directories is   *)
(* one file of the host, "metadata", the map of used blocks another,       *)
(* "bitmap", and each block is a file of its own.  A command is a process: *)
(* it reads metadata and bitmap, works on them in memory, writes blocks as *)
(* it goes along, and its destructor writes metadata and bitmap back,      *)
(* unless the command has thrown.  It may be killed at any point, also     *)
(* between two lines of metadata.                                          *)
(*                                                                         *)
(* Sizes are counted in units of sizeof(block_num) bytes, so that a link   *)
(* to the next block takes one.                                            *)
(***************************************************************************)
EXTENDS FilePaths

CONSTANTS
  BlocksCount,   \* m_blocks_count
  BlockSize,     \* m_block_size
  Torn,          \* a file that is missing or was truncated and not written
  StaleMounts    \* whether commands go on where a kill has left a tree that is
                 \*   newer than the bitmap, or the store is formatted first

ASSUME BlocksAssumption ==
  BlocksCount \in Nat \ {0} /\ BlockSize \in Nat \ {0, 1}

Blocks == 0 .. BlocksCount - 1

ASSUME TornAssumption == \A B \in SUBSET Blocks : B # Torn

ASSUME StaleMountsAssumption == StaleMounts \in BOOLEAN

\* NO_FREE_BLOCKS, which is also the link behind the last block.
NoBlock == -1

\* What fits in a block beside the link.
DataSize == BlockSize - 1

VARIABLES
  \* on the disk
  metadata,      \* the tree that its lines make up, or Torn
  ahead,         \* how much metadata has of a tree newer than the bitmap
  used,          \* the blocks that the bitmap marks as used, or Torn
  block,         \* the contents of each block: units, a link behind them
  \* in the process of the current command
  formatted,     \* is_formatted()
  m_root,
  m_bitmap,      \* the blocks marked as used, Torn if no bitmap was read
  pc,            \* what the process does next
  i,             \* cmd_init's loop variable
  out,           \* the file that goes through an ofilebuf
  queue,         \* the files that copy_dir will copy before going down
  below,         \* <<from, to>>: directories whose subdirectories follow
  \* history: blocks that are marked but that no file has any more, because
  \* it was replaced or a format was killed; as committed, and as the current
  \* command will have it
  lost, losing

index == <<metadata, ahead, used>>
disk == <<index, block>>
copying == <<out, queue, below>>
process == <<formatted, m_root, m_bitmap, pc, i, copying>>
vars == <<disk, process, lost, losing>>

EmptyTree == [dirs |-> {}, files |-> <<>>]

NoFile == [to |-> Root, size |-> 0, start |-> NoBlock, cur |-> NoBlock,
           rest |-> <<>>, whole |-> TRUE]

PCs == {"idle", "formatting", "writing", "commit", "metadata", "between",
        "bitmap"}

Exists(t, p) == p \in t.dirs \/ p \in DOMAIN t.files

IsDir(t, p) == p = Root \/ p \in t.dirs

IsTree(t) ==
  /\ t.dirs \subseteq Paths
  /\ DOMAIN t.files \subseteq Paths
  /\ \A p \in t.dirs \cup DOMAIN t.files : IsDir(t, Front(p))
  /\ \A p \in DOMAIN t.files :
       t.files[p] \in [start : Blocks, size : HostSizes]

\* The tree with the directories S too.
WithDirs(t, S) == [dirs |-> t.dirs \cup S, files |-> t.files]

\* The tree with the file f at p, where it may replace a file.
WithFile(t, p, f) ==
  [dirs |-> t.dirs,
   files |-> [x \in DOMAIN t.files \cup {p} |->
                IF x = p THEN f ELSE t.files[x]]]

TypeOK ==
  /\ metadata = Torn \/ IsTree(metadata)
  /\ ahead \in {"none", "part", "all"}
  /\ used = Torn \/ used \subseteq Blocks
  /\ \A b \in Blocks : Len(block[b]) <= BlockSize
  /\ formatted \in BOOLEAN
  /\ IsTree(m_root)
  /\ m_bitmap = Torn \/ m_bitmap \subseteq Blocks
  /\ pc \in PCs
  /\ i \in 0 .. BlocksCount
  /\ out = NoFile \/ (out.to \in Paths /\ out.start \in Blocks)
  /\ out.cur \in Blocks \cup {NoBlock}
  /\ \A j \in queue : j.to \in Paths /\ j.from.start \in Blocks
  /\ lost \cup losing \subseteq Blocks

Init ==
  /\ metadata = Torn /\ ahead = "none"
  /\ used = Torn
  /\ block = [b \in Blocks |-> <<>>]
  /\ formatted = FALSE
  /\ m_root = EmptyTree
  /\ m_bitmap = Torn
  /\ pc = "idle"
  /\ i = 0
  /\ out = NoFile /\ queue = {} /\ below = <<>>
  /\ lost = {} /\ losing = {}

-----------------------------------------------------------------------------
(***************************************************************************)
(* Blocks: ifilebuf, ofilebuf, next_free_block_num                         *)
(***************************************************************************)

\* Mutant: the search goes one block too far.
NextFree_OneMore(bitmap) ==
  IF bitmap = Torn THEN NoBlock ELSE Min((0 .. BlocksCount) \ bitmap)

NextFree(bitmap) ==
  IF bitmap = Torn \/ bitmap = Blocks THEN NoBlock
  ELSE Min(Blocks \ bitmap)

\* Whether a reader with n units to go reads the link to a next block.
HasNext(n) == n > BlockSize

\* What a reader of the file gets, block by block (ifilebuf::underflow).
Read(f) ==
  LET from[n \in 0 .. f.size] == [b \in Blocks \cup {NoBlock} |->
        IF n = 0 THEN <<>>
        ELSE IF b = NoBlock THEN <<Unopened>>
        ELSE IF HasNext(n) THEN
          IF Len(block[b]) = BlockSize
          THEN SubSeq(block[b], 1, DataSize)
               \o from[n - DataSize][block[b][BlockSize].next]
          ELSE <<Undefined>>
        ELSE IF Len(block[b]) >= n THEN SubSeq(block[b], 1, n)
        ELSE IF block[b] # <<>> THEN Append(block[b], Unopened)
        ELSE <<Undefined>>]
  IN from[f.size][f.start]

\* The blocks that the reader collects on its way.
Chain(f) ==
  LET from[n \in 0 .. f.size] == [b \in Blocks \cup {NoBlock} |->
        IF b # NoBlock /\ HasNext(n) /\ Len(block[b]) = BlockSize
        THEN {b} \cup from[n - DataSize][block[b][BlockSize].next]
        ELSE {b}]
  IN from[f.size][f.start] \ {NoBlock}

Chains(t, S) == UNION {Chain(t.files[p]) : p \in S}

\* An ofilebuf for a file of n units, with c, what was read of it, to write:
\* if it is not whole, then its last unit is where the read failed.
Open(to, n, c, bitmap) ==
  [to |-> to, size |-> n, start |-> NextFree(bitmap), cur |-> NextFree(bitmap),
   rest |-> IF Whole(c) THEN c ELSE Front(c), whole |-> Whole(c)]

-----------------------------------------------------------------------------
(***************************************************************************)
(* The constructor and the destructor of filesystem                        *)
(***************************************************************************)

\* The constructor does not throw.  A tree whose last lines are missing has
\* entries without a name, of which the reader leaves the rest uninitialised:
\* what commands make of it is left out.
Mounts ==
  /\ pc = "idle"
  /\ metadata = Torn \/ used # Torn
  /\ ahead = "none" \/ (ahead = "all" /\ StaleMounts)

\* The tree that the command works on: m_root has no name if there is none.
Tree == IF metadata = Torn THEN EmptyTree ELSE metadata

\* Mutant: the bitmap is not read when the file system is mounted.
Bitmap_Fresh == IF metadata = Torn THEN Torn ELSE {}

Bitmap == IF metadata = Torn THEN Torn ELSE used

\* The command ends without writing blocks: the destructor is next.
Commit(root, bitmap) ==
  /\ formatted' = (metadata # Torn)
  /\ m_root' = root
  /\ m_bitmap' = bitmap
  /\ pc' = "commit"
  /\ UNCHANGED <<disk, i, copying, lost>>

\* The process has ended; what it had in memory is gone.
End ==
  /\ formatted' = FALSE
  /\ m_root' = EmptyTree
  /\ m_bitmap' = Torn
  /\ pc' = "idle"
  /\ i' = 0
  /\ out' = NoFile /\ queue' = {} /\ below' = <<>>
  /\ losing' = {}

\* The tree as it will be read back.  A root without a name is written as no
\* word at all, and the reader takes the next numbers for name and counts.
ToWrite == IF formatted THEN m_root ELSE EmptyTree

TruncateMetadata ==
  /\ pc = "commit"
  /\ metadata' = Torn /\ ahead' = "none"
  /\ pc' = "metadata"
  /\ UNCHANGED <<used, block, formatted, m_root, m_bitmap, i, copying, lost,
                 losing>>

\* endl flushes each line, so that it is on the disk before the next one is.
LineWritten(tree) ==
  /\ metadata' = tree
  /\ ahead' = IF tree = ToWrite THEN "all" ELSE "part"
  /\ pc' = IF tree = ToWrite THEN "between" ELSE "metadata"
  /\ UNCHANGED <<used, block, formatted, m_root, m_bitmap, i, copying, lost,
                 losing>>

\* The root's line, which says how many entries follow.
WriteRoot ==
  /\ pc = "metadata"
  /\ metadata = Torn
  /\ LineWritten(EmptyTree)

DirsToWrite == ToWrite.dirs \ metadata.dirs

FilesToWrite == DOMAIN ToWrite.files \ DOMAIN metadata.files

\* A directory that has been begun is finished before anything beside it.
InTurn(p) ==
  /\ IsDir(metadata, Front(p))
  /\ \A d \in metadata.dirs, x \in DirsToWrite \cup FilesToWrite :
       Below(d, x) => Below(d, p)

\* The directories of a directory come before its files.  (Among themselves
\* they are written by name; the order is left open.)
WriteDir(p) ==
  /\ pc = "metadata"
  /\ metadata # Torn
  /\ p \in DirsToWrite
  /\ InTurn(p)
  /\ LineWritten(WithDirs(metadata, {p}))

WriteFile(p) ==
  /\ pc = "metadata"
  /\ metadata # Torn
  /\ p \in FilesToWrite
  /\ InTurn(p)
  /\ \A d \in DirsToWrite : Front(d) # Front(p)
  /\ LineWritten(WithFile(metadata, p, ToWrite.files[p]))

WriteMetadata ==
  \/ WriteRoot
  \/ \E p \in Paths : WriteDir(p) \/ WriteFile(p)

TruncateBitmap ==
  /\ pc = "between"
  /\ used' = Torn /\ ahead' = "none"
  /\ pc' = "bitmap"
  /\ UNCHANGED <<metadata, block, formatted, m_root, m_bitmap, i, copying,
                 lost, losing>>

WriteBitmap ==
  /\ pc = "bitmap"
  /\ used' = m_bitmap
  /\ lost' = losing
  /\ End
  /\ UNCHANGED <<metadata, ahead, block>>

\* An error: the destructor is called with an uncaught exception.
Throw == End /\ UNCHANGED <<index, lost>>

Crash ==
  /\ pc # "idle"
  /\ End
  /\ UNCHANGED <<disk, lost>>

-----------------------------------------------------------------------------
(***************************************************************************)
(* init and format                                                         *)
(***************************************************************************)

\* Neither reads metadata or bitmap; format has set m_root and m_bitmap when
\* the destructor comes, init has not.
StartInit(format) ==
  /\ pc = "idle"
  /\ formatted' = format
  /\ m_bitmap' = IF format THEN {} ELSE Torn
  /\ pc' = "formatting"
  /\ UNCHANGED <<disk, m_root, i, copying, lost, losing>>

TruncateBlock ==
  /\ pc = "formatting"
  /\ i < BlocksCount
  /\ block' = [block EXCEPT ![i] = <<>>]
  /\ i' = i + 1
  /\ lost' = IF used = Torn THEN lost ELSE used
  /\ UNCHANGED <<index, formatted, m_root, m_bitmap, pc, copying, losing>>

AllTruncated ==
  /\ pc = "formatting"
  /\ i = BlocksCount
  /\ pc' = "commit"
  /\ UNCHANGED <<disk, formatted, m_root, m_bitmap, i, copying, lost, losing>>

-----------------------------------------------------------------------------
(***************************************************************************)
(* Commands that only read, and those that only change the tree            *)
(***************************************************************************)

\* ls of a directory or file: also writes metadata and bitmap again.
Ls(p) ==
  /\ Mounts
  /\ p = Root \/ Exists(Tree, p)
  /\ Commit(Tree, Bitmap)
  /\ losing' = lost

\* export: the same, if the file can be read to its end.  What is read of a
\* file over which a format was killed is undefined: that is left out, here and
\* where files are removed or copied.
Export(p) ==
  /\ Mounts
  /\ p \in DOMAIN Tree.files
  /\ Whole(Read(Tree.files[p]))
  /\ Commit(Tree, Bitmap)
  /\ losing' = lost

\* The tree with an empty directory p, and the directories it lies in.
Made(t, p) ==
  [dirs |-> {x \in t.dirs : ~Below(p, x)} \cup {x \in Paths : AtOrBelow(x, p)},
   files |-> Restrict(t.files, {x \in DOMAIN t.files : ~Below(p, x)})]

Mkdir(p) ==
  /\ Mounts
  /\ \A x \in DOMAIN Tree.files :
       AtOrBelow(x, p) => x # p /\ x \in Tree.dirs
  /\ Commit(Made(Tree, p), Bitmap)
  /\ losing' = lost \cup Chains(Tree, {x \in DOMAIN Tree.files : Below(p, x)})

\* The path under which move and copy put the source (find_roots): the one
\* that is given, or the source's name in it if it is a directory.
Destination(p, q) == IF q \in Tree.dirs THEN Append(q, Last(p)) ELSE q

MayGo(p, q) ==
  /\ Mounts
  /\ Exists(Tree, p)
  /\ IsDir(Tree, Front(q))
  /\ p # q
  /\ q \notin DOMAIN Tree.files
  /\ ~Exists(Tree, Destination(p, q))
  /\ Destination(p, q) \in Paths

\* The paths that go with p when it is a directory.
Subtree(t, p) ==
  [dirs |-> {x \in t.dirs : AtOrBelow(p, x)},
   files |-> {x \in DOMAIN t.files : Below(p, x)}]

\* The tree in which d has been moved to q.
Moved(t, p, q, s) ==
  LET stay == DOMAIN t.files \ s.files
  IN [dirs |-> (t.dirs \ s.dirs) \cup {Onto(p, q, x) : x \in s.dirs},
      files |-> [y \in stay \cup {Onto(p, q, x) : x \in s.files} |->
                   IF y \in stay THEN t.files[y]
                   ELSE t.files[Onto(q, p, y)]]]

\* Whether the moved and copied paths are within the bound.
Fits(p, q, S) == \A x \in S : Onto(p, q, x) \in Paths

\* is_parent walks from the place where the directory would go up to the root
\* and, if it has not met the directory, on to m_parent of the root, which
\* nothing has set unless it is null by chance: the process may then end, or
\* hang, before it has written anything, as if the command had not been given.
MoveDir(p, q) ==
  LET to == Destination(p, q)
      s == Subtree(Tree, p)
  IN /\ MayGo(p, q)
     /\ p \in Tree.dirs
     /\ ~AtOrBelow(p, Front(to))
     /\ Fits(p, to, s.dirs \cup s.files)
     /\ Commit(Moved(Tree, p, to, s), Bitmap)
     /\ losing' = lost

MoveFile(p, q) ==
  /\ MayGo(p, q)
  /\ p \notin Tree.dirs
  /\ Commit(Moved(Tree, p, Destination(p, q), [dirs |-> {}, files |-> {p}]),
            Bitmap)
  /\ losing' = lost

-----------------------------------------------------------------------------
(***************************************************************************)
(* rm                                                                      *)
(***************************************************************************)

\* Mutant: the block that the file begins with is forgotten.
Freed_NotFirst(S) == Chains(Tree, S) \ {Tree.files[p].start : p \in S}

\* The blocks that removing the files S marks as free.
Freed(S) == Chains(Tree, S)

\* Removes the directories ds and the files fs; throws if one of the files
\* cannot be read to its end.
Drop(ds, fs) ==
  /\ \A x \in fs : Whole(Read(Tree.files[x]))
  /\ Commit([dirs |-> Tree.dirs \ ds,
             files |-> Restrict(Tree.files, DOMAIN Tree.files \ fs)],
            IF Bitmap = Torn THEN Torn ELSE Bitmap \ Freed(fs))
  /\ losing' = lost

Rm(p) ==
  /\ Mounts
  /\ LET s == Subtree(Tree, p)
     IN \/ IsDir(Tree, p) /\ Drop(s.dirs, s.files)
        \/ ~IsDir(Tree, p) /\ p \in DOMAIN Tree.files /\ Drop({}, {p})

-----------------------------------------------------------------------------
(***************************************************************************)
(* import and copy                                                         *)
(***************************************************************************)

\* The command goes on to write files.
Write(root, first, later, subdirs) ==
  /\ formatted' = TRUE
  /\ m_root' = root
  /\ m_bitmap' = Bitmap
  /\ pc' = "writing"
  /\ out' = first /\ queue' = later /\ below' = subdirs
  /\ UNCHANGED <<disk, i, lost>>

\* import, which replaces the file that has the name.
Import(p, n) ==
  LET replaced == {p} \cap DOMAIN Tree.files
  IN /\ Mounts
     /\ IsDir(Tree, Front(p))
     /\ NextFree(Bitmap) # NoBlock
     /\ Write(Tree, Open(p, n, Content(n), Bitmap), {}, <<>>)
     /\ losing' = lost \cup Chains(Tree, replaced)

CopyFile(p, q) ==
  LET f == Tree.files[p]
  IN /\ MayGo(p, q)
     /\ p \notin Tree.dirs
     /\ IsDefined(Read(f))
     /\ NextFree(Bitmap) # NoBlock
     /\ Write(Tree, Open(Destination(p, q), f.size, Read(f), Bitmap), {}, <<>>)
     /\ losing' = lost

\* The files of t in the directory p itself, and in its subdirectories.
FilesIn(t, p) == {x \in DOMAIN t.files : Front(x) = p}
FilesDeeper(t, p) == {x \in DOMAIN t.files : Below(p, Front(x))}

\* The jobs of copying the files S of t from below p to below q.
Jobs(t, p, q, S) == {[from |-> t.files[x], to |-> Onto(p, q, x)] : x \in S}

CopyDir(p, q) ==
  LET to == Destination(p, q)
      s == Subtree(Tree, p)
      new == s.dirs \cup s.files \cup {to} \cup
             {Onto(p, to, x) : x \in FilesIn(Tree, p)}
  IN /\ MayGo(p, q)
     /\ p \in Tree.dirs
     /\ \A x \in s.files : IsDefined(Read(Tree.files[x]))
     /\ Fits(p, to, IF AtOrBelow(p, to) THEN new ELSE s.dirs \cup s.files)
     /\ Write(WithDirs(Tree, {to}), NoFile,
              Jobs(Tree, p, to, FilesIn(Tree, p)), <<p, to>>)
     /\ losing' = lost

\* copy_file is called for the next file.
NextCopy(j) ==
  /\ pc = "writing"
  /\ out = NoFile
  /\ j \in queue
  /\ NextFree(m_bitmap) # NoBlock
  /\ out' = Open(j.to, j.from.size, Read(j.from), m_bitmap)
  /\ queue' = queue \ {j}
  /\ UNCHANGED <<disk, formatted, m_root, m_bitmap, pc, i, below, lost, losing>>

\* Mutant: the copy waits for a block to become free.
CopyFails_Waits == FALSE

\* copy_file finds no free block and throws.
CopyFails ==
  /\ pc = "writing"
  /\ out = NoFile
  /\ queue # {}
  /\ NextFree(m_bitmap) = NoBlock
  /\ Throw
  /\ UNCHANGED block

\* All files of the directory are copied; its subdirectories are, by then,
\* copied as they are now, which may include the copy itself.
CopySubdirs ==
  /\ pc = "writing"
  /\ out = NoFile
  /\ queue = {}
  /\ below # <<>>
  /\ LET p == below[1]
         q == below[2]
         s == Subtree(m_root, p)
     IN /\ m_root' = WithDirs(m_root, {Onto(p, q, x) : x \in s.dirs})
        /\ queue' = Jobs(m_root, p, q, FilesDeeper(m_root, p))
  /\ below' = <<>>
  /\ pc' = IF queue' = {} THEN "commit" ELSE "writing"
  /\ UNCHANGED <<disk, formatted, m_bitmap, i, out, lost, losing>>

\* Mutant: the block that is written is not marked.
Flush_Unmarked(c) ==
  LET next == NextFree(m_bitmap \cup {out.cur})
  IN /\ block' = [block EXCEPT ![out.cur] =
                    IF Len(c) = DataSize THEN Append(c, [next |-> next]) ELSE c]
     /\ out' = [out EXCEPT !.cur = next,
                           !.rest = SubSeq(@, Len(c) + 1, Len(@))]
     /\ UNCHANGED m_bitmap

\* ofilebuf::flush with units c in the buffer and room to write them.
Flush(c) ==
  LET next == NextFree(m_bitmap \cup {out.cur})
  IN /\ block' = [block EXCEPT ![out.cur] =
                    IF Len(c) = DataSize THEN Append(c, [next |-> next]) ELSE c]
     /\ m_bitmap' = m_bitmap \cup {out.cur}
     /\ out' = [out EXCEPT !.cur = next,
                           !.rest = SubSeq(@, Len(c) + 1, Len(@))]

\* The buffer is full: overflow() writes a block.
FlushBlock ==
  /\ pc = "writing"
  /\ Len(out.rest) >= DataSize
  /\ out.cur # NoBlock
  /\ Flush(SubSeq(out.rest, 1, DataSize))
  /\ UNCHANGED <<index, formatted, m_root, pc, i, queue, below, lost, losing>>

FlushFails ==
  /\ pc = "writing"
  /\ Len(out.rest) >= DataSize
  /\ out.cur = NoBlock
  /\ Throw
  /\ UNCHANGED block

\* Everything has gone into the buffer without an error: the file is added to
\* the tree, and then the destructor of the ofilebuf writes the rest, if there
\* is a block for it.
FinishFile ==
  /\ pc = "writing"
  /\ out # NoFile
  /\ Len(out.rest) < DataSize
  /\ out.whole
  /\ IF out.rest # <<>> /\ out.cur # NoBlock
     THEN /\ block' = [block EXCEPT ![out.cur] = out.rest]
          /\ m_bitmap' = m_bitmap \cup {out.cur}
     ELSE UNCHANGED <<block, m_bitmap>>
  /\ m_root' = WithFile(m_root, out.to,
                       [start |-> out.start, size |-> out.size])
  /\ out' = NoFile
  /\ pc' = IF queue = {} /\ below = <<>> THEN "commit" ELSE "writing"
  /\ UNCHANGED <<index, formatted, i, queue, below, lost, losing>>

\* The source of the copy could not be read to its end.
ReadFails ==
  /\ pc = "writing"
  /\ out # NoFile
  /\ Len(out.rest) < DataSize
  /\ ~out.whole
  /\ block' = IF out.rest # <<>> /\ out.cur # NoBlock
              THEN [block EXCEPT ![out.cur] = out.rest] ELSE block
  /\ Throw

-----------------------------------------------------------------------------
Command ==
  \/ \E format \in BOOLEAN : StartInit(format)
  \/ \E p \in Paths \cup {Root} : Ls(p) \/ Rm(p)
  \/ \E p \in Paths : Export(p) \/ Mkdir(p)
  \/ \E p \in Paths, n \in HostSizes : Import(p, n)
  \/ \E p, q \in Paths :
       MoveDir(p, q) \/ MoveFile(p, q) \/ CopyDir(p, q) \/ CopyFile(p, q)

Writing ==
  \/ \E j \in queue : NextCopy(j)
  \/ CopyFails
  \/ CopySubdirs
  \/ FlushBlock
  \/ FlushFails
  \/ FinishFile
  \/ ReadFails

Progress ==
  \/ TruncateBlock
  \/ AllTruncated
  \/ Writing
  \/ TruncateMetadata
  \/ WriteMetadata
  \/ TruncateBitmap
  \/ WriteBitmap

Next == Command \/ Progress \/ Crash

\* A process that was started runs on, unless it is killed.
Spec == Init /\ [][Next]_vars /\ WF_vars(Progress)

-----------------------------------------------------------------------------
(***************************************************************************)
(* Properties                                                              *)
(***************************************************************************)

\* Between commands no block belongs to two files, wherever a process was
\* killed.  And the bitmap agrees with the tree, unless the tree is newer: no
\* file has a block that is free for others, and no block is kept from use but
\* those of files that were replaced by import or mkdir.
BlocksAgree ==
  pc = "idle" /\ metadata # Torn /\ used # Torn =>
    LET fs == metadata.files
        blocks == Chains(metadata, DOMAIN fs)
    IN /\ \A p, q \in DOMAIN fs : p # q => Chain(fs[p]) \cap Chain(fs[q]) = {}
       /\ ahead = "none" =>
            blocks \subseteq used /\ used \subseteq blocks \cup lost

\* Outside of a format, no block is written that the committed bitmap marks as
\* used: a command that fails or is killed has not touched what was there.
WritesOnlyFree ==
  [][\A b \in Blocks : block'[b] # block[b] =>
       pc = "formatting" \/ (used # Torn /\ b \notin used)]_vars

\* The file system implements the store whose commands take effect as a whole:
\* a command counts from the moment that metadata is truncated, and a kill while
\* metadata is written leaves the part of the store that has its lines.
Shown ==
  IF pc = "metadata" THEN ToWrite
  ELSE IF metadata = Torn THEN EmptyTree ELSE metadata

IsCut == ahead = "part" /\ pc # "metadata"

Store == INSTANCE FileStore WITH
  dirs <- Shown.dirs,
  files <- [p \in DOMAIN Shown.files |-> Read(Shown.files[p])],
  cut <- IsCut

RefinesStore == Store!Spec

\* Every command comes to its end: a copy that may copy itself, files that are
\* cut short and a disk that is full included.
CommandEnds == pc # "idle" ~> pc = "idle"

\* tests/test_export.sh compares an exported file with the one that was
\* imported, which should not differ.
ExportGivesImport ==
  metadata # Torn =>
    \A p \in DOMAIN metadata.files :
      Whole(Read(metadata.files[p])) =>
        Read(metadata.files[p]) = Content(metadata.files[p].size)

=============================================================================
