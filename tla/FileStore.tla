----------------------------- MODULE FileStore -----------------------------
(***************************************************************************)
(* What a file system promises whose commands take effect as a whole or    *)
(* not at all: each changes the directories and files it names and nothing *)
(* else.  A file that is written may come out visibly damaged, when there  *)
(* is no room, but never with other contents.  A crash may lose the whole  *)
(* store, or cut off a part of it; then only a format helps, but what is   *)
(* left is as it was.                                                      *)
(***************************************************************************)
EXTENDS FilePaths

VARIABLES
  dirs,    \* the set of the paths of directories
  files,   \* the contents of each file, by its path
  cut      \* whether a crash has left only a part

vars == <<dirs, files, cut>>

IsDir(p) == p = Root \/ p \in dirs

Exists(p) == p \in dirs \/ p \in DOMAIN files

Init == dirs = {} /\ files = <<>> /\ cut = FALSE

\* The file x now has the contents c or is visibly damaged.
Holds(x, c) == files'[x] = c \/ ~Whole(files'[x])

\* The files in S, and no others, are still there and unchanged.
Keep(S) == \A x \in S : x \in DOMAIN files' /\ files'[x] = files[x]

\* Everything is lost, by init, format or a crash.
Lose == dirs' = {} /\ files' = <<>> /\ cut' = FALSE

\* A crash leaves some directories and files, with those they lie in.
Cut ==
  /\ dirs' \subseteq dirs
  /\ DOMAIN files' \subseteq DOMAIN files
  /\ Keep(DOMAIN files')
  /\ \A p \in dirs' \cup DOMAIN files' : Front(p) \in dirs' \cup {Root}
  /\ cut' = TRUE

\* A format has begun: files become unreadable one by one.
Erase ==
  /\ UNCHANGED <<dirs, cut>>
  /\ DOMAIN files' = DOMAIN files
  /\ \A x \in DOMAIN files : Holds(x, files[x])

\* A file is imported, perhaps over another one.
Import(p, n) ==
  /\ IsDir(Front(p))
  /\ UNCHANGED dirs
  /\ DOMAIN files' = DOMAIN files \cup {p}
  /\ Keep(DOMAIN files \ {p})
  /\ Holds(p, Content(n))

\* A directory is made with those it lies in; one that is there is emptied.
MakeDir(p) ==
  LET rest == {x \in DOMAIN files : ~Below(p, x)}
  IN /\ dirs' = {x \in dirs : ~Below(p, x)} \cup {x \in Paths : AtOrBelow(x, p)}
     /\ DOMAIN files' = rest
     /\ Keep(rest)

Delete(p) ==
  LET rest == IF IsDir(p) THEN {x \in DOMAIN files : ~Below(p, x)}
              ELSE DOMAIN files \ {p}
  IN /\ Exists(p) \/ p = Root
     /\ dirs' = {x \in dirs : ~AtOrBelow(p, x)}
     /\ DOMAIN files' = rest
     /\ Keep(rest)

\* Everything at or below p is at or below q, where there was nothing.
Arrives(p, q, x) ==
  Onto(p, q, x) \in DOMAIN files' /\ Holds(Onto(p, q, x), files[x])

Free(q) == ~Exists(q) /\ IsDir(Front(q))

Move(p, q) ==
  LET moved == {x \in DOMAIN files : IF p \in dirs THEN Below(p, x) ELSE x = p}
      there == {Onto(p, q, x) : x \in moved}
  IN /\ Exists(p) /\ Free(q)
     /\ p \in dirs => ~AtOrBelow(p, q)
     /\ dirs' = {x \in dirs : ~AtOrBelow(p, x)}
                \cup {Onto(p, q, x) : x \in {d \in dirs : AtOrBelow(p, d)}}
     /\ DOMAIN files' = (DOMAIN files \ moved) \cup there
     /\ Keep(DOMAIN files \ moved)
     /\ \A x \in moved : files'[Onto(p, q, x)] = files[x]

\* A directory that is copied into itself is copied with its own copy in it,
\* to a depth that is left open.
Copy(p, q) ==
  LET copied == {x \in DOMAIN files : IF p \in dirs THEN Below(p, x) ELSE x = p}
      new == DOMAIN files' \ DOMAIN files
  IN /\ Exists(p) /\ Free(q)
     /\ dirs \subseteq dirs'
     /\ \A x \in dirs : AtOrBelow(p, x) => Onto(p, q, x) \in dirs'
     /\ \A x \in dirs' \ dirs : AtOrBelow(q, x)
     /\ DOMAIN files \subseteq DOMAIN files'
     /\ Keep(DOMAIN files)
     /\ \A x \in copied : Arrives(p, q, x)
     /\ \A y \in new : AtOrBelow(q, y) /\ \E x \in copied : Holds(y, files[x])

Command ==
  \/ \E p \in Paths, n \in HostSizes : Import(p, n)
  \/ \E p \in Paths : MakeDir(p)
  \/ \E p \in Paths \cup {Root} : Delete(p)
  \/ \E p, q \in Paths : Move(p, q) \/ Copy(p, q)

Next ==
  \/ Lose
  \/ Cut
  \/ Erase
  \/ ~cut /\ Command /\ UNCHANGED cut

Spec == Init /\ [][Next]_vars

=============================================================================
