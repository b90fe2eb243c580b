----------------------------- MODULE FilePaths -----------------------------
(***************************************************************************)
(* Paths of a file system, what the host's files contain, and what may be  *)
(* found in their place.  A path is the sequence of the names on the way   *)
(* from the root, which is <<>>.                                           *)
(***************************************************************************)
EXTENDS Integers, SequencesExt

CONSTANTS
  Paths,       \* bound: the paths that directories and files can have
  HostSizes    \* the files of the host, each standing for its size

ASSUME PathsAssumption ==
  \A p \in Paths : /\ p \in Seq(Range(p)) \ {<<>>}
                   /\ Len(p) > 1 => Front(p) \in Paths

ASSUME HostSizesAssumption == HostSizes \subseteq Nat

Root == <<>>

Below(p, x) == IsStrictPrefix(p, x)

AtOrBelow(p, x) == IsPrefix(p, x)

\* Where x, a path at or below p, comes to lie when p becomes q.
Onto(p, q, x) == q \o SubSeq(x, Len(p) + 1, Len(x))

\* The units of the host file with n units, all different from all others.
Content(n) == [i \in 1 .. n |-> [of |-> n, at |-> i]]

\* What a read meets instead of the next unit: a block that cannot be opened,
\* or an erased one, of which it takes uninitialised memory for data and link.
Unopened == [bad |-> "unopened"]
Undefined == [bad |-> "undefined"]

Whole(c) == {c[i] : i \in DOMAIN c} \cap {Unopened, Undefined} = {}

IsDefined(c) == \A i \in DOMAIN c : c[i] # Undefined

=============================================================================
