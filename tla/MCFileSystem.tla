---------------------------- MODULE MCFileSystem ----------------------------
(***************************************************************************)
(* Instances of FileSystem with two names.                                 *)
(***************************************************************************)
EXTENDS FileSystem

CONSTANTS a, b

OneFile == {<<a>>}

\* Two directories beside each other, one of which can hold another one: a
\* directory can be moved and copied with what is in it, also into itself.
Nested == {<<a>>, <<b>>, <<a, a>>, <<a, b>>, <<a, b, a>>, <<b, a>>}

=============================================================================
