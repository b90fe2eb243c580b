---------------------------- MODULE MCChatServer ----------------------------
(***************************************************************************)
(* The instance of ChatServer: two clients for two slots, who send two     *)
(* messages and one, and come and leave at any time.                       *)
(***************************************************************************)
EXTENDS ChatServer

CONSTANTS c1, c2

BothTalk == (c1 :> 2) @@ (c2 :> 1)

=============================================================================
