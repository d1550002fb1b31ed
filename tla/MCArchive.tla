----------------------------- MODULE MCArchive -------------------------------
(***************************************************************************)
(* One chat with two messages, m1 before m2.                               *)
(***************************************************************************)
EXTENDS Archive

CONSTANTS c1, m1, m2

MCTime == [m \in Msgs |-> IF m = m1 THEN 1 ELSE 2]
MCChatOf == [m \in Msgs |-> c1]
=============================================================================
