---------------------------- MODULE MCTuiScreen -----------------------------
(***************************************************************************)
(* Two chats, one with a row of its own and one that is found by a message *)
(* hit; the empty query, one of two characters, and one of three.          *)
(***************************************************************************)
EXTENDS TuiScreen

CONSTANTS c1, c2, chatRow, hitRow, empty, ab, abc

MCChars == [q \in Queries |-> CASE q = empty -> 0 [] q = ab -> 2 [] OTHER -> 3]
MCChatOf == [r \in Rows |-> IF r = chatRow THEN c1 ELSE c2]
=============================================================================
