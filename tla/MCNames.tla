------------------------------ MODULE MCNames -------------------------------
(***************************************************************************)
(* Two messages of one person in one chat, one after the other, a second  *)
(* chat of one or two people, two labels, and queries of every kind, in an *)
(* archive used by a daemon and a command.                                 *)
(***************************************************************************)
EXTENDS Names

CONSTANTS daemon, command, m1, m2, party, tent, the
CONSTANTS plain, stopped, queried, either, literal, hollow
CONSTANTS x, y, chat1, chat2, ann, mom

MCTime == [m \in Msgs |-> IF m = m1 THEN 1 ELSE 2]
MCBodies == {{party, tent}, {party}}

\* party tent / the party tent / the party's tent? / party OR tent / "tent" / the?
MCWordsOf == [q \in Queries |->
  CASE q \in {stopped, queried} -> {the, party, tent} [] q = literal -> {tent}
    [] q = hollow -> {the} [] OTHER -> {party, tent}]
MCMatch == [q \in Queries |->
  CASE q \in {plain, literal} -> {{party, tent}} [] q = either -> Bodies [] OTHER -> {}]

MCContactRows == {<<x, ann>>}
MCChatRows == {[name |-> Blank, people |-> [z \in {x, y} |-> Blank], last |-> 1],
               [name |-> ann, people |-> [z \in {y} |-> ann], last |-> 2]}
MCAliases == {<<x, mom>>, <<y, mom>>, <<chat1, mom>>}
MCNumberOf == [z \in People |-> <<z>>]
MCSenderOf == [m \in Msgs |-> x]
MCChatOf == [m \in Msgs |-> chat1]
=============================================================================
