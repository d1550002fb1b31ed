------------------------------- MODULE Names --------------------------------
(***************************************************************************)
(* The names people and chats go by (contacts, aliases and conversations   *)
(* in internal/store), composed with the archive's file (Store).           *)
(*                                                                         *)
(* A name is written by imports, by whatever mentions a participant, and   *)
(* by the user as an alias.  A find is two statements, the naming of a     *)
(* reply's messages one for every sender or chat; writes of the other      *)
(* processes come between them, and any of them may fail.  A label is      *)
(* looked for as a whole.                                                  *)
(***************************************************************************)
EXTENDS Store

CONSTANTS
  People, Chats,
  Labels,         \* names, and what is looked for
  ContactRows,    \* names an import of contacts may bring: <<person, name>>
  ChatRows,       \* what an import may say of a chat: [name, people, last]
  Aliases,        \* aliases the user may give: <<person or chat, label>>
  Blank,          \* no name
  NumberOf,       \* NumberOf[x]: the number of person x
  SenderOf,       \* SenderOf[m]: who wrote message m
  ChatOf,         \* ChatOf[m]: the chat message m is in
  Page,           \* messages a list returns
  ContactLimit,   \* contacts a find takes into account
  ChatLimit       \* chats it returns

Named == People \union Chats

\* What participants_json may say: the people in a chat, with a name or none.
Participants == UNION {[X -> Labels \union {Blank}] : X \in SUBSET People}
Conversations == [name : Labels \union {Blank}, people : Participants, last : Nat]
Stub == [name |-> Blank, people |-> [x \in {} |-> Blank], last |-> 0]

ASSUME NamesAssumption == /\ {None, Blank} \cap (Labels \union Named \union Participants) = {}
                          /\ Blank # None /\ None \notin Conversations /\ People \cap Chats = {}
                          /\ SenderOf \in [Msgs -> People] /\ ChatOf \in [Msgs -> Chats]
                          /\ DOMAIN NumberOf = People
                          /\ IsFiniteSet(People) /\ IsFiniteSet(Chats)
                          /\ \A x \in People : NumberOf[x] # None
                          /\ {Page, ContactLimit, ChatLimit} \subseteq Nat \ {0}
ASSUME RowsAssumption == /\ ContactRows \subseteq People \X (Labels \union {Blank})
                         /\ ChatRows \subseteq Conversations
                         /\ Aliases \subseteq Named \X Labels

VARIABLES
  contact,  \* contact[x]: the name column of x's row, None without a row
  alias,    \* alias[t]: the alias of person or chat t, or None
  chat,     \* chat[c]: its name, participants_json and last_message_ts, or None
  todo,     \* todo[p]: participants that p's import has yet to write
  doing,    \* doing[p]: "nothing", "contacts", "chats", "senders" or "hits"
  sought,   \* sought[p]: the label p looks for, or None
  via,      \* via[p]: the contacts that go by it
  blind,    \* blind[p]: the search for them has failed
  found,    \* found[p]: the chats found, each with its last_message_ts
  rows,     \* rows[p]: the messages of p's reply
  names,    \* names[p][m]: the name given to message m in it, or None so far
  steady    \* steady[p]: reasons to find a chat that held all along (history), and
            \* its last_message_ts when the find began

labels == <<contact, alias, chat>>
find == <<sought, via, blind, found, steady>>
reply == <<rows, names>>
nameVars == <<labels, todo, doing, find, reply>>
namesVars == <<vars, nameVars>>

\* No message of a reply has a name yet.
Unnamed == [m \in Msgs |-> None]

Does(p, d) == doing' = [doing EXCEPT ![p] = d]

\* Process p can make a request, or write.
Idle(p) == at[p] = "open" /\ p \in Readers /\ doing[p] = "nothing"
Writing(p) == at[p] \in Opened /\ writer = None /\ writes < MaxWrites /\ writes' = writes + 1

-----------------------------------------------------------------------------
(***************************************************************************)
(* FindConversations                                                       *)
(***************************************************************************)

GoesBy(x, n) == contact[x] # None /\ n \in {contact[x], alias[x]}

\* The conversation's own columns, and its alias.
Itself(c, n) ==
  /\ chat[c] # None
  /\ \/ n \in {chat[c].name, alias[c]}
     \/ \E x \in DOMAIN chat[c].people : chat[c].people[x] = n

Members(c) == IF chat[c] = None THEN {} ELSE DOMAIN chat[c].people

\* Why chat c is to be found under the name n: it is called so, or somebody in it.
Reasons(n) ==
  {<<c, c>> : c \in {c \in Chats : Itself(c, n)}} \union
  {r \in Chats \X People : r[2] \in Members(r[1]) /\ GoesBy(r[2], n)}

\* SearchContacts, first of all; which contacts make it within the limit depends on
\* the order of their display names.  Its failure is passed over.
FindContacts(p, n) ==
  /\ Idle(p)
  /\ LET S == {x \in People : GoesBy(x, n)}
     IN  \/ \E X \in SUBSET S :
              /\ Cardinality(X) = IF Cardinality(S) > ContactLimit THEN ContactLimit
                                                                   ELSE Cardinality(S)
              /\ via' = [via EXCEPT ![p] = X]
              /\ UNCHANGED blind
         \/ blind' = [blind EXCEPT ![p] = TRUE] /\ UNCHANGED via
  /\ sought' = [sought EXCEPT ![p] = n]
  /\ steady' = [steady EXCEPT ![p] = {<<r[1], r[2], chat[r[1]].last>> : r \in Reasons(n)}]
  /\ Does(p, "contacts")
  /\ UNCHANGED <<vars, labels, todo, found, reply>>

\* ORDER BY last_message_ts DESC LIMIT ?: what may be returned of the chats in S.
Latest(S) ==
  {{<<c, chat[c].last>> : c \in X} : X \in {X \in SUBSET S :
     /\ Cardinality(X) = IF Cardinality(S) > ChatLimit THEN ChatLimit ELSE Cardinality(S)
     /\ \A c \in X, d \in S \ X : chat[d].last <= chat[c].last}}

\* Mutant: only what the conversation's row says.
FindChatsThemselves(p) ==
  /\ doing[p] = "contacts"
  /\ \E F \in Latest({c \in Chats : Itself(c, sought[p])}) : found' = [found EXCEPT ![p] = F]
  /\ Does(p, "chats")
  /\ UNCHANGED <<vars, labels, todo, sought, via, blind, steady, reply>>

\* One statement over conversations, with a clause for each contact.
FindChats(p) ==
  /\ doing[p] = "contacts"
  /\ \E F \in Latest({c \in Chats : Itself(c, sought[p]) \/ Members(c) \intersect via[p] # {}}) :
       found' = [found EXCEPT ![p] = F]
  /\ Does(p, "chats")
  /\ UNCHANGED <<vars, labels, todo, sought, via, blind, steady, reply>>

\* What p was looking for is forgotten.
FindForgotten(p) ==
  /\ sought' = [sought EXCEPT ![p] = None]
  /\ via' = [via EXCEPT ![p] = {}] /\ blind' = [blind EXCEPT ![p] = FALSE]
  /\ found' = [found EXCEPT ![p] = {}] /\ steady' = [steady EXCEPT ![p] = {}]

\* The chats are answered; or, where the second statement fails, its error.
FindReturns(p) ==
  /\ doing[p] \in {"contacts", "chats"}
  /\ FindForgotten(p)
  /\ Does(p, "nothing")
  /\ UNCHANGED <<vars, labels, todo, reply>>

-----------------------------------------------------------------------------
(***************************************************************************)
(* The names in a reply                                                    *)
(***************************************************************************)

\* GetContact and what EnrichMessages makes of it: an alias counts only for
\* a contact that has a row.
SenderName(x) ==
  CASE contact[x] = None -> x
    [] contact[x] # None /\ alias[x] # None -> alias[x]
    [] OTHER -> IF contact[x] = Blank THEN NumberOf[x] ELSE contact[x]

\* GetConversation and Conversation.DisplayName; what is joined of the names and
\* numbers of those in the chat is told apart by participants_json.
ChatName(c) ==
  CASE chat[c] = None -> Blank
    [] chat[c] # None /\ alias[c] # None -> alias[c]
    [] OTHER -> IF chat[c].name # Blank THEN chat[c].name
                ELSE IF DOMAIN chat[c].people = {} THEN c ELSE chat[c].people

\* messages.list: ListMessages, and then EnrichMessages.
ListMessages(p) ==
  /\ Idle(p)
  /\ \E X \in Newest(Rows, Page) : rows' = [rows EXCEPT ![p] = X]
  /\ Does(p, "senders")
  /\ UNCHANGED <<vars, labels, todo, find, names>>

\* A search has its hits: attachConversationNames.
NameHits(p) ==
  /\ at[p] = "found" /\ doing[p] = "nothing"
  /\ rows' = [rows EXCEPT ![p] = {h[1] : h \in hits[p]}]
  /\ Does(p, "hits")
  /\ UNCHANGED <<vars, labels, todo, find, names>>

\* Whose name message m gets in the reply to p.
Key(p, m) == IF doing[p] = "hits" THEN ChatOf[m] ELSE SenderOf[m]
NameOf(p, m) == IF doing[p] = "hits" THEN ChatName(ChatOf[m]) ELSE SenderName(SenderOf[m])

\* What the store says, or what stands in when it cannot be read.
NamesFor(p, m) == {NameOf(p, m), IF doing[p] = "hits" THEN Blank ELSE SenderOf[m]}

\* The messages of p's reply that have a name, and the next to get one: newest first.
Done(p) == {m \in rows[p] : names[p][m] # None}
NextRow(p) == {m \in rows[p] \ Done(p) : \A n \in rows[p] \ Done(p) : Time[n] <= Time[m]}

\* Mutant: no cache.
NameNextAfresh(p) ==
  /\ \E m \in NextRow(p) : \E v \in NamesFor(p, m) : names' = [names EXCEPT ![p][m] = v]
  /\ UNCHANGED <<vars, labels, todo, doing, find, rows>>

\* The next message's name: from the cache, or from the store.
NameNext(p) ==
  /\ \E m \in NextRow(p) :
       LET cached == {n \in Done(p) : Key(p, n) = Key(p, m)}
       IN  \/ \E n \in cached : names' = [names EXCEPT ![p][m] = names[p][n]]
           \/ cached = {} /\ \E v \in NamesFor(p, m) : names' = [names EXCEPT ![p][m] = v]
  /\ UNCHANGED <<vars, labels, todo, doing, find, rows>>

\* The reply is complete.
ReplyReturns(p) ==
  /\ doing[p] \in {"senders", "hits"} /\ Done(p) = rows[p]
  /\ rows' = [rows EXCEPT ![p] = {}] /\ names' = [names EXCEPT ![p] = Unnamed]
  /\ Does(p, "nothing")
  /\ IF doing[p] = "hits" THEN Return(p) ELSE UNCHANGED vars
  /\ UNCHANGED <<labels, todo, find>>

-----------------------------------------------------------------------------
(***************************************************************************)
(* Writes                                                                  *)
(***************************************************************************)

\* What a name is changed for: the reasons that hold no longer are not steady.
Renamed ==
  /\ UNCHANGED <<schema, table, writer, at, current, search, opens, doing, sought, via, blind,
                 found, reply>>
  /\ steady' = [q \in Processes |-> {r \in steady[q] : <<r[1], r[2]>> \in Reasons(sought[q])'}]

\* ImportContacts: the name the phone has for x, or none.
UpsertContact(p, x, n) ==
  /\ Writing(p)
  /\ contact' = [contact EXCEPT ![x] = n]
  /\ UNCHANGED <<alias, chat, todo>>
  /\ Renamed

\* The row of c after an upsert of r: its last_message_ts never falls.
Upserted(c, r) ==
  IF chat[c] # None /\ chat[c].last > r.last THEN [r EXCEPT !.last = chat[c].last] ELSE r

\* onConversation: the row of c, and then a contact for each participant.
UpsertConversation(p, c, r) ==
  /\ Writing(p) /\ todo[p] = {}
  /\ chat' = [chat EXCEPT ![c] = Upserted(c, r)]
  /\ todo' = [todo EXCEPT ![p] = {<<x, r.people[x]>> : x \in DOMAIN r.people}]
  /\ UNCHANGED <<contact, alias>>
  /\ Renamed

UpsertParticipant(p) ==
  /\ at[p] \in Opened /\ writer = None
  /\ \E e \in todo[p] :
       /\ contact' = [contact EXCEPT ![e[1]] = e[2]]
       /\ todo' = [todo EXCEPT ![p] = @ \ {e}]
  /\ UNCHANGED <<writes, alias, chat>>
  /\ Renamed

SetAlias(p, t, n) ==
  /\ Writing(p)
  /\ alias' = [alias EXCEPT ![t] = n]
  /\ UNCHANGED <<contact, chat, todo>>
  /\ Renamed

\* ErrNotFound where there is none.
RemoveAlias(p, t) ==
  /\ Writing(p) /\ alias[t] # None
  /\ alias' = [alias EXCEPT ![t] = None]
  /\ UNCHANGED <<contact, chat, todo>>
  /\ Renamed

-----------------------------------------------------------------------------
(***************************************************************************)
(* The steps of the archive                                                *)
(***************************************************************************)

\* The message's chat gets a row of its own first, if it has none.
WriteMessage(p, m, b) ==
  /\ UpsertMessage(p, m, b)
  /\ chat' = [chat EXCEPT ![ChatOf[m]] = IF @ = None THEN Stub ELSE @]
  /\ UNCHANGED <<contact, alias, todo, doing, find, reply>>

\* A process that ends leaves what it had not written.
CloseAndForget(p) ==
  /\ Close(p)
  /\ todo' = [todo EXCEPT ![p] = {}]
  /\ Does(p, "nothing")
  /\ FindForgotten(p)
  /\ rows' = [rows EXCEPT ![p] = {}] /\ names' = [names EXCEPT ![p] = Unnamed]
  /\ UNCHANGED labels

ArchiveStep(p) ==
  /\ \/ Open(p) \/ CurrentVersion(p) \/ Apply(p) \/ Busy(p) \/ Commit(p) \/ Migrated(p)
     \/ doing[p] = "nothing" /\ \E q \in Queries : StartSearch(p, q)
     \/ Verbatim(p) \/ VerbatimFails(p) \/ Quoted(p) \/ AnyTerm(p) \/ SearchFails(p)
  /\ UNCHANGED nameVars

NamesInit ==
  /\ Init
  /\ contact = [x \in People |-> None] /\ alias = [t \in Named |-> None]
  /\ chat = [c \in Chats |-> None]
  /\ todo = [p \in Processes |-> {}]
  /\ doing = [p \in Processes |-> "nothing"]
  /\ sought = [p \in Processes |-> None]
  /\ via = [p \in Processes |-> {}] /\ blind = [p \in Processes |-> FALSE]
  /\ found = [p \in Processes |-> {}]
  /\ steady = [p \in Processes |-> {}]
  /\ rows = [p \in Processes |-> {}] /\ names = [p \in Processes |-> Unnamed]

NamesNext == \E p \in Processes :
  \/ ArchiveStep(p) \/ CloseAndForget(p)
  \/ \E m \in Msgs, b \in Bodies : WriteMessage(p, m, b)
  \/ \E e \in ContactRows : UpsertContact(p, e[1], e[2])
  \/ \E c \in Chats, r \in ChatRows : UpsertConversation(p, c, r)
  \/ UpsertParticipant(p)
  \/ \E e \in Aliases : SetAlias(p, e[1], e[2])
  \/ \E t \in Named : RemoveAlias(p, t)
  \/ \E n \in Labels : FindContacts(p, n)
  \/ FindChats(p) \/ FindReturns(p)
  \/ ListMessages(p) \/ NameHits(p) \/ NameNext(p) \/ ReplyReturns(p)

NamesSpec == NamesInit /\ [][NamesNext]_namesVars

-----------------------------------------------------------------------------
(***************************************************************************)
(* Properties                                                              *)
(***************************************************************************)

\* What a sender or a chat may be called.
Called == Labels \union Named \union {NumberOf[x] : x \in People} \union Participants \union {Blank}

\* Every variable has its type.
NamesTypeOK ==
  /\ TypeOK
  /\ contact \in [People -> Labels \union {Blank, None}] /\ alias \in [Named -> Labels \union {None}]
  /\ chat \in [Chats -> Conversations \union {None}]
  /\ todo \in [Processes -> SUBSET (People \X (Labels \union {Blank}))]
  /\ doing \in [Processes -> {"nothing", "contacts", "chats", "senders", "hits"}]
  /\ sought \in [Processes -> Labels \union {None}]
  /\ via \in [Processes -> SUBSET People] /\ blind \in [Processes -> BOOLEAN]
  /\ found \in [Processes -> SUBSET (Chats \X Nat)]
  /\ steady \in [Processes -> SUBSET (Chats \X Named \X Nat)]
  /\ rows \in [Processes -> SUBSET Msgs]
  /\ names \in [Processes -> [Msgs -> Called \union {None}]]

\* "It matches the conversation name, a local alias, participant names/numbers [...]
\* and, via the contacts table, contact names and aliases" (FindConversations): whatever is
\* renamed between the two statements, a chat is found that was called so all along, or
\* had somebody in it who was, unless more contacts than the limit were or their search
\* has failed; or else as many chats are found as the limit allows, and none that was
\* quiet for longer ("newest-activity first").
FindIsRight ==
  \A p \in Processes : doing[p] = "chats" => \A r \in steady[p] :
    \/ \E f \in found[p] : f[1] = r[1]
    \/ r[2] \in People \ via[p] /\ (blind[p] \/ Cardinality(via[p]) = ContactLimit)
    \/ Cardinality(found[p]) = ChatLimit /\ \A f \in found[p] : f[2] >= r[3]

\* In one reply a sender, or a chat, goes by one name, whoever renames it while
\* the names are read one by one.
OneNamePerReply ==
  \A p \in Processes : \A m, n \in Done(p) : Key(p, m) = Key(p, n) => names[p][m] = names[p][n]
=============================================================================
