------------------------------- MODULE Archive -------------------------------
(***************************************************************************)
(* How the local archive follows the phone: the sync pump on libgm's       *)
(* callback (internal/sync), the imports that run beside it (the initial   *)
(* import of serve, sync.refresh, history.backfill), and the upserts they  *)
(* all end in (internal/store).                                            *)
(*                                                                         *)
(* The pump handles one event at a time, in order.  A job fetches from the *)
(* phone what is there at that moment and writes it later, a row at a      *)
(* time.  liveMu keeps refreshes and backfills apart; nothing keeps the    *)
(* initial import or the pump apart from them.  One SQL statement is one   *)
(* step.  Contacts, and the columns of a row, are left out: a message row  *)
(* is known by the version it holds, a chat's by its last_message_ts, and  *)
(* every message names its chat.                                           *)
(***************************************************************************)
EXTENDS Integers, Sequences, FiniteSets

CONSTANTS
  Msgs, Chats,
  ChatOf,       \* ChatOf[m]: the chat of message m
  Time,         \* Time[m]: the timestamp of message m
  None,
  PageSize,     \* messages of one FetchMessages call
  RefreshChats, \* refreshMessageConvs: chats a refresh fetches messages of
  MaxRequests,  \* FetchMessages calls of a backfill
  Startup,      \* the daemon imports at its start (no --no-import)
  MaxChanges,   \* bound on what happens on the phone
  MaxJobs,      \* bound on refreshes and backfills
  MaxRestarts   \* bound on the daemon's restarts

ASSUME ChatAssumption == ChatOf \in [Msgs -> Chats] /\ IsFiniteSet(Msgs) /\ None \notin Msgs
ASSUME TimeAssumption == Time \in [Msgs -> Nat \ {0}]
                         /\ \A m, n \in Msgs : Time[m] = Time[n] => m = n
ASSUME BoundsAssumption == {PageSize, RefreshChats, MaxRequests} \subseteq Nat \ {0}
                           /\ {MaxChanges, MaxJobs, MaxRestarts} \subseteq Nat
                           /\ Startup \in BOOLEAN

VARIABLES
  phone,      \* phone[m]: version of m on the phone, 0 before it exists
  row,        \* row[m]: version of m in the archive, 0 without a row
  chat,       \* chat[c]: last_message_ts of c's row, 0 for a stub, -1 without a row
  lastEvent,  \* sync_state.last_event_ts
  relay,      \* events on their way to the pump
  at,         \* the pump's next step: "idle", "chat", "stub", "row", "mark" or "push"
  event,      \* the event the pump handles
  pushed,     \* <<m, old>> for every message.new clients were sent (history)
  job,        \* job[w]: what worker w does
  waiting,    \* refreshes that wait for liveMu
  recent,     \* the last refresh was asked for less than 30 s ago
  jobs,       \* refreshes and backfills so far
  changes,    \* changes on the phone so far
  restarts    \* restarts of the daemon so far

store == <<row, chat, lastEvent>>
pump == <<relay, at, event, pushed>>
work == <<job, waiting, recent, jobs>>
vars == <<phone, store, pump, work, changes, restarts>>

\* The goroutine that holds liveMu, and the one that serves.
Workers == {"live", "main"}

Older(m, n) == Time[m] < Time[n]
OnPhone(c) == {m \in Msgs : ChatOf[m] = c /\ phone[m] > 0}
Stored(c) == {m \in Msgs : ChatOf[m] = c /\ row[m] > 0}
Oldest(S) == IF S = {} THEN None ELSE CHOOSE m \in S : \A n \in S : ~Older(n, m)
Newest(S) == CHOOSE m \in S : \A n \in S : ~Older(m, n)
ChatTime(c) == IF OnPhone(c) = {} THEN 0 ELSE Time[Newest(OnPhone(c))]

Message(m, v, old) == [kind |-> "message", of |-> m, version |-> v, old |-> old]
Conversation(c, t) == [kind |-> "chat", of |-> c, time |-> t]
NoEvent == [kind |-> "none"]

-----------------------------------------------------------------------------
(***************************************************************************)
(* The statements of the store                                             *)
(***************************************************************************)

\* INSERT OR IGNORE INTO conversations: a stub for a chat that has no row.
EnsureChat(c) ==
  chat' = IF chat[c] = -1 THEN [chat EXCEPT ![c] = 0] ELSE chat

\* last_message_ts = MAX(conversations.last_message_ts, excluded.last_message_ts)
UpsertChat(c, t) == chat' = [chat EXCEPT ![c] = IF t > @ THEN t ELSE @]

\* ON CONFLICT(message_id) DO UPDATE: whatever comes last.
UpsertRow(m, v) == row' = [row EXCEPT ![m] = v]

-----------------------------------------------------------------------------
(***************************************************************************)
(* The phone, and the pump                                                 *)
(***************************************************************************)

PhoneGoes(e) ==
  /\ changes < MaxChanges
  /\ changes' = changes + 1
  /\ relay' = Append(relay, e)
  /\ UNCHANGED <<store, at, event, pushed, work, restarts>>

\* A message arrives, newer than its chat's others, or changes (status,
\* reactions), and libgm sends the event.
PhoneChanges(m) ==
  /\ phone[m] = 0 => \A n \in OnPhone(ChatOf[m]) : Older(n, m)
  /\ phone' = [phone EXCEPT ![m] = @ + 1]
  /\ \E old \in BOOLEAN : PhoneGoes(Message(m, phone'[m], old))

\* The phone announces the state of a chat.
PhoneAnnounces(c) ==
  /\ OnPhone(c) # {}
  /\ PhoneGoes(Conversation(c, ChatTime(c)))
  /\ UNCHANGED phone

\* An event is missed: the long poll was down.
Missed ==
  /\ relay # <<>>
  /\ relay' = Tail(relay)
  /\ UNCHANGED <<phone, store, at, event, pushed, work, changes, restarts>>

PumpGoes(s) ==
  /\ at' = s
  /\ UNCHANGED <<phone, relay, event, pushed, work, changes, restarts>>

\* dispatch calls Pump.Handle.
Receive ==
  /\ at = "idle" /\ relay # <<>>
  /\ event' = Head(relay)
  /\ relay' = Tail(relay)
  /\ at' = IF event'.kind = "message" THEN "stub" ELSE "chat"
  /\ UNCHANGED <<phone, store, pushed, work, changes, restarts>>

PumpChat ==
  /\ at = "chat"
  /\ UpsertChat(event.of, event.time)
  /\ PumpGoes("push")
  /\ UNCHANGED <<row, lastEvent>>

PumpStub ==
  /\ at = "stub"
  /\ EnsureChat(ChatOf[event.of])
  /\ PumpGoes("row")
  /\ UNCHANGED <<row, lastEvent>>

\* Mutant: old messages are left to the imports.
PumpRowLive ==
  /\ at = "row"
  /\ IF event.old THEN UNCHANGED row ELSE UpsertRow(event.of, event.version)
  /\ PumpGoes(IF event.old THEN "push" ELSE "mark")
  /\ UNCHANGED <<chat, lastEvent>>

PumpRow ==
  /\ at = "row"
  /\ UpsertRow(event.of, event.version)
  /\ PumpGoes(IF event.old THEN "push" ELSE "mark")
  /\ UNCHANGED <<chat, lastEvent>>

\* MarkSync: last_event_ts = MAX(last_event_ts, ?)
PumpMark ==
  /\ at = "mark"
  /\ lastEvent' = IF Time[event.of] > lastEvent THEN Time[event.of] ELSE lastEvent
  /\ PumpGoes("push")
  /\ UNCHANGED <<row, chat>>

\* The next subscriber is HandleGMEvent: message.new, or conversation.updated.
Push ==
  /\ at = "push"
  /\ at' = "idle" /\ event' = NoEvent
  /\ pushed' = IF event.kind = "message" THEN pushed \union {<<event.of, event.old>>} ELSE pushed
  /\ UNCHANGED <<phone, store, relay, work, changes, restarts>>

-----------------------------------------------------------------------------
(***************************************************************************)
(* Jobs                                                                    *)
(*                                                                         *)
(* A job has chats to import, the one it is on, what is left of the page   *)
(* it fetched last, the item of it that is written, and a cursor.  wanted  *)
(* is what a backfill should bring (history).                              *)
(***************************************************************************)

Idle == [kind |-> "none", at |-> "off", chats |-> {}, on |-> NoEvent, page |-> {},
         item |-> None, cursor |-> None, left |-> 0, more |-> FALSE, wanted |-> {}]

\* A daemon that starts begins with its initial import.
FirstJobs == [w \in Workers |-> IF w = "main" /\ Startup
                                 THEN [Idle EXCEPT !.kind = "import", !.at = "list"] ELSE Idle]

Rows == UNCHANGED <<phone, pump, waiting, recent, jobs, changes, restarts>>

\* Worker w is at step s and goes on as job j.
Goes(w, s, j) ==
  /\ job[w].at = s
  /\ job' = [job EXCEPT ![w] = j]

\* What the phone has of chat c before the cursor, and the newest of it.
Before(c, cursor) == {m \in OnPhone(c) : cursor = None \/ Older(m, cursor)}
Page(c, cursor) ==
  {m \in Before(c, cursor) : Cardinality({n \in Before(c, cursor) : Older(m, n)}) < PageSize}

\* handleSyncRefresh: "refreshed recently", or another goroutine waits for liveMu.
RequestRefresh ==
  /\ ~recent /\ jobs < MaxJobs
  /\ recent' = TRUE
  /\ waiting' = waiting + 1
  /\ jobs' = jobs + 1
  /\ UNCHANGED <<phone, store, pump, job, changes, restarts>>

RateExpires ==
  /\ recent /\ recent' = FALSE
  /\ UNCHANGED <<phone, store, pump, job, waiting, jobs, changes, restarts>>

RunRefresh ==
  /\ waiting > 0 /\ job["live"] = Idle
  /\ waiting' = waiting - 1
  /\ job' = [job EXCEPT !["live"] =
       [Idle EXCEPT !.kind = "refresh", !.at = "list", !.wanted = {m \in Msgs : phone[m] > 0}]]
  /\ UNCHANGED <<phone, store, pump, recent, jobs, changes, restarts>>

\* history.backfill, and history.lookup, which first imports the chat it finds.
RequestBackfill(c) ==
  /\ job["live"] = Idle /\ jobs < MaxJobs
  /\ jobs' = jobs + 1
  /\ \E s \in {"lookup", "oldest"} :
       job' = [job EXCEPT !["live"] =
         [Idle EXCEPT !.kind = "backfill", !.at = s, !.on = Conversation(c, ChatTime(c))]]
  /\ UNCHANGED <<phone, store, pump, waiting, recent, changes, restarts>>

LookupConversation(w) ==
  /\ \/ Goes(w, "lookup", Idle) /\ UNCHANGED chat
     \/ /\ Goes(w, "lookup", [job[w] EXCEPT !.at = "oldest"])
        /\ UpsertChat(job[w].on.of, job[w].on.time)
  /\ Rows /\ UNCHANGED <<row, lastEvent>>

\* Backfill starts at the oldest message of the archive.
OldestCursor(w) ==
  LET c == job[w].on.of
      cursor == Oldest(Stored(c))
  IN  /\ Goes(w, "oldest", [job[w] EXCEPT !.at = "fetch", !.left = MaxRequests, !.cursor = cursor,
             !.wanted = Before(c, cursor)])
      /\ Rows /\ UNCHANGED store

\* ListConversations fails, or answers with the chats.
ListConversations(w) ==
  LET list == {Conversation(c, ChatTime(c)) : c \in {d \in Chats : OnPhone(d) # {}}}
  IN  /\ \/ Goes(w, "list", Idle)
         \/ Goes(w, "list", [job[w] EXCEPT !.at = "chat", !.chats = list,
              !.left = IF job[w].kind = "refresh" THEN RefreshChats ELSE Cardinality(list)])
      /\ Rows /\ UNCHANGED store

\* Pump.Handle(conv) for the next chat of the list, which is in the phone's order,
\* and, while the limit lasts, its messages.
ImportChat(w) ==
  /\ \E c \in job[w].chats :
       /\ UpsertChat(c.of, c.time)
       /\ Goes(w, "chat", IF job[w].left > 0
            THEN [job[w] EXCEPT !.at = "fetch", !.chats = @ \ {c}, !.on = c,
                                !.left = @ - 1, !.cursor = None]
            ELSE [job[w] EXCEPT !.chats = @ \ {c}])
  /\ Rows /\ UNCHANGED <<row, lastEvent>>

\* Mutant: a failure is taken for the end of the history.
FetchFailsAsEnd(w) ==
  /\ Goes(w, "fetch", [job[w] EXCEPT !.at =
       IF job[w].kind = "backfill" THEN "exhausted" ELSE "chat"])
  /\ Rows /\ UNCHANGED store

FetchFails(w) ==
  /\ Goes(w, "fetch", IF job[w].kind = "backfill" THEN Idle ELSE [job[w] EXCEPT !.at = "chat"])
  /\ Rows /\ UNCHANGED store

\* Mutant: an empty page is imported like any other.
FetchMessagesBlindly(w) ==
  /\ job[w].at = "fetch"
  /\ LET c == job[w].on.of
         page == Page(c, job[w].cursor)
         oldest == IF page = {} THEN job[w].cursor ELSE Oldest(page)
     IN  \E next \in {oldest, None} :
           /\ next = oldest \/ Before(c, oldest) = {}
           /\ Goes(w, "fetch", [job[w] EXCEPT !.at = "stub",
                !.page = {<<m, phone[m]>> : m \in page},
                !.cursor = next, !.more = page # {} /\ next # job[w].cursor])
  /\ Rows /\ UNCHANGED store

\* FetchMessages; the phone's next cursor is the last item, or none at the end.
FetchMessages(w) ==
  /\ job[w].at = "fetch"
  /\ LET c == job[w].on.of
         page == Page(c, job[w].cursor)
         oldest == IF page = {} THEN job[w].cursor ELSE Oldest(page)
     IN  \E next \in {oldest, None} :
           /\ next = oldest \/ Before(c, oldest) = {}
           /\ Goes(w, "fetch", [job[w] EXCEPT !.at = IF page = {} THEN "page" ELSE "stub",
                !.page = {<<m, phone[m]>> : m \in page},
                !.cursor = next, !.more = page # {} /\ next # job[w].cursor])
  /\ Rows /\ UNCHANGED store

\* ImportMessages, item by item.
ImportStub(w) ==
  /\ \E i \in job[w].page :
       /\ Goes(w, "stub", [job[w] EXCEPT !.at = "row", !.item = i])
       /\ EnsureChat(ChatOf[i[1]])
  /\ Rows /\ UNCHANGED <<row, lastEvent>>

ImportRow(w) ==
  LET rest == job[w].page \ {job[w].item}
  IN  /\ Goes(w, "row", [job[w] EXCEPT !.at = IF rest = {} THEN "page" ELSE "stub",
                                      !.page = rest, !.item = None])
      /\ UpsertRow(job[w].item[1], job[w].item[2])
      /\ Rows /\ UNCHANGED <<chat, lastEvent>>

\* The page is written.  Backfill goes on from the new cursor until there is
\* nothing more or its requests are used up.
PageDone(w) ==
  /\ Goes(w, "page",
       IF job[w].kind # "backfill" THEN [job[w] EXCEPT !.at = "chat"]
       ELSE IF ~job[w].more THEN [job[w] EXCEPT !.at = "exhausted"]
       ELSE IF job[w].left = 1 THEN Idle
       ELSE [job[w] EXCEPT !.at = "fetch", !.left = @ - 1])
  /\ Rows /\ UNCHANGED store

\* The report of a backfill; "refreshed"; the end of the initial import.
Finish(w) ==
  /\ job[w].at = "chat" => job[w].chats = {}
  /\ \E s \in {"exhausted", "chat"} : Goes(w, s, Idle)
  /\ Rows /\ UNCHANGED store

-----------------------------------------------------------------------------
\* The daemon goes and comes.
Restart ==
  /\ restarts < MaxRestarts
  /\ restarts' = restarts + 1
  /\ relay' = <<>> /\ at' = "idle" /\ event' = NoEvent
  /\ job' = FirstJobs
  /\ waiting' = 0 /\ recent' = FALSE
  /\ UNCHANGED <<phone, store, pushed, jobs, changes>>

Init ==
  /\ phone \in [Msgs -> {0, 1}]
  /\ row = [m \in Msgs |-> 0] /\ chat = [c \in Chats |-> -1] /\ lastEvent = 0
  /\ relay = <<>> /\ at = "idle" /\ event = NoEvent
  /\ pushed = {}
  /\ job = FirstJobs
  /\ waiting = 0 /\ recent = FALSE
  /\ jobs = 0 /\ changes = 0 /\ restarts = 0

PumpStep == Receive \/ PumpChat \/ PumpStub \/ PumpRow \/ PumpMark \/ Push

JobStep(w) ==
  \/ LookupConversation(w) \/ OldestCursor(w) \/ ListConversations(w) \/ ImportChat(w)
  \/ FetchFails(w) \/ FetchMessages(w) \/ ImportStub(w) \/ ImportRow(w)
  \/ PageDone(w) \/ Finish(w)

Next ==
  \/ \E m \in Msgs : PhoneChanges(m)
  \/ \E c \in Chats : PhoneAnnounces(c) \/ RequestBackfill(c)
  \/ Missed \/ PumpStep
  \/ RequestRefresh \/ RateExpires \/ RunRefresh
  \/ \E w \in Workers : JobStep(w)
  \/ Restart

Spec == Init /\ [][Next]_vars

-----------------------------------------------------------------------------
(***************************************************************************)
(* Properties                                                              *)
(***************************************************************************)

Messages == [kind : {"message"}, of : Msgs, version : Nat \ {0}, old : BOOLEAN]
Conversations == [kind : {"chat"}, of : Chats, time : Nat]
Jobs ==
  [kind : {"none", "import", "refresh", "backfill"},
   at : {"off", "list", "lookup", "oldest", "chat", "fetch", "stub", "row", "page", "exhausted"},
   chats : SUBSET Conversations, on : Conversations \union {NoEvent},
   page : SUBSET (Msgs \X (Nat \ {0})), item : (Msgs \X (Nat \ {0})) \union {None},
   cursor : Msgs \union {None}, left : Nat, more : BOOLEAN, wanted : SUBSET Msgs]

\* Every variable has its type; only a job with a page is at its rows, and it has
\* picked an item of it when it writes one.
TypeOK ==
  /\ phone \in [Msgs -> Nat] /\ row \in [Msgs -> Nat] /\ lastEvent \in Nat
  /\ chat \in [Chats -> Nat \union {-1}]
  /\ relay \in Seq(Messages \union Conversations)
  /\ event \in Messages \union Conversations \union {NoEvent}
  /\ at \in {"idle", "chat", "stub", "row", "mark", "push"} /\ (at = "idle" <=> event = NoEvent)
  /\ pushed \subseteq Msgs \X BOOLEAN
  /\ job \in [Workers -> Jobs]
  /\ \A w \in Workers : /\ job[w].page # {} <=> job[w].at \in {"stub", "row"}
                        /\ job[w].at = "row" => job[w].item \in job[w].page
  /\ waiting \in Nat /\ recent \in BOOLEAN
  /\ jobs \in Nat /\ changes \in Nat /\ restarts \in Nat

\* "message.new - after the row is persisted" (docs/rpc-protocol.md): a client
\* that is told of a message finds it in the archive with its chat, and an archive
\* as fresh as the message, whatever the jobs write beside the pump;
\* and whoever wrote a row, its chat has one (the foreign key).
PushedIsStored ==
  /\ \A p \in pushed : row[p[1]] > 0 /\ (p[2] \/ Time[p[1]] <= lastEvent)
  /\ \A m \in Msgs : row[m] > 0 => chat[ChatOf[m]] # -1

\* A backfill that ends because there is nothing more has brought everything
\* the phone had before the oldest message of the archive.
BackfillIsComplete ==
  \A w \in Workers : job[w].at = "exhausted" => \A m \in job[w].wanted : row[m] > 0
=============================================================================
