---------------------------- MODULE EventsProofs ----------------------------
(***************************************************************************)
(* The way of an event into the daemon, for any number of messages, chats, *)
(* jobs, subscribers and callers.  Archive: what clients were told of is   *)
(* stored, and a backfill that ends is complete.  Subscribers: while       *)
(* liveMu keeps the watchers apart, nobody misses an event, and no watcher *)
(* removes another's handler.                                              *)
(***************************************************************************)
EXTENDS Archive, Subscribers, FiniteSetTheorems, TLAPS

(***************************************************************************)
(* Messages in their order                                                 *)
(***************************************************************************)

\* Among sets of messages there is one that includes no other.
LEMMA LeastSet ==
  ASSUME NEW T \in SUBSET (SUBSET Msgs), T # {}
  PROVE  \E X \in T : \A Y \in T : Y \subseteq X => Y = X
<1>1. T \subseteq FiniteSubsetsOf(Msgs)
  BY FS_FiniteSubsetsOfFinite, ChatAssumption
<1>2. IsWellFoundedOn(StrictSubsetOrdering(Msgs), FiniteSubsetsOf(Msgs))
  BY FS_StrictSubsetOrderingWellFounded
<1>3. PICK X \in T : \A Y \in T : <<Y, X>> \notin StrictSubsetOrdering(Msgs)
  BY <1>1, <1>2, WFMin, Zenon
<1> QED
  BY <1>3 DEF StrictSubsetOrdering

\* A set of messages that is not empty has an oldest and a newest one.
LEMMA Extremes ==
  ASSUME NEW S \in SUBSET Msgs, S # {}
  PROVE  /\ Oldest(S) \in S /\ \A n \in S : ~Older(n, Oldest(S))
         /\ Newest(S) \in S /\ \A n \in S : ~Older(Newest(S), n)
<1> DEFINE Up(m) == {n \in S : Older(m, n)}
           Down(m) == {n \in S : Older(n, m)}
<1>1. \E m \in S : \A n \in S : ~Older(m, n)
  <2> DEFINE T == {Up(m) : m \in S}
  <2>1. T \in SUBSET (SUBSET Msgs) /\ T # {}
    OBVIOUS
  <2> HIDE DEF T
  <2>2. PICK X \in T : \A Y \in T : Y \subseteq X => Y = X
    BY <2>1, LeastSet
  <2>3. PICK m \in S : X = Up(m)
    BY DEF T
  <2>4. ASSUME NEW n \in S, Older(m, n) PROVE FALSE
    <3>1. Up(n) \subseteq Up(m) /\ n \in Up(m) /\ n \notin Up(n)
      BY <2>4, TimeAssumption DEF Older
    <3>2. Up(n) \in T
      BY DEF T
    <3> QED
      BY <2>2, <2>3, <3>1, <3>2
  <2> QED
    BY <2>4
<1>2. \E m \in S : \A n \in S : ~Older(n, m)
  <2> DEFINE T == {Down(m) : m \in S}
  <2>1. T \in SUBSET (SUBSET Msgs) /\ T # {}
    OBVIOUS
  <2> HIDE DEF T
  <2>2. PICK X \in T : \A Y \in T : Y \subseteq X => Y = X
    BY <2>1, LeastSet
  <2>3. PICK m \in S : X = Down(m)
    BY DEF T
  <2>4. ASSUME NEW n \in S, Older(n, m) PROVE FALSE
    <3>1. Down(n) \subseteq Down(m) /\ n \in Down(m) /\ n \notin Down(n)
      BY <2>4, TimeAssumption DEF Older
    <3>2. Down(n) \in T
      BY DEF T
    <3> QED
      BY <2>2, <2>3, <3>1, <3>2
  <2> QED
    BY <2>4
<1> QED
  BY <1>1, <1>2, Zenon DEF Oldest, Newest

\* A page leaves out only what is older than all of it, and is empty only at the end.
LEMMA PageIsNewest ==
  ASSUME NEW c \in Chats, NEW cursor
  PROVE  /\ Page(c, cursor) \subseteq Before(c, cursor)
         /\ Before(c, cursor) # {} => Page(c, cursor) # {}
         /\ \A m \in Before(c, cursor) \ Page(c, cursor), n \in Page(c, cursor) : Older(m, n)
<1> DEFINE S == Before(c, cursor)
           Up(m) == {n \in S : Older(m, n)}
<1>1. S \in SUBSET Msgs /\ IsFiniteSet(S)
  BY FS_Subset, ChatAssumption DEF Before, OnPhone
<1>2. ASSUME S # {} PROVE Page(c, cursor) # {}
  <2>1. Newest(S) \in S /\ Up(Newest(S)) = {}
    BY <1>1, <1>2, Extremes
  <2>2. Cardinality({}) = 0 /\ 0 < PageSize
    BY FS_EmptySet, BoundsAssumption
  <2> QED
    BY <2>1, <2>2 DEF Page
<1>3. ASSUME NEW m \in S \ Page(c, cursor), NEW n \in Page(c, cursor), ~Older(m, n) PROVE FALSE
  <2>1. n \in S /\ Up(m) \subseteq Up(n)
    BY <1>1, <1>3, TimeAssumption DEF Older, Page
  <2>2. IsFiniteSet(Up(n))
    BY <1>1, FS_Subset
  <2>3. Cardinality(Up(m)) <= Cardinality(Up(n)) /\ Cardinality(Up(m)) \in Nat
        /\ Cardinality(Up(n)) \in Nat
    BY <2>1, <2>2, FS_Subset, FS_CardinalityType
  <2>4. Cardinality(Up(n)) < PageSize /\ ~(Cardinality(Up(m)) < PageSize)
    BY <1>3 DEF Page
  <2> QED
    BY <2>3, <2>4, BoundsAssumption
<1> QED
  BY <1>2, <1>3 DEF Page
-----------------------------------------------------------------------------
(***************************************************************************)
(* The archive                                                             *)
(***************************************************************************)

\* The pump has the event its step is about; what it has written of it is there.
PumpInv ==
  /\ at \in {"stub", "row", "mark"} => event \in Messages
  /\ at = "chat" => event \in Conversations
  /\ at = "row" => chat[ChatOf[event.of]] # -1
  /\ at \in {"mark", "push"} /\ event \in Messages => row[event.of] > 0
  /\ at = "push" /\ event \in Messages => event.old \/ Time[event.of] <= lastEvent

\* A job that fetches is on a chat; only a backfill begins at the archive's end, or
\* is exhausted, and it has requests left while it goes on.
JobInv(w) ==
  /\ job[w].at \in {"lookup", "oldest", "fetch", "stub", "row", "page"} => job[w].on \in Conversations
  /\ job[w].at \in {"lookup", "oldest", "exhausted"} => job[w].kind = "backfill"
  /\ job[w].at \in {"list", "chat"} => job[w].kind # "backfill"
  /\ job[w].kind = "backfill" /\ job[w].at \in {"fetch", "stub", "row", "page"} => job[w].left > 0
  /\ job[w].at = "row" => chat[ChatOf[job[w].item[1]]] # -1

\* What a backfill is to bring is stored, or in its page, or still before its cursor;
\* a cursor of None stands for all there is.
Covered(w, m) ==
  \/ row[m] > 0
  \/ \E i \in job[w].page : i[1] = m
  \/ /\ job[w].at \in {"fetch", "stub", "row", "page"} /\ (job[w].at = "fetch" \/ job[w].more)
     /\ job[w].cursor = None \/ Older(m, job[w].cursor)

BackfillInv(w) ==
  job[w].kind = "backfill" =>
    /\ job[w].at \in {"lookup", "oldest"} => job[w].wanted = {}
    /\ \A m \in job[w].wanted : phone[m] > 0 /\ ChatOf[m] = job[w].on.of /\ Covered(w, m)

ArchiveInv ==
  /\ TypeOK /\ PushedIsStored
  /\ PumpInv
  /\ \A w \in Workers : JobInv(w) /\ BackfillInv(w)

\* What no step takes back: messages of the phone, rows, chats, and the freshness of
\* the archive; and whoever adds a row, its chat is there.
Grown ==
  /\ \A m \in Msgs : phone[m] > 0 => phone'[m] > 0
  /\ \A m \in Msgs : row[m] > 0 => row'[m] > 0
  /\ \A c \in Chats : chat[c] # -1 => chat'[c] # -1
  /\ lastEvent' >= lastEvent
  /\ \A m \in Msgs : row'[m] > 0 => row[m] > 0 \/ chat'[ChatOf[m]] # -1

\* The time of a chat is a time.
LEMMA ChatTimeType ==
  ASSUME NEW c \in Chats PROVE ChatTime(c) \in Nat
<1>1. OnPhone(c) \in SUBSET Msgs
  BY DEF OnPhone
<1> QED
  BY <1>1, Extremes, TimeAssumption DEF ChatTime

\* A job that is left alone stays right, whatever else grows.
LEMMA JobKept ==
  ASSUME ArchiveInv, Grown, NEW w \in Workers, job'[w] = job[w]
  PROVE  JobInv(w)' /\ BackfillInv(w)'
<1> USE DEF ArchiveInv, Grown
<1>1. JobInv(w)'
  <2>1. job[w].at = "row" => job[w].item[1] \in Msgs
    BY DEF TypeOK, Jobs
  <2> QED
    BY <2>1, ChatAssumption DEF JobInv
<1>2. BackfillInv(w)'
  <2>1. job[w].wanted \subseteq Msgs
    BY DEF TypeOK, Jobs
  <2> QED
    BY <2>1 DEF BackfillInv, Covered, Older
<1> QED
  BY <1>1, <1>2

\* So does the pump, and what was pushed.
LEMMA PumpKept ==
  ASSUME ArchiveInv, TypeOK', Grown, UNCHANGED <<at, event>>
  PROVE  PumpInv'
BY ChatAssumption, TimeAssumption DEF ArchiveInv, Grown, PumpInv, TypeOK, Messages

LEMMA PushedKept ==
  ASSUME ArchiveInv, TypeOK', Grown, UNCHANGED pushed
  PROVE  PushedIsStored'
<1> USE ChatAssumption, TimeAssumption DEF ArchiveInv, Grown, TypeOK
<1>1. ASSUME NEW p \in pushed PROVE row'[p[1]] > 0 /\ (p[2] \/ Time[p[1]] <= lastEvent')
  BY <1>1 DEF PushedIsStored
<1>2. ASSUME NEW m \in Msgs, row'[m] > 0 PROVE chat'[ChatOf[m]] # -1
  BY <1>2 DEF PushedIsStored
<1> QED
  BY <1>1, <1>2 DEF PushedIsStored

\* The jobs of a daemon that starts have brought nothing and want nothing.
LEMMA FirstJobsFit ==
  /\ FirstJobs \in [Workers -> Jobs]
  /\ \A w \in Workers : /\ FirstJobs[w].at \in {"off", "list"} /\ FirstJobs[w].kind # "backfill"
                        /\ FirstJobs[w].page = {}
<1> DEFINE J == [Idle EXCEPT !.kind = "import", !.at = "list"]
<1>1. Idle \in Jobs /\ Idle.page = {} /\ Idle.at = "off" /\ Idle.kind = "none"
  BY DEF Jobs, Idle
<1>2. J \in Jobs /\ J.page = {} /\ J.at = "list" /\ J.kind = "import"
  BY DEF Jobs, Idle
<1> HIDE DEF J
<1>3. FirstJobs = [w \in Workers |-> IF w = "main" /\ Startup THEN J ELSE Idle]
  BY DEF FirstJobs, J
<1> QED
  BY <1>1, <1>2, <1>3

\* The invariant holds of an empty archive.
LEMMA InitArchiveInv == Init => ArchiveInv
<1> SUFFICES ASSUME Init PROVE ArchiveInv
  OBVIOUS
<1>1. job \in [Workers -> Jobs]
      /\ \A w \in Workers : /\ job[w].at \in {"off", "list"} /\ job[w].kind # "backfill"
                            /\ job[w].page = {}
  BY FirstJobsFit DEF Init
<1>2. TypeOK
  <2>1. phone \in [Msgs -> Nat] /\ row \in [Msgs -> Nat] /\ lastEvent \in Nat
        /\ waiting \in Nat /\ jobs \in Nat /\ changes \in Nat /\ restarts \in Nat
        /\ pushed \subseteq Msgs \X BOOLEAN
    BY DEF Init
  <2>2. chat \in [Chats -> Nat \union {-1}]
    BY DEF Init
  <2>3. relay \in Seq(Messages \union Conversations) /\ event = NoEvent /\ at = "idle"
    BY DEF Init
  <2>4. recent \in BOOLEAN
    BY Zenon DEF Init
  <2> QED
    BY <1>1, <2>1, <2>2, <2>3, <2>4 DEF TypeOK
<1>3. PushedIsStored /\ PumpInv
  BY DEF Init, PushedIsStored, PumpInv, Messages, NoEvent
<1>4. \A w \in Workers : JobInv(w) /\ BackfillInv(w)
  BY <1>1 DEF JobInv, BackfillInv
<1> QED
  BY <1>2, <1>3, <1>4 DEF ArchiveInv

\* What happens on the phone, and events that are missed, leave the archive alone.
LEMMA PhoneStep ==
  ASSUME ArchiveInv,
         \/ \E m \in Msgs : PhoneChanges(m)
         \/ \E c \in Chats : PhoneAnnounces(c)
         \/ Missed
  PROVE  ArchiveInv'
<1> USE DEF ArchiveInv, store, pump, work
<1>1. TypeOK' /\ Grown /\ UNCHANGED <<at, event, pushed, job>>
  <2>1. ASSUME NEW m \in Msgs, PhoneChanges(m)
        PROVE  TypeOK' /\ Grown /\ UNCHANGED <<at, event, pushed, job>>
    <3>1. UNCHANGED <<row, chat, lastEvent, at, event, pushed, work, restarts>>
          /\ phone' = [phone EXCEPT ![m] = @ + 1] /\ changes' \in Nat
      BY <2>1 DEF PhoneChanges, PhoneGoes, TypeOK
    <3>2. phone' \in [Msgs -> Nat] /\ phone'[m] \in Nat \ {0}
      BY <3>1 DEF TypeOK
    <3>3. PICK old \in BOOLEAN : relay' = Append(relay, Message(m, phone'[m], old))
      BY <2>1 DEF PhoneChanges, PhoneGoes
    <3>4. Message(m, phone'[m], old) \in Messages
      BY <3>2 DEF Message, Messages
    <3>5. relay' \in Seq(Messages \union Conversations)
      BY <3>3, <3>4 DEF TypeOK
    <3> QED
      BY <3>1, <3>2, <3>5 DEF TypeOK, Grown
  <2>2. ASSUME NEW c \in Chats, PhoneAnnounces(c)
        PROVE  TypeOK' /\ Grown /\ UNCHANGED <<at, event, pushed, job>>
    <3>1. Conversation(c, ChatTime(c)) \in Conversations
      BY ChatTimeType DEF Conversation, Conversations
    <3>2. relay' = Append(relay, Conversation(c, ChatTime(c))) /\ changes' \in Nat
          /\ UNCHANGED <<phone, row, chat, lastEvent, at, event, pushed, work, restarts>>
      BY <2>2 DEF PhoneAnnounces, PhoneGoes, TypeOK
    <3>3. relay' \in Seq(Messages \union Conversations)
      BY <3>1, <3>2 DEF TypeOK
    <3> QED
      BY <3>2, <3>3 DEF TypeOK, Grown
  <2>3. ASSUME Missed
        PROVE  TypeOK' /\ Grown /\ UNCHANGED <<at, event, pushed, job>>
    BY <2>3 DEF Missed, TypeOK, Grown
  <2> QED
    BY <2>1, <2>2, <2>3
<1> QED
  BY <1>1, JobKept, PumpKept, PushedKept

\* The pump writes what its event says, and then tells the clients.
LEMMA PumpKeeps ==
  ASSUME ArchiveInv, PumpStep
  PROVE  ArchiveInv'
<1> USE DEF ArchiveInv, store, work
<1>1. ASSUME Receive PROVE TypeOK' /\ Grown /\ PumpInv' /\ UNCHANGED <<job, pushed>>
  <2>1. event' \in Messages \union Conversations /\ relay' \in Seq(Messages \union Conversations)
    BY <1>1 DEF Receive, TypeOK
  <2>2. event'.kind = "message" <=> event' \in Messages
    BY <2>1 DEF Messages, Conversations
  <2>3. event' # NoEvent
    BY <2>1 DEF Messages, Conversations, NoEvent
  <2> QED
    BY <1>1, <2>1, <2>2, <2>3 DEF Receive, TypeOK, Grown, PumpInv
<1>2. ASSUME PumpChat PROVE TypeOK' /\ Grown /\ PumpInv' /\ UNCHANGED <<job, pushed>>
  <2>1. event.of \in Chats /\ event.time \in Nat /\ event \notin Messages
    BY <1>2 DEF PumpChat, PumpInv, Messages, Conversations
  <2> QED
    BY <1>2, <2>1 DEF PumpChat, PumpGoes, UpsertChat, TypeOK, Grown, PumpInv
<1>3. ASSUME PumpStub PROVE TypeOK' /\ Grown /\ PumpInv' /\ UNCHANGED <<job, pushed>>
  <2>1. event.of \in Msgs /\ ChatOf[event.of] \in Chats
    BY <1>3, ChatAssumption DEF PumpStub, PumpInv, Messages
  <2> QED
    BY <1>3, <2>1 DEF PumpStub, PumpGoes, EnsureChat, TypeOK, Grown, PumpInv
<1>4. ASSUME PumpRow PROVE TypeOK' /\ Grown /\ PumpInv' /\ UNCHANGED <<job, pushed>>
  <2>1. /\ event \in Messages /\ event.of \in Msgs /\ event.version \in Nat \ {0}
        /\ event.old \in BOOLEAN
    BY <1>4 DEF PumpRow, PumpInv, Messages
  <2>2. /\ row' = [row EXCEPT ![event.of] = event.version]
        /\ at' = (IF event.old THEN "push" ELSE "mark") /\ chat[ChatOf[event.of]] # -1
        /\ UNCHANGED <<phone, chat, lastEvent, relay, event, pushed, work, changes, restarts>>
    BY <1>4 DEF PumpRow, PumpGoes, UpsertRow, PumpInv
  <2>3. TypeOK' /\ PumpInv'
    BY <1>4, <2>1, <2>2 DEF PumpRow, TypeOK, PumpInv
  <2>4. Grown
    BY <2>1, <2>2, ChatAssumption DEF TypeOK, Grown
  <2> QED
    BY <2>2, <2>3, <2>4
<1>5. ASSUME PumpMark PROVE TypeOK' /\ Grown /\ PumpInv' /\ UNCHANGED <<job, pushed>>
  <2>1. event \in Messages /\ event.of \in Msgs /\ Time[event.of] \in Nat
    BY <1>5, TimeAssumption DEF PumpMark, PumpInv, Messages
  <2> QED
    BY <1>5, <2>1 DEF PumpMark, PumpGoes, TypeOK, Grown, PumpInv
<1>6. ASSUME Push PROVE TypeOK' /\ Grown /\ PumpInv' /\ UNCHANGED job /\ PushedIsStored'
  <2>1. event.kind = "message" => event \in Messages /\ event.of \in Msgs /\ event.old \in BOOLEAN
    BY <1>6 DEF Push, TypeOK, Messages, Conversations, NoEvent
  <2>2. NoEvent \notin Messages
    BY DEF Messages, NoEvent
  <2>3. TypeOK' /\ Grown /\ PumpInv'
    BY <1>6, <2>1, <2>2 DEF Push, TypeOK, Grown, PumpInv
  <2> QED
    BY <1>6, <2>1, <2>3 DEF Push, PumpInv, PushedIsStored
<1>7. PushedIsStored'
  BY <1>1, <1>2, <1>3, <1>4, <1>5, <1>6, PushedKept DEF PumpStep
<1> QED
  BY <1>1, <1>2, <1>3, <1>4, <1>5, <1>6, <1>7, JobKept DEF PumpStep

\* A step of a job: what it has to show for itself, the rest being left alone.
Alone(w, j) ==
  /\ job' = [job EXCEPT ![w] = j]
  /\ UNCHANGED <<phone, lastEvent, pump, changes, restarts>>

LEMMA JobGoes ==
  ASSUME ArchiveInv, NEW w \in Workers, NEW j, Alone(w, j), Grown,
         j \in Jobs /\ (j.page # {} <=> j.at \in {"stub", "row"}) /\ (j.at = "row" => j.item \in j.page),
         row' \in [Msgs -> Nat], chat' \in [Chats -> Nat \union {-1}],
         waiting' \in Nat /\ recent' \in BOOLEAN /\ jobs' \in Nat,
         JobInv(w)', BackfillInv(w)'
  PROVE  ArchiveInv'
<1> USE DEF ArchiveInv, Alone, pump
<1>1. job' \in [Workers -> Jobs] /\ job'[w] = j /\ \A v \in Workers \ {w} : job'[v] = job[v]
  BY DEF TypeOK
<1>2. TypeOK'
  BY <1>1 DEF TypeOK
<1>3. \A v \in Workers : JobInv(v)' /\ BackfillInv(v)'
  <2> SUFFICES ASSUME NEW v \in Workers PROVE JobInv(v)' /\ BackfillInv(v)'
    OBVIOUS
  <2>1. CASE v = w
    BY <2>1
  <2>2. CASE v # w
    BY <1>1, <2>2, JobKept
  <2> QED
    BY <2>1, <2>2
<1>4. PumpInv' /\ PushedIsStored'
  BY <1>2, PumpKept, PushedKept
<1> QED
  BY <1>2, <1>3, <1>4

\* Idle wants nothing and holds nothing.
LEMMA IdleFits ==
  /\ Idle \in Jobs /\ Idle.page = {} /\ Idle.at = "off" /\ Idle.kind = "none"
  BY DEF Jobs, Idle

\* A job that comes to its end leaves the archive alone.
LEMMA EndKeeps ==
  ASSUME ArchiveInv, NEW w \in Workers, Alone(w, Idle), UNCHANGED <<row, chat, waiting, recent, jobs>>
  PROVE  ArchiveInv'
<1>1. Grown /\ job'[w] = Idle
  BY DEF ArchiveInv, TypeOK, Alone, Grown
<1>2. JobInv(w)' /\ BackfillInv(w)'
  BY <1>1, IdleFits DEF JobInv, BackfillInv
<1> QED
  BY <1>1, <1>2, IdleFits, JobGoes DEF ArchiveInv, TypeOK

\* Asking for work: a refresh has nothing to do with backfills, and a backfill that
\* begins wants nothing yet.
LEMMA RequestKeeps ==
  ASSUME ArchiveInv,
         \/ RequestRefresh \/ RateExpires \/ RunRefresh
         \/ \E c \in Chats : RequestBackfill(c)
  PROVE  ArchiveInv'
<1> USE DEF ArchiveInv, store, pump
<1>1. CASE RequestRefresh \/ RateExpires
  <2>1. TypeOK' /\ Grown /\ UNCHANGED <<at, event, pushed, job>>
    <3>1. recent' \in BOOLEAN
      BY <1>1, Zenon DEF RequestRefresh, RateExpires
    <3>2. UNCHANGED <<phone, store, pump, job, changes, restarts>>
      BY <1>1 DEF RequestRefresh, RateExpires
    <3>3. waiting' \in Nat /\ jobs' \in Nat
      BY <1>1 DEF RequestRefresh, RateExpires, TypeOK
    <3>4. Grown
      BY <3>2 DEF TypeOK, Grown
    <3> QED
      BY <3>1, <3>2, <3>3, <3>4 DEF TypeOK
  <2> QED
    BY <2>1, JobKept, PumpKept, PushedKept
<1>2. CASE RunRefresh
  <2> DEFINE j == [Idle EXCEPT !.kind = "refresh", !.at = "list", !.wanted = {m \in Msgs : phone[m] > 0}]
  <2>1. j \in Jobs /\ j.page = {} /\ j.at = "list" /\ j.kind = "refresh"
    BY IdleFits DEF Jobs
  <2>2. Alone("live", j) /\ Grown /\ job'["live"] = j
    BY <1>2 DEF RunRefresh, Alone, Grown, TypeOK, Workers
  <2>3. JobInv("live")' /\ BackfillInv("live")'
    BY <2>1, <2>2 DEF JobInv, BackfillInv
  <2> HIDE DEF j
  <2>4. "live" \in Workers /\ waiting' \in Nat /\ UNCHANGED <<row, chat, recent, jobs>>
    BY <1>2 DEF RunRefresh, TypeOK, Workers
  <2> QED
    BY <2>1, <2>2, <2>3, <2>4, JobGoes DEF TypeOK
<1>3. ASSUME NEW c \in Chats, RequestBackfill(c) PROVE ArchiveInv'
  <2>1. PICK s \in {"lookup", "oldest"} :
          Alone("live", [Idle EXCEPT !.kind = "backfill", !.at = s, !.on = Conversation(c, ChatTime(c))])
    BY <1>3 DEF RequestBackfill, Alone
  <2> DEFINE j == [Idle EXCEPT !.kind = "backfill", !.at = s, !.on = Conversation(c, ChatTime(c))]
  <2>2. Conversation(c, ChatTime(c)) \in Conversations
    BY ChatTimeType DEF Conversation, Conversations
  <2>3. j \in Jobs /\ j.page = {} /\ j.at = s /\ j.on \in Conversations /\ j.wanted = {}
        /\ j.kind = "backfill"
    BY <2>2 DEF Jobs, Idle
  <2>4. Alone("live", j)
    BY <2>1
  <2> HIDE DEF j
  <2>5. jobs' = jobs + 1 /\ UNCHANGED <<phone, row, chat, lastEvent, recent, waiting>>
    BY <1>3, Zenon DEF RequestBackfill
  <2>6. Grown /\ job'["live"] = j /\ "live" \in Workers
    BY <2>4, <2>5 DEF Alone, Grown, TypeOK, Workers
  <2>7. JobInv("live")' /\ BackfillInv("live")'
    BY <2>3, <2>6 DEF JobInv, BackfillInv
  <2> QED
    BY <2>3, <2>4, <2>5, <2>6, <2>7, JobGoes DEF TypeOK
<1> QED
  BY <1>1, <1>2, <1>3

\* A chat that is found is imported, and then its backfill begins.
LEMMA LookupKeeps ==
  ASSUME ArchiveInv, NEW w \in Workers, LookupConversation(w)
  PROVE  ArchiveInv'
<1> USE DEF ArchiveInv
<1>1. CASE Goes(w, "lookup", Idle) /\ UNCHANGED chat
  BY <1>1, EndKeeps DEF LookupConversation, Goes, Rows, Alone
<1>2. CASE /\ Goes(w, "lookup", [job[w] EXCEPT !.at = "oldest"])
           /\ UpsertChat(job[w].on.of, job[w].on.time)
  <2> DEFINE j == [job[w] EXCEPT !.at = "oldest"]
  <2>1. job[w] \in Jobs /\ job[w].at = "lookup" /\ job[w].page = {} /\ job[w].kind = "backfill"
        /\ job[w].on \in Conversations /\ job[w].wanted = {}
    BY <1>2 DEF Goes, TypeOK, JobInv, BackfillInv
  <2>2. j \in Jobs /\ j.page = {} /\ j.at = "oldest" /\ j.kind = "backfill" /\ j.on \in Conversations
        /\ j.wanted = {}
    BY <2>1 DEF Jobs
  <2>3. Alone(w, j) /\ UNCHANGED <<row, waiting, recent, jobs>>
    BY <1>2 DEF LookupConversation, Goes, Rows, Alone
  <2> HIDE DEF j
  <2>4. job[w].on.of \in Chats /\ job[w].on.time \in Nat
    BY <2>1 DEF Conversations
  <2>5. chat' \in [Chats -> Nat \union {-1}] /\ Grown /\ job'[w] = j
    BY <1>2, <2>3, <2>4 DEF UpsertChat, Alone, Grown, TypeOK
  <2>6. JobInv(w)' /\ BackfillInv(w)'
    BY <2>2, <2>5 DEF JobInv, BackfillInv
  <2> QED
    BY <2>2, <2>3, <2>5, <2>6, JobGoes DEF TypeOK
<1> QED
  BY <1>1, <1>2 DEF LookupConversation

\* A step of a job that writes nothing.
LEMMA ReadKeeps ==
  ASSUME ArchiveInv, NEW w \in Workers, NEW j, Alone(w, j), UNCHANGED <<row, chat, waiting, recent, jobs>>,
         j \in Jobs /\ (j.page # {} <=> j.at \in {"stub", "row"}) /\ (j.at = "row" => j.item \in j.page),
         job'[w] = j => JobInv(w)' /\ BackfillInv(w)'
  PROVE  ArchiveInv'
<1>1. Grown /\ job'[w] = j
  BY DEF ArchiveInv, TypeOK, Alone, Grown
<1> QED
  BY <1>1, JobGoes DEF ArchiveInv, TypeOK

\* A backfill wants what the phone has before its cursor.
LEMMA OldestKeeps ==
  ASSUME ArchiveInv, NEW w \in Workers, OldestCursor(w)
  PROVE  ArchiveInv'
<1> USE DEF ArchiveInv
<1> DEFINE c == job[w].on.of
           cursor == Oldest(Stored(c))
           j == [job[w] EXCEPT !.at = "fetch", !.left = MaxRequests, !.cursor = cursor,
                               !.wanted = Before(c, cursor)]
<1>1. job[w] \in Jobs /\ job[w].at = "oldest" /\ job[w].page = {} /\ job[w].kind = "backfill"
      /\ job[w].on \in Conversations
  BY DEF OldestCursor, Goes, TypeOK, JobInv
<1>2. Stored(c) \in SUBSET Msgs /\ Before(c, cursor) \in SUBSET Msgs
  BY DEF Stored, Before, OnPhone
<1>3. cursor \in Msgs \union {None}
  <2>1. CASE Stored(c) = {}
    BY <2>1 DEF Oldest
  <2>2. CASE Stored(c) # {}
    BY <1>2, <2>2, Extremes
  <2> QED
    BY <2>1, <2>2
<1>4. j \in Jobs /\ j.page = {} /\ j.at = "fetch" /\ j.kind = "backfill" /\ j.on = job[w].on
      /\ j.left = MaxRequests /\ j.cursor = cursor /\ j.wanted = Before(c, cursor)
  BY <1>1, <1>2, <1>3, BoundsAssumption DEF Jobs
<1>5. Alone(w, j) /\ UNCHANGED <<row, chat, waiting, recent, jobs>>
  BY DEF OldestCursor, Goes, Rows, Alone, store
<1> HIDE DEF j
<1>6. UNCHANGED phone
  BY <1>5 DEF Alone
<1>7. ASSUME job'[w] = j PROVE JobInv(w)' /\ BackfillInv(w)'
  BY <1>1, <1>4, <1>6, <1>7, BoundsAssumption
  DEF JobInv, BackfillInv, Covered, Before, OnPhone, Older
<1> QED
  BY <1>4, <1>5, <1>7, ReadKeeps

\* The list of chats is finite, and chats are not backfilled from a list.
LEMMA ListKeeps ==
  ASSUME ArchiveInv, NEW w \in Workers, ListConversations(w)
  PROVE  ArchiveInv'
<1> USE DEF ArchiveInv
<1> DEFINE list == {Conversation(c, ChatTime(c)) : c \in {d \in Chats : OnPhone(d) # {}}}
           j == [job[w] EXCEPT !.at = "chat", !.chats = list,
                   !.left = IF job[w].kind = "refresh" THEN RefreshChats ELSE Cardinality(list)]
<1>1. CASE Goes(w, "list", Idle)
  BY <1>1, EndKeeps DEF ListConversations, Goes, Rows, Alone, store
<1>2. CASE Goes(w, "list", j)
  <2>1. list \subseteq Conversations
    BY ChatTimeType DEF Conversation, Conversations
  <2>2. Cardinality(list) \in Nat
    <3> DEFINE D == {m \in Msgs : phone[m] > 0}
               f == [m \in D |-> Conversation(ChatOf[m], ChatTime(ChatOf[m]))]
    <3>1. IsFiniteSet(D)
      BY FS_Subset, ChatAssumption
    <3>2. f \in [D -> list]
      BY ChatAssumption DEF OnPhone
    <3>3. \A x \in list : \E m \in D : f[m] = x
      BY DEF OnPhone
    <3> HIDE DEF f, D, list
    <3>4. f \in Surjection(D, list)
      BY <3>2, <3>3 DEF Surjection
    <3> QED
      BY <3>1, <3>4, FS_Surjection, FS_CardinalityType
  <2>3. job[w] \in Jobs /\ job[w].at = "list" /\ job[w].page = {} /\ job[w].kind # "backfill"
    BY <1>2 DEF Goes, TypeOK, JobInv
  <2> HIDE DEF list
  <2>4. j \in Jobs /\ j.page = {} /\ j.at = "chat" /\ j.kind # "backfill"
    BY <2>1, <2>2, <2>3, BoundsAssumption DEF Jobs
  <2>5. Alone(w, j) /\ UNCHANGED <<row, chat, waiting, recent, jobs>>
    BY <1>2 DEF ListConversations, Goes, Rows, Alone, store
  <2> HIDE DEF j
  <2>6. ASSUME job'[w] = j PROVE JobInv(w)' /\ BackfillInv(w)'
    BY <2>4, <2>6 DEF JobInv, BackfillInv
  <2> QED
    BY <2>4, <2>5, <2>6, ReadKeeps
<1> QED
  BY <1>1, <1>2 DEF ListConversations

\* A chat of the list is written, and its messages are next.
LEMMA ImportChatKeeps ==
  ASSUME ArchiveInv, NEW w \in Workers, ImportChat(w)
  PROVE  ArchiveInv'
<1> USE DEF ArchiveInv
<1>1. PICK c \in job[w].chats :
        /\ UpsertChat(c.of, c.time)
        /\ Goes(w, "chat", IF job[w].left > 0
             THEN [job[w] EXCEPT !.at = "fetch", !.chats = @ \ {c}, !.on = c,
                                 !.left = @ - 1, !.cursor = None]
             ELSE [job[w] EXCEPT !.chats = @ \ {c}])
  BY Zenon DEF ImportChat
<1> DEFINE j == IF job[w].left > 0
             THEN [job[w] EXCEPT !.at = "fetch", !.chats = @ \ {c}, !.on = c,
                                 !.left = @ - 1, !.cursor = None]
             ELSE [job[w] EXCEPT !.chats = @ \ {c}]
<1>2. job[w] \in Jobs /\ job[w].at = "chat" /\ job[w].page = {} /\ job[w].kind # "backfill"
  BY <1>1 DEF Goes, TypeOK, JobInv
<1>3. c \in Conversations /\ c.of \in Chats /\ c.time \in Nat
  BY <1>2 DEF Jobs, Conversations
<1>4. j \in Jobs /\ j.page = {} /\ j.kind # "backfill"
      /\ (j.at = "chat" \/ (j.at = "fetch" /\ j.on \in Conversations))
  <2> DEFINE rest == job[w].chats \ {c}
  <2>1. rest \in SUBSET Conversations
    BY <1>2 DEF Jobs
  <2> HIDE DEF rest
  <2>2. CASE job[w].left > 0
    <3>1. j = [job[w] EXCEPT !.at = "fetch", !.chats = rest, !.on = c, !.left = @ - 1, !.cursor = None]
      BY <2>2 DEF rest
    <3>2. job[w].left - 1 \in Nat
      BY <1>2, <2>2 DEF Jobs
    <3> HIDE DEF j
    <3> QED
      BY <1>2, <1>3, <2>1, <3>1, <3>2 DEF Jobs
  <2>3. CASE ~(job[w].left > 0)
    <3>1. j = [job[w] EXCEPT !.chats = rest]
      BY <2>3 DEF rest
    <3> HIDE DEF j
    <3>2. j \in Jobs
      BY <1>2, <2>1, <3>1 DEF Jobs
    <3>3. j.page = job[w].page /\ j.kind = job[w].kind /\ j.at = job[w].at
      BY <1>2, <3>1 DEF Jobs
    <3> QED
      BY <1>2, <3>2, <3>3
  <2> QED
    BY <2>2, <2>3
<1>5. Alone(w, j) /\ UNCHANGED <<row, waiting, recent, jobs>>
  BY <1>1 DEF ImportChat, Goes, Rows, Alone
<1> HIDE DEF j
<1>6. chat' \in [Chats -> Nat \union {-1}] /\ Grown /\ job'[w] = j
  BY <1>1, <1>3, <1>5 DEF UpsertChat, Alone, Grown, TypeOK
<1>7. JobInv(w)' /\ BackfillInv(w)'
  BY <1>4, <1>6 DEF JobInv, BackfillInv
<1> QED
  BY <1>4, <1>5, <1>6, <1>7, JobGoes DEF TypeOK

\* A call that fails ends a backfill, and is passed over by the others.
LEMMA FetchFailsKeeps ==
  ASSUME ArchiveInv, NEW w \in Workers, FetchFails(w)
  PROVE  ArchiveInv'
<1> USE DEF ArchiveInv
<1> DEFINE j == [job[w] EXCEPT !.at = "chat"]
<1>1. job[w] \in Jobs /\ job[w].at = "fetch" /\ job[w].page = {}
  BY DEF FetchFails, Goes, TypeOK
<1>2. CASE job[w].kind = "backfill"
  BY <1>2, EndKeeps DEF FetchFails, Goes, Rows, Alone, store
<1>3. CASE job[w].kind # "backfill"
  <2>1. j \in Jobs /\ j.page = {} /\ j.at = "chat" /\ j.kind # "backfill"
    BY <1>1, <1>3 DEF Jobs
  <2>2. Alone(w, j) /\ UNCHANGED <<row, chat, waiting, recent, jobs>>
    BY <1>3 DEF FetchFails, Goes, Rows, Alone, store
  <2> HIDE DEF j
  <2>3. ASSUME job'[w] = j PROVE JobInv(w)' /\ BackfillInv(w)'
    BY <2>1, <2>3 DEF JobInv, BackfillInv
  <2> QED
    BY <2>1, <2>2, <2>3, ReadKeeps
<1> QED
  BY <1>2, <1>3

\* What is before the cursor is in the page or before its oldest message; so if the
\* phone gives no cursor it is in the page, and if the page is empty there is nothing.
LEMMA FetchKeeps ==
  ASSUME ArchiveInv, NEW w \in Workers, FetchMessages(w)
  PROVE  ArchiveInv'
<1> USE DEF ArchiveInv
<1> DEFINE c == job[w].on.of
           cursor == job[w].cursor
           page == Page(c, cursor)
           oldest == IF page = {} THEN cursor ELSE Oldest(page)
<1>1. job[w] \in Jobs /\ job[w].at = "fetch" /\ job[w].page = {} /\ job[w].on \in Conversations
      /\ c \in Chats
  BY DEF FetchMessages, TypeOK, JobInv, Conversations
<1>2. PICK next \in {oldest, None} :
        /\ next = oldest \/ Before(c, oldest) = {}
        /\ Goes(w, "fetch", [job[w] EXCEPT !.at = IF page = {} THEN "page" ELSE "stub",
             !.page = {<<m, phone[m]>> : m \in page},
             !.cursor = next, !.more = page # {} /\ next # cursor])
  BY DEF FetchMessages
<1> DEFINE j == [job[w] EXCEPT !.at = IF page = {} THEN "page" ELSE "stub",
             !.page = {<<m, phone[m]>> : m \in page},
             !.cursor = next, !.more = page # {} /\ next # cursor]
<1>3. page \subseteq Before(c, cursor) /\ Before(c, cursor) \subseteq OnPhone(c)
      /\ OnPhone(c) \subseteq Msgs /\ (page = {} => Before(c, cursor) = {})
  BY <1>1, PageIsNewest DEF Before, OnPhone
<1>4. page # {} => /\ oldest \in page /\ oldest # cursor
                   /\ \A m \in Before(c, cursor) : m \in page \/ Older(m, oldest)
  <2> SUFFICES ASSUME page # {}
               PROVE  /\ oldest \in page /\ oldest # cursor
                      /\ \A m \in Before(c, cursor) : m \in page \/ Older(m, oldest)
    OBVIOUS
  <2>1. oldest \in page
    BY <1>3, Extremes
  <2>2. oldest # cursor
    BY <1>3, <2>1, ChatAssumption, TimeAssumption DEF Before, Older
  <2> QED
    BY <1>1, <2>1, <2>2, PageIsNewest
<1>5. oldest \in Msgs \union {None} /\ next \in Msgs \union {None}
  BY <1>1, <1>3, <1>4 DEF Jobs
<1>6. {<<m, phone[m]>> : m \in page} \subseteq Msgs \X (Nat \ {0})
  BY <1>3 DEF OnPhone, TypeOK
<1>7. {<<m, phone[m]>> : m \in page} # {} <=> page # {}
  OBVIOUS
<1>8. /\ j \in Jobs /\ j.page = {<<m, phone[m]>> : m \in page} /\ j.kind = job[w].kind
      /\ j.at = (IF page = {} THEN "page" ELSE "stub") /\ j.on = job[w].on
      /\ j.left = job[w].left /\ j.cursor = next /\ j.wanted = job[w].wanted
      /\ (j.more <=> page # {} /\ next # cursor)
  <2> DEFINE items == {<<m, phone[m]>> : m \in page}
             more == page # {} /\ next # cursor
             goal == IF page = {} THEN "page" ELSE "stub"
  <2>1. items \subseteq Msgs \X (Nat \ {0})
    BY <1>6
  <2>2. more \in BOOLEAN
    BY Zenon
  <2>3. goal \in {"page", "stub"}
    OBVIOUS
  <2> HIDE DEF items, more, goal
  <2>4. j = [job[w] EXCEPT !.at = goal, !.page = items, !.cursor = next, !.more = more]
    BY DEF items, more, goal
  <2> HIDE DEF j
  <2>5. /\ j \in Jobs /\ j.page = items /\ j.kind = job[w].kind /\ j.at = goal
        /\ j.on = job[w].on /\ j.left = job[w].left /\ j.cursor = next
        /\ j.wanted = job[w].wanted /\ j.more = more
    BY <1>1, <1>5, <2>1, <2>2, <2>3, <2>4 DEF Jobs
  <2> QED
    BY <2>5 DEF items, more, goal
<1>9. Alone(w, j) /\ UNCHANGED <<row, chat, waiting, recent, jobs>>
  BY <1>2 DEF FetchMessages, Goes, Rows, Alone, store
<1> HIDE DEF j
<1>10. UNCHANGED phone
  BY <1>9 DEF Alone
<1>11. ASSUME job'[w] = j PROVE JobInv(w)'
  BY <1>1, <1>8, <1>11 DEF JobInv
<1>12. ASSUME job'[w] = j, j.kind = "backfill", NEW m \in j.wanted
       PROVE  phone[m] > 0 /\ ChatOf[m] = c /\ Covered(w, m)'
  <2>1. phone[m] > 0 /\ ChatOf[m] = c /\ Covered(w, m) /\ m \in Msgs
    BY <1>1, <1>8, <1>12 DEF BackfillInv, Jobs
  <2>2. row[m] > 0 \/ m \in Before(c, cursor)
    BY <1>1, <2>1 DEF Covered, Before, OnPhone
  <2>3. CASE row[m] > 0
    <3>1. row'[m] > 0
      BY <1>9, <2>3
    <3> QED
      BY <2>1, <3>1 DEF Covered
  <2>4. CASE m \in page
    <3>1. <<m, phone[m]>> \in job'[w].page
      BY <1>8, <1>12, <2>4
    <3>2. \E i \in job'[w].page : i[1] = m
      BY <3>1
    <3> QED
      BY <2>1, <3>2 DEF Covered
  <2>5. CASE page # {} /\ Older(m, oldest) /\ m \in Before(c, cursor)
    <3>1. m \in Before(c, oldest)
      BY <1>3, <2>5 DEF Before
    <3>2. next = oldest /\ next # cursor
      BY <1>2, <1>4, <2>5, <3>1
    <3>3. job'[w].at = "stub" /\ job'[w].more /\ job'[w].cursor = oldest
      BY <1>8, <1>12, <2>5, <3>2
    <3>4. Older(m, job'[w].cursor)
      BY <2>5, <3>3
    <3> QED
      BY <2>1, <3>3, <3>4 DEF Covered, Older
  <2> QED
    BY <1>3, <1>4, <2>1, <2>2, <2>3, <2>4, <2>5
<1>13. ASSUME job'[w] = j PROVE BackfillInv(w)'
  BY <1>8, <1>10, <1>12, <1>13 DEF BackfillInv
<1> QED
  BY <1>7, <1>8, <1>9, <1>11, <1>13, ReadKeeps

\* The chat of an item is there before its row is.
LEMMA ImportStubKeeps ==
  ASSUME ArchiveInv, NEW w \in Workers, ImportStub(w)
  PROVE  ArchiveInv'
<1> USE DEF ArchiveInv
<1>1. PICK i \in job[w].page : /\ Goes(w, "stub", [job[w] EXCEPT !.at = "row", !.item = i])
                               /\ EnsureChat(ChatOf[i[1]])
  BY Zenon DEF ImportStub
<1> DEFINE j == [job[w] EXCEPT !.at = "row", !.item = i]
<1>2. job[w] \in Jobs /\ job[w].at = "stub" /\ job[w].page # {} /\ job[w].on \in Conversations
  BY <1>1 DEF Goes, TypeOK, JobInv
<1>3. i \in Msgs \X (Nat \ {0}) /\ i[1] \in Msgs /\ ChatOf[i[1]] \in Chats
  BY <1>2, ChatAssumption DEF Jobs
<1>4. /\ j \in Jobs /\ j.page = job[w].page /\ j.at = "row" /\ j.item = i /\ j.kind = job[w].kind
      /\ j.on = job[w].on /\ j.left = job[w].left /\ j.more = job[w].more
      /\ j.cursor = job[w].cursor /\ j.wanted = job[w].wanted
  BY <1>2, <1>3 DEF Jobs
<1>5. Alone(w, j) /\ UNCHANGED <<row, waiting, recent, jobs>>
  BY <1>1 DEF ImportStub, Goes, Rows, Alone
<1> HIDE DEF j
<1>6. /\ chat' \in [Chats -> Nat \union {-1}] /\ chat'[ChatOf[i[1]]] # -1
      /\ Grown /\ job'[w] = j
  BY <1>1, <1>3, <1>5 DEF EnsureChat, Alone, Grown, TypeOK
<1>7. JobInv(w)'
  BY <1>2, <1>4, <1>6 DEF JobInv
<1>8. BackfillInv(w)'
  <2> SUFFICES ASSUME j.kind = "backfill", NEW m \in j.wanted
               PROVE  phone'[m] > 0 /\ ChatOf[m] = j.on.of /\ Covered(w, m)'
    BY <1>4, <1>6 DEF BackfillInv
  <2>1. phone[m] > 0 /\ ChatOf[m] = j.on.of /\ Covered(w, m)
    BY <1>2, <1>4 DEF BackfillInv
  <2>2. Covered(w, m)'
    BY <1>2, <1>4, <1>5, <1>6, <2>1 DEF Covered, Older
  <2> QED
    BY <1>5, <2>1, <2>2 DEF Alone
<1> QED
  BY <1>1, <1>2, <1>4, <1>5, <1>6, <1>7, <1>8, JobGoes DEF TypeOK

\* An item that leaves the page is a row.
LEMMA ImportRowKeeps ==
  ASSUME ArchiveInv, NEW w \in Workers, ImportRow(w)
  PROVE  ArchiveInv'
<1> USE DEF ArchiveInv
<1> DEFINE i == job[w].item
           rest == job[w].page \ {i}
           goal == IF rest = {} THEN "page" ELSE "stub"
           j == [job[w] EXCEPT !.at = goal, !.page = rest, !.item = None]
<1>1. job[w] \in Jobs /\ job[w].at = "row" /\ i \in job[w].page /\ job[w].on \in Conversations
      /\ chat[ChatOf[i[1]]] # -1
  BY DEF ImportRow, Goes, TypeOK, JobInv
<1>2. i[1] \in Msgs /\ i[2] \in Nat \ {0} /\ rest \subseteq Msgs \X (Nat \ {0})
  BY <1>1 DEF Jobs
<1>3. Alone(w, j) /\ UNCHANGED <<chat, waiting, recent, jobs>>
  BY DEF ImportRow, Goes, Rows, Alone
<1>4. row' = [row EXCEPT ![i[1]] = i[2]]
  BY DEF ImportRow, UpsertRow
<1>5. goal \in {"page", "stub"} /\ (rest # {} <=> goal = "stub")
  OBVIOUS
<1>6. \A k \in job[w].page : k \in rest \/ k = i
  OBVIOUS
<1> HIDE DEF rest, goal
<1>7. /\ j \in Jobs /\ j.page = rest /\ j.at = goal /\ j.kind = job[w].kind
      /\ j.on = job[w].on /\ j.left = job[w].left /\ j.more = job[w].more
      /\ j.cursor = job[w].cursor /\ j.wanted = job[w].wanted
  BY <1>1, <1>2, <1>5 DEF Jobs
<1> HIDE DEF i, j
<1>8. row' \in [Msgs -> Nat] /\ row'[i[1]] > 0 /\ \A m \in Msgs : row[m] > 0 => row'[m] > 0
  BY <1>2, <1>4 DEF TypeOK
<1>9. Grown /\ job'[w] = j
  BY <1>1, <1>2, <1>3, <1>4, <1>8 DEF Alone, Grown, TypeOK
<1>10. JobInv(w)'
  BY <1>1, <1>5, <1>7, <1>9 DEF JobInv
<1>11. BackfillInv(w)'
  <2> SUFFICES ASSUME j.kind = "backfill", NEW m \in j.wanted
               PROVE  phone'[m] > 0 /\ ChatOf[m] = j.on.of /\ Covered(w, m)'
    BY <1>5, <1>7, <1>9 DEF BackfillInv
  <2>1. phone[m] > 0 /\ ChatOf[m] = j.on.of /\ Covered(w, m) /\ m \in Msgs
    BY <1>1, <1>7 DEF BackfillInv, Jobs
  <2>2. ASSUME row[m] > 0 PROVE Covered(w, m)'
    <3>1. row'[m] > 0
      BY <1>8, <2>1, <2>2
    <3> QED
      BY <3>1 DEF Covered
  <2>3. ASSUME NEW k \in job[w].page, k[1] = m PROVE Covered(w, m)'
    BY <1>6, <1>7, <1>8, <1>9, <2>3 DEF Covered
  <2>4. ASSUME job[w].more, job[w].cursor = None \/ Older(m, job[w].cursor)
        PROVE  Covered(w, m)'
    <3>1. job'[w].at \in {"stub", "page"} /\ job'[w].more /\ job'[w].cursor = job[w].cursor
      BY <1>5, <1>7, <1>9, <2>4
    <3>2. job'[w].cursor = None \/ Older(m, job'[w].cursor)
      BY <2>4, <3>1
    <3> QED
      BY <3>1, <3>2 DEF Covered, Older
  <2>5. Covered(w, m)'
    BY <1>1, <2>1, <2>2, <2>3, <2>4 DEF Covered
  <2> QED
    BY <1>3, <2>1, <2>5 DEF Alone
<1> QED
  BY <1>3, <1>5, <1>7, <1>8, <1>9, <1>10, <1>11, JobGoes DEF TypeOK

\* A page that is written leaves nothing of it to bring; without a cursor that says
\* there is more, nothing at all.
LEMMA PageDoneKeeps ==
  ASSUME ArchiveInv, NEW w \in Workers, PageDone(w)
  PROVE  ArchiveInv'
<1> USE DEF ArchiveInv
<1>1. job[w] \in Jobs /\ job[w].at = "page" /\ job[w].page = {} /\ job[w].on \in Conversations
      /\ (job[w].kind = "backfill" => job[w].left > 0) /\ job[w].left \in Nat
      /\ job[w].wanted \subseteq Msgs
  BY DEF PageDone, Goes, TypeOK, JobInv, Jobs
<1>2. CASE job[w].kind # "backfill"
  <2> DEFINE j == [job[w] EXCEPT !.at = "chat"]
  <2>1. j \in Jobs /\ j.page = {} /\ j.at = "chat" /\ j.kind # "backfill"
    BY <1>1, <1>2 DEF Jobs
  <2>2. Alone(w, j) /\ UNCHANGED <<row, chat, waiting, recent, jobs>>
    BY <1>2 DEF PageDone, Goes, Rows, Alone, store
  <2> HIDE DEF j
  <2>3. ASSUME job'[w] = j PROVE JobInv(w)' /\ BackfillInv(w)'
    BY <2>1, <2>3 DEF JobInv, BackfillInv
  <2> QED
    BY <2>1, <2>2, <2>3, ReadKeeps
<1>3. CASE job[w].kind = "backfill" /\ ~job[w].more
  <2> DEFINE j == [job[w] EXCEPT !.at = "exhausted"]
  <2>1. /\ j \in Jobs /\ j.page = {} /\ j.at = "exhausted" /\ j.kind = "backfill"
        /\ j.on = job[w].on /\ j.wanted = job[w].wanted
    BY <1>1, <1>3 DEF Jobs
  <2>2. Alone(w, j) /\ UNCHANGED <<phone, row, chat, waiting, recent, jobs>>
    BY <1>3 DEF PageDone, Goes, Rows, Alone, store
  <2> HIDE DEF j
  <2>3. \A m \in job[w].wanted : phone[m] > 0 /\ ChatOf[m] = job[w].on.of /\ row[m] > 0
    BY <1>1, <1>3 DEF BackfillInv, Covered
  <2>4. ASSUME job'[w] = j PROVE JobInv(w)' /\ BackfillInv(w)'
    BY <2>1, <2>2, <2>3, <2>4 DEF JobInv, BackfillInv, Covered
  <2> QED
    BY <2>1, <2>2, <2>4, ReadKeeps
<1>4. CASE job[w].kind = "backfill" /\ job[w].more /\ job[w].left = 1
  BY <1>4, EndKeeps DEF PageDone, Goes, Rows, Alone, store
<1>5. CASE job[w].kind = "backfill" /\ job[w].more /\ job[w].left # 1
  <2> DEFINE j == [job[w] EXCEPT !.at = "fetch", !.left = @ - 1]
  <2> DEFINE left == job[w].left - 1
  <2>1. left \in Nat \ {0}
    BY <1>1, <1>5
  <2> HIDE DEF left
  <2>2. /\ j \in Jobs /\ j.page = {} /\ j.at = "fetch" /\ j.kind = "backfill" /\ j.left > 0
        /\ j.on = job[w].on /\ j.wanted = job[w].wanted /\ j.cursor = job[w].cursor
    <3>1. j = [job[w] EXCEPT !.at = "fetch", !.left = left]
      BY <1>1 DEF left, Jobs
    <3> HIDE DEF j
    <3>2. j \in Jobs
      BY <1>1, <2>1, <3>1 DEF Jobs
    <3>3. /\ j.page = job[w].page /\ j.at = "fetch" /\ j.kind = job[w].kind /\ j.left = left
          /\ j.on = job[w].on /\ j.wanted = job[w].wanted /\ j.cursor = job[w].cursor
      BY <1>1, <3>1 DEF Jobs
    <3> QED
      BY <1>1, <1>5, <2>1, <3>2, <3>3
  <2>3. Alone(w, j) /\ UNCHANGED <<phone, row, chat, waiting, recent, jobs>>
    BY <1>5 DEF PageDone, Goes, Rows, Alone, store
  <2> HIDE DEF j
  <2>4. ASSUME job'[w] = j, NEW m \in j.wanted
        PROVE  phone[m] > 0 /\ ChatOf[m] = j.on.of /\ Covered(w, m)'
    <3>1. phone[m] > 0 /\ ChatOf[m] = j.on.of /\ Covered(w, m)
      BY <1>5, <2>2, <2>4 DEF BackfillInv
    <3>2. row[m] > 0 \/ job[w].cursor = None \/ Older(m, job[w].cursor)
      BY <1>1, <3>1 DEF Covered
    <3>3. job'[w].at = "fetch" /\ job'[w].cursor = job[w].cursor /\ row' = row
      BY <2>2, <2>3, <2>4
    <3> QED
      BY <3>1, <3>2, <3>3 DEF Covered, Older
  <2>5. ASSUME job'[w] = j PROVE JobInv(w)' /\ BackfillInv(w)'
    BY <1>1, <2>2, <2>3, <2>4, <2>5 DEF JobInv, BackfillInv
  <2> QED
    BY <2>2, <2>3, <2>5, ReadKeeps
<1> QED
  BY <1>2, <1>3, <1>4, <1>5

\* A daemon that comes back has its archive and no work.
LEMMA RestartKeeps ==
  ASSUME ArchiveInv, Restart
  PROVE  ArchiveInv'
<1> USE DEF ArchiveInv, store
<1>1. job' \in [Workers -> Jobs]
      /\ \A w \in Workers : /\ job'[w].at \in {"off", "list"} /\ job'[w].kind # "backfill"
                            /\ job'[w].page = {}
  BY FirstJobsFit DEF Restart
<1>2. recent' \in BOOLEAN
  BY Zenon DEF Restart
<1>3. relay' = <<>> /\ at' = "idle" /\ event' = NoEvent /\ waiting' = 0 /\ restarts' \in Nat
      /\ UNCHANGED <<phone, row, chat, lastEvent, pushed, jobs, changes>>
  BY DEF Restart, TypeOK
<1>4. TypeOK'
  BY <1>1, <1>2, <1>3 DEF TypeOK
<1>5. Grown
  BY <1>3 DEF Grown, TypeOK
<1>6. PushedIsStored'
  BY <1>3, <1>4, <1>5, PushedKept
<1>7. PumpInv'
  BY <1>3 DEF PumpInv, NoEvent, Messages
<1>8. \A w \in Workers : JobInv(w)' /\ BackfillInv(w)'
  BY <1>1 DEF JobInv, BackfillInv
<1> QED
  BY <1>4, <1>6, <1>7, <1>8

\* Every step keeps the invariant.
LEMMA NextArchiveInv == ArchiveInv /\ [Next]_vars => ArchiveInv'
<1> SUFFICES ASSUME ArchiveInv, [Next]_vars PROVE ArchiveInv'
  OBVIOUS
<1>1. CASE \/ \E m \in Msgs : PhoneChanges(m)
           \/ \E c \in Chats : PhoneAnnounces(c)
           \/ Missed
  BY <1>1, PhoneStep
<1>2. CASE PumpStep
  BY <1>2, PumpKeeps
<1>3. CASE \/ RequestRefresh \/ RateExpires \/ RunRefresh
           \/ \E c \in Chats : RequestBackfill(c)
  BY <1>3, RequestKeeps
<1>4. ASSUME NEW w \in Workers, JobStep(w) PROVE ArchiveInv'
  <2>1. CASE Finish(w)
    BY <2>1, EndKeeps DEF Finish, Goes, Rows, Alone, store
  <2> QED
    BY <1>4, <2>1, LookupKeeps, OldestKeeps, ListKeeps, ImportChatKeeps, FetchFailsKeeps, FetchKeeps,
       ImportStubKeeps, ImportRowKeeps, PageDoneKeeps DEF JobStep
<1>5. CASE Restart
  BY <1>5, RestartKeeps
<1>6. CASE UNCHANGED vars
  <2>1. TypeOK' /\ PushedIsStored' /\ PumpInv'
    BY <1>6 DEF ArchiveInv, vars, store, pump, work, TypeOK, PushedIsStored, PumpInv
  <2>2. Grown /\ UNCHANGED job
    BY <1>6 DEF ArchiveInv, vars, store, pump, work, TypeOK, Grown
  <2> QED
    BY <2>1, <2>2, JobKept DEF ArchiveInv
<1> QED
  BY <1>1, <1>2, <1>3, <1>4, <1>5, <1>6 DEF Next

THEOREM ArchiveIsRight == Spec => []ArchiveInv
BY InitArchiveInv, NextArchiveInv, PTL DEF Spec

\* Every variable has its type, and a job is at its rows while it has a page.
THEOREM ArchiveTypeCorrect == Spec => []TypeOK
<1>1. ArchiveInv => TypeOK
  BY DEF ArchiveInv
<1> QED
  BY <1>1, ArchiveIsRight, PTL

\* Whatever number of refreshes and backfills run beside the pump, and however often the
\* daemon is restarted: what clients were told of by message.new is in the archive
\* (sync.go Handle runs before HandleGMEvent), and every row's chat is there too.
THEOREM PushedStored == Spec => []PushedIsStored
<1>1. ArchiveInv => PushedIsStored
  BY DEF ArchiveInv
<1> QED
  BY <1>1, ArchiveIsRight, PTL

\* A backfill that reports the end of the history has brought all of it, for every page
\* size and number of requests (history.go Backfill).
THEOREM BackfillComplete == Spec => []BackfillIsComplete
<1>1. ArchiveInv => BackfillIsComplete
  <2> SUFFICES ASSUME ArchiveInv, NEW w \in Workers, job[w].at = "exhausted", NEW m \in job[w].wanted
               PROVE  row[m] > 0
    BY DEF BackfillIsComplete
  <2>1. job[w].page = {} /\ BackfillInv(w) /\ job[w].kind = "backfill"
    BY DEF ArchiveInv, TypeOK, JobInv
  <2> QED
    BY <2>1 DEF BackfillInv, Covered
<1> QED
  BY <1>1, ArchiveIsRight, PTL
-----------------------------------------------------------------------------
(***************************************************************************)
(* The fan-out                                                             *)
(***************************************************************************)

\* dispatch has called the first n permanent subscribers; the others are next, and then
\* come watchers.
Reached(n) ==
  /\ \A k \in 1..Len(Permanent) : heard[Permanent[k]] = IF k <= n THEN delivered ELSE delivered - 1
  /\ Len(todo) >= Len(Permanent) - n
  /\ \A j \in 1..Len(todo) : IF n + j <= Len(Permanent) THEN todo[j] = Permanent[n + j]
                                                        ELSE todo[j] \in Callers \X Nat

DeliveryInv ==
  IF current = Quiet THEN todo = <<>> /\ \A p \in Stayers : heard[p] = delivered
                     ELSE \E n \in 0..Len(Permanent) : Reached(n)

\* The permanent subscribers come first, watchers after them, and no watcher remembers
\* the index of a permanent one.
PermanentFirst ==
  /\ Len(subscribers) >= Len(Permanent)
  /\ \A k \in 1..Len(subscribers) : IF k <= Len(Permanent) THEN subscribers[k] = Permanent[k]
                                                           ELSE subscribers[k] \in Callers \X Nat
  /\ \A c \in Callers : Waiting(c) => idx[c] > Len(Permanent)

StayInv == FanOutTypeOK /\ PermanentFirst /\ DeliveryInv

\* The permanent subscribers are a sequence of different ones, none of them a handler.
LEMMA PermanentIsSeq ==
  /\ Permanent \in Seq(Stayers) /\ Len(Permanent) \in Nat
  /\ DOMAIN Permanent = 1..Len(Permanent)
  /\ \A k \in 1..Len(Permanent) : Permanent[k] \in Stayers
  /\ \A k, l \in 1..Len(Permanent) : Permanent[k] = Permanent[l] => k = l
  /\ \A p \in Stayers : p \notin Callers \X Nat /\ \E k \in 1..Len(Permanent) : p = Permanent[k]
BY PermanentAssumption DEF Stayers, ToSet

\* RemoveAt moves what comes after the index up by one.
LEMMA RemoveMovesUp ==
  ASSUME NEW S, NEW s \in Seq(S), NEW i \in 1..Len(s)
  PROVE  /\ RemoveAt(s, i) \in Seq(S) /\ Len(RemoveAt(s, i)) = Len(s) - 1
         /\ \A k \in 1..(Len(s) - 1) : RemoveAt(s, i)[k] = IF k < i THEN s[k] ELSE s[k + 1]
<1> DEFINE before == SubSeq(s, 1, i - 1)
           after == SubSeq(s, i + 1, Len(s))
<1>1. Len(s) \in Nat /\ i \in Nat /\ 1 <= i /\ i <= Len(s)
  OBVIOUS
<1>2. /\ before \in Seq(S) /\ Len(before) = i - 1
      /\ \A k \in 1..(i - 1) : before[k] = s[k]
  BY <1>1
<1>3. /\ after \in Seq(S) /\ Len(after) = Len(s) - i
      /\ \A k \in 1..(Len(s) - i) : after[k] = s[k + i]
  BY <1>1
<1>4. RemoveAt(s, i) = before \o after
  BY DEF RemoveAt
<1> HIDE DEF before, after
<1>5. /\ before \o after \in Seq(S) /\ Len(before \o after) = Len(s) - 1
      /\ \A k \in 1..(Len(s) - 1) : (before \o after)[k] = IF k < i THEN before[k] ELSE after[k - (i - 1)]
  BY <1>1, <1>2, <1>3
<1>6. ASSUME NEW k \in 1..(Len(s) - 1)
      PROVE  RemoveAt(s, i)[k] = IF k < i THEN s[k] ELSE s[k + 1]
  <2>1. CASE k < i
    BY <1>1, <1>2, <1>4, <1>5, <2>1
  <2>2. CASE ~(k < i)
    <3>1. k - (i - 1) \in 1..(Len(s) - i) /\ (k - (i - 1)) + i = k + 1
      BY <1>1, <2>2
    <3> QED
      BY <1>3, <1>4, <1>5, <2>2, <3>1
  <2> QED
    BY <2>1, <2>2
<1> QED
  BY <1>4, <1>5, <1>6

\* Nothing is heard before it is delivered.
LEMMA InitStayInv == FanOutInit => StayInv
<1> SUFFICES ASSUME FanOutInit PROVE StayInv
  OBVIOUS
<1>1. FanOutTypeOK
  <2>1. /\ subscribers \in Seq(Stayers \union (Callers \X Nat))
        /\ todo \in Seq(Stayers \union (Callers \X Nat))
    BY PermanentIsSeq DEF FanOutInit
  <2>2. settings \in BOOLEAN
    BY Zenon DEF FanOutInit
  <2>3. /\ step \in [Callers -> Nat] /\ idx \in [Callers -> Nat]
        /\ \A c \in Callers : step[c] <= Len(Script[c])
    BY ScriptAssumption DEF FanOutInit
  <2>4. /\ fate \in [Callers -> {"none", "taken", "echoed"}]
        /\ heard \in [Stayers -> Nat] /\ delivered \in 0..MaxEvents
    BY MaxEventsAssumption DEF FanOutInit
  <2> QED
    BY <2>1, <2>2, <2>3, <2>4 DEF FanOutInit, FanOutTypeOK
<1>2. PermanentFirst
  BY PermanentIsSeq DEF FanOutInit, PermanentFirst, Waiting
<1>3. DeliveryInv
  BY DEF FanOutInit, DeliveryInv
<1> QED
  BY <1>1, <1>2, <1>3 DEF StayInv

\* A caller that takes a step without waiting leaves the delivery alone.
LEMMA BetweenStays ==
  ASSUME StayInv, NEW c \in Callers, LockLive(c) \/ CheckSettings(c) \/ Abort(c) \/ SendMessage(c)
  PROVE  StayInv'
<1> USE DEF StayInv, wait, dispatch
<1>1. /\ UNCHANGED <<subscribers, idx, signalled, settings, current, todo, heard, delivered>>
      /\ step' = step \/ (step' = [step EXCEPT ![c] = @ + 1] /\ step[c] < Len(Script[c]))
  BY DEF LockLive, CheckSettings, Abort, SendMessage, Between
<1>2. step' \in [Callers -> Nat] /\ \A d \in Callers : step'[d] <= Len(Script[d])
  <2>1. /\ step \in [Callers -> Nat]
        /\ \A d \in Callers : step[d] <= Len(Script[d]) /\ Len(Script[d]) \in Nat
    BY ScriptAssumption DEF FanOutTypeOK
  <2> QED
    BY <1>1, <2>1
<1>3. /\ liveMu' \in Callers \union {Nobody} /\ checked' \subseteq Callers
      /\ fate' \in [Callers -> {"none", "taken", "echoed"}]
  BY DEF LockLive, CheckSettings, Abort, SendMessage, FanOutTypeOK
<1>4. FanOutTypeOK'
  BY <1>1, <1>2, <1>3 DEF FanOutTypeOK
<1>5. PermanentFirst' /\ DeliveryInv'
  BY <1>1 DEF PermanentFirst, Waiting, DeliveryInv, Reached
<1> QED
  BY <1>4, <1>5

\* A handler is appended to the subscribers.
LEMMA RegisterStays ==
  ASSUME StayInv, NEW c \in Callers, Register(c)
  PROVE  StayInv'
<1> USE DEF StayInv, dispatch
<1> DEFINE S == Stayers \union (Callers \X Nat)
<1>1. /\ subscribers' = Append(subscribers, Handler(c)') /\ subscribers \in Seq(S)
      /\ idx' = [idx EXCEPT ![c] = Len(subscribers) + 1] /\ idx \in [Callers -> Nat]
      /\ step' = [step EXCEPT ![c] = @ + 1] /\ step \in [Callers -> Nat]
      /\ step[c] < Len(Script[c]) /\ \A d \in Callers : step[d] <= Len(Script[d]) /\ Len(Script[d]) \in Nat
      /\ UNCHANGED <<checked, liveMu, settings, current, todo, heard, delivered, fate>>
  <2>1. \A d \in Callers : step[d] <= Len(Script[d]) /\ Len(Script[d]) \in Nat
    BY ScriptAssumption DEF FanOutTypeOK
  <2>2. step[c] < Len(Script[c])
    BY DEF Register, Between
  <2>3. subscribers \in Seq(S) /\ idx \in [Callers -> Nat] /\ step \in [Callers -> Nat]
    BY DEF FanOutTypeOK
  <2> QED
    BY <2>1, <2>2, <2>3 DEF Register
<1>2. Handler(c)' \in Callers \X Nat /\ Handler(c)' \in S
  BY <1>1 DEF Handler
<1> HIDE DEF S
<1>3. /\ subscribers' \in Seq(S) /\ Len(subscribers) \in Nat /\ Len(subscribers') = Len(subscribers) + 1
      /\ \A k \in 1..Len(subscribers) : subscribers'[k] = subscribers[k]
      /\ subscribers'[Len(subscribers) + 1] = Handler(c)'
  <2> DEFINE h == Handler(c)'
  <2>1. subscribers' = Append(subscribers, h) /\ subscribers \in Seq(S) /\ h \in S
    BY <1>1, <1>2
  <2> HIDE DEF h
  <2>2. /\ subscribers' \in Seq(S) /\ Len(subscribers) \in Nat /\ Len(subscribers') = Len(subscribers) + 1
        /\ \A k \in 1..Len(subscribers) : subscribers'[k] = subscribers[k]
        /\ subscribers'[Len(subscribers) + 1] = h
    BY <2>1
  <2> QED
    BY <2>2 DEF h
<1>4. /\ step' \in [Callers -> Nat] /\ \A d \in Callers : step'[d] <= Len(Script[d])
      /\ idx' \in [Callers -> Nat] /\ idx'[c] = Len(subscribers) + 1
      /\ \A d \in Callers : d # c => idx'[d] = idx[d]
  BY <1>1, <1>3
<1>5. FanOutTypeOK'
  <2>1. signalled' \subseteq Callers
    BY DEF Register, FanOutTypeOK
  <2> QED
    BY <1>1, <1>3, <1>4, <2>1 DEF FanOutTypeOK, S
<1>6. PermanentFirst'
  <2>1. Len(Permanent) \in Nat /\ Len(subscribers) >= Len(Permanent)
    BY PermanentIsSeq DEF PermanentFirst
  <2>2. \A k \in 1..Len(subscribers') : IF k <= Len(Permanent) THEN subscribers'[k] = Permanent[k]
                                                               ELSE subscribers'[k] \in Callers \X Nat
    BY <1>2, <1>3, <2>1 DEF PermanentFirst
  <2>3. \A d \in Callers : idx'[d] # 0 => idx'[d] > Len(Permanent)
    BY <1>3, <1>4, <2>1 DEF PermanentFirst, Waiting
  <2> QED
    BY <1>3, <2>1, <2>2, <2>3 DEF PermanentFirst, Waiting
<1>7. DeliveryInv'
  BY <1>1 DEF DeliveryInv, Reached
<1> QED
  BY <1>5, <1>6, <1>7

\* A handler is removed, whosever it is by now: it is no permanent one.
LEMMA EndWaitStays ==
  ASSUME StayInv, NEW c \in Callers, NEW ok \in BOOLEAN, EndWait(c, ok)
  PROVE  StayInv'
<1> USE DEF StayInv, dispatch
<1> DEFINE S == Stayers \union (Callers \X Nat)
<1>1. /\ idx' = [idx EXCEPT ![c] = 0] /\ idx \in [Callers -> Nat] /\ subscribers \in Seq(S)
      /\ UNCHANGED <<checked, signalled, settings, current, todo, heard, delivered, fate>>
      /\ RemoveHandler(c) /\ idx[c] \in Nat /\ idx[c] > Len(Permanent)
  BY DEF EndWait, FanOutTypeOK, PermanentFirst
<1> HIDE DEF S
<1>2. Len(subscribers) \in Nat /\ Len(Permanent) \in Nat /\ Len(subscribers) >= Len(Permanent)
  BY <1>1, PermanentIsSeq DEF PermanentFirst
<1>3. \/ subscribers' = subscribers
      \/ /\ subscribers' \in Seq(S) /\ Len(subscribers') = Len(subscribers) - 1 /\ idx[c] <= Len(subscribers)
         /\ \A k \in 1..(Len(subscribers) - 1) :
              subscribers'[k] = IF k < idx[c] THEN subscribers[k] ELSE subscribers[k + 1]
  <2>1. CASE idx[c] <= Len(subscribers)
    <3>1. idx[c] \in 1..Len(subscribers) /\ subscribers' = RemoveAt(subscribers, idx[c])
      BY <1>1, <1>2, <2>1 DEF RemoveHandler
    <3> QED
      BY <1>1, <2>1, <3>1, RemoveMovesUp
  <2>2. CASE ~(idx[c] <= Len(subscribers))
    BY <1>1, <2>2 DEF RemoveHandler
  <2> QED
    BY <2>1, <2>2
<1>4. FanOutTypeOK'
  <2>1. step' \in [Callers -> Nat] /\ \A d \in Callers : step'[d] <= Len(Script[d])
    BY ScriptAssumption DEF EndWait, FanOutTypeOK
  <2>2. subscribers' \in Seq(S)
    BY <1>1, <1>3
  <2>3. idx' \in [Callers -> Nat] /\ liveMu' \in Callers \union {Nobody}
    BY <1>1 DEF EndWait, FanOutTypeOK
  <2> QED
    BY <1>1, <2>1, <2>2, <2>3 DEF FanOutTypeOK, S
<1>5. PermanentFirst'
  <2>1. \A d \in Callers : idx'[d] # 0 => idx'[d] > Len(Permanent)
    BY <1>1 DEF PermanentFirst, Waiting
  <2>2. Len(subscribers') >= Len(Permanent)
        /\ \A k \in 1..Len(subscribers') : IF k <= Len(Permanent) THEN subscribers'[k] = Permanent[k]
                                                                  ELSE subscribers'[k] \in Callers \X Nat
    <3>1. CASE subscribers' = subscribers
      BY <3>1 DEF PermanentFirst
    <3>2. CASE ~(subscribers' = subscribers)
      <4>1. /\ Len(subscribers') = Len(subscribers) - 1 /\ idx[c] <= Len(subscribers)
            /\ \A k \in 1..(Len(subscribers) - 1) :
                 subscribers'[k] = IF k < idx[c] THEN subscribers[k] ELSE subscribers[k + 1]
        BY <1>3, <3>2
      <4>2. Len(subscribers') >= Len(Permanent)
        BY <1>1, <1>2, <4>1
      <4>3. ASSUME NEW k \in 1..(Len(subscribers) - 1)
            PROVE  IF k <= Len(Permanent) THEN subscribers'[k] = Permanent[k]
                                          ELSE subscribers'[k] \in Callers \X Nat
        <5>1. k \in 1..Len(subscribers) /\ k + 1 \in 1..Len(subscribers)
          BY <1>2
        <5>2. CASE k <= Len(Permanent)
          BY <1>1, <1>2, <4>1, <5>1, <5>2 DEF PermanentFirst
        <5>3. CASE ~(k <= Len(Permanent))
          <6>1. ~(k + 1 <= Len(Permanent))
            BY <1>2, <5>3
          <6> QED
            BY <4>1, <5>1, <5>3, <6>1 DEF PermanentFirst
        <5> QED
          BY <5>2, <5>3
      <4> QED
        BY <4>1, <4>2, <4>3
    <3> QED
      BY <3>1, <3>2
  <2> QED
    BY <2>1, <2>2 DEF PermanentFirst, Waiting
<1>6. DeliveryInv'
  BY <1>1 DEF DeliveryInv, Reached
<1> QED
  BY <1>4, <1>5, <1>6

\* An event is taken once the one before it has been handled by all, and the copy
\* begins with the permanent subscribers.
LEMMA DispatchStays ==
  ASSUME StayInv,
         NEW e \in Plain \union {Echo(c) : c \in Callers},
         Dispatch(e), UNCHANGED wait,
         fate' \in [Callers -> {"none", "taken", "echoed"}]
  PROVE  StayInv'
<1> USE DEF StayInv, wait
<1>1. current = Quiet /\ todo' = subscribers /\ current' = e /\ delivered' = delivered + 1
      /\ UNCHANGED <<subscribers, step, checked, idx, signalled, liveMu, heard>>
      /\ \A p \in Stayers : heard[p] = delivered
  BY DEF Dispatch, DeliveryInv
<1>2. FanOutTypeOK'
  <2>1. settings' \in BOOLEAN
    BY Zenon DEF Dispatch, FanOutTypeOK
  <2>2. delivered' \in 0..MaxEvents
    BY MaxEventsAssumption DEF Dispatch, FanOutTypeOK
  <2>3. current' \in Plain \union {Quiet} \union {Echo(c) : c \in Callers}
    BY <1>1
  <2> QED
    BY <1>1, <2>1, <2>2, <2>3 DEF FanOutTypeOK
<1>3. PermanentFirst'
  BY <1>1 DEF PermanentFirst, Waiting
<1>4. e # Quiet
  BY DEF Plain, Quiet, Echo
<1>5. Reached(0)'
  <2>1. \A k \in 1..Len(Permanent) : heard'[Permanent[k]] = delivered' - 1
    BY <1>1, PermanentIsSeq DEF FanOutTypeOK
  <2>2. Len(todo') >= Len(Permanent)
        /\ \A j \in 1..Len(todo') : IF j <= Len(Permanent) THEN todo'[j] = Permanent[j]
                                                           ELSE todo'[j] \in Callers \X Nat
    BY <1>1 DEF PermanentFirst
  <2> QED
    BY <2>1, <2>2, PermanentIsSeq DEF Reached
<1>6. DeliveryInv'
  BY <1>1, <1>4, <1>5, PermanentIsSeq DEF DeliveryInv
<1> QED
  BY <1>2, <1>3, <1>6

\* The next of the copy is called: the next permanent one, or a watcher.
LEMMA CallStays ==
  ASSUME StayInv, CallNext
  PROVE  StayInv'
<1> USE DEF StayInv
<1> DEFINE S == Stayers \union (Callers \X Nat)
           h == Head(todo)
<1>1. /\ todo \in Seq(S) /\ todo # <<>> /\ h \in S /\ h = todo[1] /\ todo' = Tail(todo)
      /\ todo' \in Seq(S) /\ Len(todo) \in Nat \ {0} /\ Len(todo') = Len(todo) - 1
      /\ \A j \in 1..Len(todo') : todo'[j] = todo[j + 1]
      /\ UNCHANGED <<subscribers, step, checked, idx, liveMu, settings, current, delivered, fate>>
  <2> HIDE DEF S
  <2>1. todo \in Seq(S) /\ todo # <<>> /\ todo' = Tail(todo)
    BY DEF CallNext, FanOutTypeOK, S
  <2>2. UNCHANGED <<subscribers, step, checked, idx, liveMu, settings, current, delivered, fate>>
    BY DEF CallNext
  <2> QED
    BY <2>1, <2>2
<1>2. h \in Callers \X Nat => h[1] \in Callers
  OBVIOUS
<1>3. FanOutTypeOK'
  <2>1. heard' \in [Stayers -> Nat]
    BY DEF CallNext, FanOutTypeOK
  <2>2. signalled' \subseteq Callers
    BY <1>1, <1>2 DEF CallNext, FanOutTypeOK
  <2> QED
    BY <1>1, <2>1, <2>2 DEF FanOutTypeOK
<1>4. PermanentFirst'
  BY <1>1 DEF PermanentFirst, Waiting
<1>5. DeliveryInv'
  <2>1. current # Quiet
    BY <1>1 DEF DeliveryInv
  <2>2. PICK n \in 0..Len(Permanent) : Reached(n)
    BY <2>1 DEF DeliveryInv
  <2>3. CASE n < Len(Permanent)
    <3>1. h = Permanent[n + 1] /\ n + 1 \in 1..Len(Permanent) /\ h \in Stayers
      BY <1>1, <2>2, <2>3, PermanentIsSeq DEF Reached
    <3>2. heard' = [heard EXCEPT ![h] = @ + 1]
      BY <3>1 DEF CallNext
    <3>3. \A k \in 1..Len(Permanent) :
             heard'[Permanent[k]] = IF k = n + 1 THEN heard[Permanent[k]] + 1 ELSE heard[Permanent[k]]
      BY <3>1, <3>2, PermanentIsSeq DEF FanOutTypeOK
    <3>4. \A k \in 1..Len(Permanent) :
             heard'[Permanent[k]] = IF k <= n + 1 THEN delivered' ELSE delivered' - 1
      <4>1. \A k \in 1..Len(Permanent) :
               heard[Permanent[k]] = IF k <= n THEN delivered ELSE delivered - 1
        BY <2>2 DEF Reached
      <4>2. delivered \in Nat /\ delivered' = delivered
        BY <1>1, MaxEventsAssumption DEF FanOutTypeOK
      <4>3. Len(Permanent) \in Nat
        BY PermanentIsSeq
      <4> SUFFICES ASSUME NEW k \in 1..Len(Permanent)
                   PROVE  heard'[Permanent[k]] = IF k <= n + 1 THEN delivered' ELSE delivered' - 1
        OBVIOUS
      <4>4. CASE k = n + 1
        BY <3>3, <4>1, <4>2, <4>3, <4>4
      <4>5. CASE k # n + 1
        BY <3>3, <4>1, <4>2, <4>3, <4>5
      <4> QED
        BY <4>4, <4>5
    <3>5. /\ Len(todo') >= Len(Permanent) - (n + 1)
          /\ \A j \in 1..Len(todo') : IF n + 1 + j <= Len(Permanent)
                                        THEN todo'[j] = Permanent[n + 1 + j]
                                        ELSE todo'[j] \in Callers \X Nat
      BY <1>1, <2>2, PermanentIsSeq DEF Reached
    <3>6. Reached(n + 1)'
      BY <3>4, <3>5 DEF Reached
    <3> QED
      BY <1>1, <2>1, <2>2, <3>1, <3>6, PermanentIsSeq DEF DeliveryInv
  <2>4. CASE n = Len(Permanent)
    <3>1. h \notin Stayers
      BY <1>1, <2>2, <2>4, PermanentIsSeq DEF Reached
    <3>2. UNCHANGED heard
      BY <3>1 DEF CallNext
    <3>3. /\ Len(todo') >= Len(Permanent) - n
          /\ \A j \in 1..Len(todo') : IF n + j <= Len(Permanent) THEN todo'[j] = Permanent[n + j]
                                                                 ELSE todo'[j] \in Callers \X Nat
      BY <1>1, <2>2, <2>4, PermanentIsSeq DEF Reached
    <3>4. Reached(n)'
      BY <1>1, <2>2, <3>2, <3>3 DEF Reached
    <3> QED
      BY <1>1, <2>1, <2>2, <3>4 DEF DeliveryInv
  <2>5. n < Len(Permanent) \/ n = Len(Permanent)
    <3>1. Len(Permanent) \in Nat
      BY PermanentIsSeq
    <3> QED
      BY <3>1
  <2> QED
    BY <2>3, <2>4, <2>5
<1> QED
  BY <1>3, <1>4, <1>5

\* When nothing of the copy is left, everybody has been called.
LEMMA DispatchEndStays ==
  ASSUME StayInv, DispatchEnd
  PROVE  StayInv'
<1> USE DEF StayInv, DispatchEnd, wait
<1>1. FanOutTypeOK'
  BY DEF FanOutTypeOK
<1>2. PermanentFirst'
  BY DEF PermanentFirst, Waiting
<1>3. DeliveryInv'
  <2>1. PICK n \in 0..Len(Permanent) : Reached(n)
    BY DEF DeliveryInv
  <2>2. n = Len(Permanent)
    <3>1. Len(Permanent) \in Nat /\ Len(todo) = 0 /\ Len(todo) >= Len(Permanent) - n
      BY <2>1, PermanentIsSeq DEF Reached
    <3> QED
      BY <3>1
  <2>3. \A p \in Stayers : heard[p] = delivered
    BY <2>1, <2>2, PermanentIsSeq DEF Reached
  <2> QED
    BY <2>3 DEF DeliveryInv
<1> QED
  BY <1>1, <1>2, <1>3

LEMMA NextStayInv == StayInv /\ [FanOutNext]_fanOutVars => StayInv'
<1> SUFFICES ASSUME StayInv, [FanOutNext]_fanOutVars PROVE StayInv'
  OBVIOUS
<1>1. ASSUME NEW c \in Callers,
             LockLive(c) \/ CheckSettings(c) \/ Register(c) \/ Abort(c) \/ SendMessage(c)
      PROVE  StayInv'
  BY <1>1, BetweenStays, RegisterStays
<1>2. ASSUME NEW c \in Callers, Wake(c) \/ GiveUp(c) PROVE StayInv'
  <2>1. \E ok \in BOOLEAN : EndWait(c, ok)
    BY <1>2 DEF Wake, GiveUp
  <2> QED
    BY <2>1, EndWaitStays
<1>3. ASSUME NEW c \in Callers, DispatchEcho(c) PROVE StayInv'
  <2>1. Dispatch(Echo(c)) /\ UNCHANGED wait /\ fate' \in [Callers -> {"none", "taken", "echoed"}]
    BY <1>3 DEF DispatchEcho, StayInv, FanOutTypeOK
  <2> QED
    BY <2>1, DispatchStays
<1>4. ASSUME NEW e \in Plain, DispatchPlain(e) PROVE StayInv'
  <2>1. Dispatch(e) /\ UNCHANGED wait /\ fate' \in [Callers -> {"none", "taken", "echoed"}]
    BY <1>4 DEF DispatchPlain, StayInv, FanOutTypeOK
  <2> QED
    BY <2>1, DispatchStays
<1>5. CASE CallNext \/ DispatchEnd
  BY <1>5, CallStays, DispatchEndStays
<1>6. CASE UNCHANGED fanOutVars
  BY <1>6 DEF fanOutVars, wait, dispatch, StayInv, FanOutTypeOK, PermanentFirst, DeliveryInv,
     Reached, Waiting
<1> QED
  BY <1>1, <1>2, <1>3, <1>4, <1>5, <1>6 DEF FanOutNext

LEMMA AlwaysStayInv == FanOutSpec => []StayInv
BY InitStayInv, NextStayInv, PTL DEF FanOutSpec

\* Every variable of the fan-out has its type, and nobody steps over the end of its script.
THEOREM FanOutTypeCorrect == FanOutSpec => []FanOutTypeOK
<1>1. StayInv => FanOutTypeOK
  BY DEF StayInv
<1> QED
  BY <1>1, AlwaysStayInv, PTL

\* gm.go dispatch: no permanent subscriber misses an event or gets it before those
\* subscribed earlier, for any number of subscribers and of watchers; under liveMu or not,
\* since an index that names a stranger names no permanent one.
THEOREM EventsHeard == FanOutSpec => []EveryEventIsHeard
<1>1. StayInv => EveryEventIsHeard
  <2> SUFFICES ASSUME StayInv PROVE EveryEventIsHeard
    OBVIOUS
  <2>1. CASE current = Quiet
    <3>1. \A p \in Stayers : heard[p] = delivered /\ delivered \in Nat
      BY <2>1, MaxEventsAssumption DEF StayInv, DeliveryInv, FanOutTypeOK
    <3> QED
      BY <3>1, PermanentIsSeq DEF EveryEventIsHeard
  <2>2. CASE current # Quiet
    <3>1. PICK n \in 0..Len(Permanent) : Reached(n)
      BY <2>2 DEF StayInv, DeliveryInv
    <3>2. delivered \in Nat
      BY MaxEventsAssumption DEF StayInv, FanOutTypeOK
    <3> QED
      BY <2>2, <3>1, <3>2, PermanentIsSeq DEF EveryEventIsHeard, Reached
  <2> QED
    BY <2>1, <2>2
<1> QED
  BY <1>1, AlwaysStayInv, PTL

-----------------------------------------------------------------------------
(***************************************************************************)
(* Watchers under liveMu                                                   *)
(***************************************************************************)

\* Under liveMu there is one watcher at most, and its handler comes last.
WaitInv ==
  /\ \A c \in Callers : Waiting(c) =>
       /\ liveMu = c /\ step[c] > 0 /\ idx[c] = Len(Permanent) + 1
       /\ subscribers = Append(Permanent, Handler(c))
  /\ (\A c \in Callers : ~Waiting(c)) => subscribers = Permanent

\* A message was sent in the wait for its echo; the echo has come to the handler, or
\* will: the handler is in what is left of dispatch's copy.
EchoInv == \A c \in Callers :
  /\ fate[c] # "none" => \E k \in 1..step[c] : Script[c][k] = "echo"
  /\ Waiting(c) /\ Awaited(c) = "echo" /\ fate[c] = "echoed" =>
       c \in signalled \/ (current = Echo(c) /\ \E j \in 1..Len(todo) : todo[j] = Handler(c))

FanOutInv == StayInv /\ WaitInv /\ EchoInv

\* Taking the last element off again.
LEMMA RemoveLast ==
  ASSUME NEW S, NEW s \in Seq(S), NEW x \in S
  PROVE  RemoveAt(Append(s, x), Len(s) + 1) = s
BY DEF RemoveAt

\* Nobody waits at first, and nothing was sent.
LEMMA InitFanOutInv == FanOutInit => FanOutInv
BY InitStayInv DEF FanOutInit, FanOutInv, WaitInv, EchoInv, Waiting

\* liveMu is taken while nobody waits.
LEMMA LockKeeps ==
  ASSUME FanOutInv, NEW c \in Callers, LockLive(c)
  PROVE  WaitInv' /\ EchoInv'
<1> USE DEF FanOutInv, LockLive, dispatch
<1>1. \A d \in Callers : ~Waiting(d)
  BY NobodyAssumption DEF WaitInv
<1>2. WaitInv'
  BY <1>1 DEF WaitInv, Waiting, Handler
<1>3. EchoInv'
  BY DEF EchoInv, Waiting, Awaited, Handler, Echo
<1> QED
  BY <1>2, <1>3

\* A caller between two waits is the only one at work.
LEMMA NobodyWaits ==
  ASSUME FanOutInv, Exclusive, NEW c \in Callers, Between(c)
  PROVE  /\ \A d \in Callers : ~Waiting(d)
         /\ subscribers = Permanent
         /\ step[c] + 1 <= Len(Script[c]) /\ step[c] \in Nat /\ Len(Script[c]) \in Nat
         /\ step[c] + 1 \in DOMAIN Script[c]
         /\ fate[c] # "none" => Upcoming(c) # "echo"
<1>1. \A d \in Callers : ~Waiting(d)
  BY DEF FanOutInv, WaitInv, Between
<1>2. step[c] + 1 <= Len(Script[c]) /\ step[c] \in Nat /\ Len(Script[c]) \in Nat
      /\ DOMAIN Script[c] = 1..Len(Script[c])
  BY ScriptAssumption DEF FanOutInv, StayInv, FanOutTypeOK, Between
<1>3. ASSUME fate[c] # "none", Upcoming(c) = "echo" PROVE FALSE
  <2>1. PICK k \in 1..step[c] : Script[c][k] = "echo"
    BY <1>3 DEF FanOutInv, EchoInv
  <2>2. k \in DOMAIN Script[c] /\ step[c] + 1 \in DOMAIN Script[c] /\ k # step[c] + 1
    BY <1>2
  <2>3. Script[c][step[c] + 1] = "echo"
    BY <1>3 DEF Upcoming
  <2> QED
    BY <2>1, <2>2, <2>3, ScriptAssumption
<1> QED
  BY <1>1, <1>2, <1>3 DEF FanOutInv, WaitInv

\* A caller between two waits sends nothing.
LEMMA BetweenKeeps ==
  ASSUME FanOutInv, Exclusive, NEW c \in Callers, CheckSettings(c) \/ Abort(c)
  PROVE  WaitInv' /\ EchoInv'
<1> USE DEF FanOutInv, dispatch
<1>1. Between(c)
  BY DEF CheckSettings, Abort
<1>2. /\ UNCHANGED <<subscribers, idx, signalled, settings, current, todo, heard, delivered, fate>>
      /\ step' = step \/ step' = [step EXCEPT ![c] = @ + 1]
  BY DEF CheckSettings, Abort
<1>3. WaitInv'
  BY <1>1, <1>2, NobodyWaits DEF WaitInv, Waiting
<1>4. \A d \in Callers : step'[d] >= step[d] /\ step[d] \in Nat /\ step'[d] \in Nat
  <2>1. step \in [Callers -> Nat]
    BY DEF StayInv, FanOutTypeOK
  <2> QED
    BY <1>2, <2>1
<1>5. EchoInv'
  BY <1>1, <1>2, <1>4, NobodyWaits DEF EchoInv, Waiting
<1> QED
  BY <1>3, <1>5

\* A handler is appended to the permanent subscribers; its echo is still to be sent.
LEMMA RegisterKeeps ==
  ASSUME FanOutInv, Exclusive, NEW c \in Callers, Register(c)
  PROVE  WaitInv' /\ EchoInv'
<1> USE DEF FanOutInv, StayInv, dispatch
<1>1. /\ \A d \in Callers : ~Waiting(d)
      /\ subscribers = Permanent
      /\ step[c] + 1 <= Len(Script[c]) /\ step[c] \in Nat
      /\ fate[c] # "none" => Upcoming(c) # "echo"
      /\ liveMu = c
  BY NobodyWaits DEF Register, Between
<1>2. step' = [step EXCEPT ![c] = @ + 1] /\ step'[c] = step[c] + 1 /\ Handler(c)' \in Callers \X Nat
  BY <1>1 DEF Register, FanOutTypeOK, Handler
<1>3. /\ subscribers' = Append(Permanent, Handler(c)')
      /\ idx' = [idx EXCEPT ![c] = Len(Permanent) + 1] /\ idx'[c] = Len(Permanent) + 1
      /\ UNCHANGED <<liveMu, settings, current, todo, heard, delivered, fate, checked>>
  BY <1>1 DEF Register, FanOutTypeOK
<1>5. \A d \in Callers : Waiting(d)' => d = c
  BY <1>1, <1>3 DEF Waiting, FanOutTypeOK
<1>6. WaitInv'
  <2>1. Waiting(c)'
    BY <1>3, PermanentIsSeq DEF Waiting
  <2> QED
    BY <1>1, <1>2, <1>3, <1>5, <2>1 DEF WaitInv
<1>7. EchoInv'
  <2> SUFFICES ASSUME NEW d \in Callers
               PROVE  /\ fate[d] # "none" => \E k \in 1..step'[d] : Script[d][k] = "echo"
                      /\ Waiting(d)' /\ Awaited(d)' = "echo" => fate[d] # "echoed"
    BY <1>3 DEF EchoInv
  <2>1. step'[d] >= step[d] /\ step[d] \in Nat /\ step'[d] \in Nat
    <3>1. step \in [Callers -> Nat]
      BY DEF FanOutTypeOK
    <3> QED
      BY <1>2, <3>1
  <2>2. Awaited(c)' = Upcoming(c)
    BY <1>2 DEF Awaited, Upcoming
  <2> QED
    BY <1>1, <1>5, <2>1, <2>2 DEF EchoInv
<1> QED
  BY <1>6, <1>7

\* The message goes out while its handler is in place.
LEMMA SendKeeps ==
  ASSUME FanOutInv, NEW c \in Callers, SendMessage(c)
  PROVE  WaitInv' /\ EchoInv'
<1> USE DEF FanOutInv, StayInv, SendMessage, wait, dispatch
<1>2. WaitInv'
  BY DEF WaitInv, Waiting, Handler
<1>3. EchoInv'
  <2>1. step[c] \in 1..step[c] /\ Script[c][step[c]] = "echo"
    BY DEF FanOutTypeOK, WaitInv, Awaited
  <2>2. fate' = [fate EXCEPT ![c] = "taken"] /\ UNCHANGED <<step, idx, signalled, current, todo>>
    OBVIOUS
  <2> SUFFICES ASSUME NEW d \in Callers
               PROVE  /\ fate'[d] # "none" => \E k \in 1..step[d] : Script[d][k] = "echo"
                      /\ Waiting(d) /\ Awaited(d) = "echo" /\ fate'[d] = "echoed" =>
                           d \in signalled
                             \/ (current = Echo(d) /\ \E j \in 1..Len(todo) : todo[j] = Handler(d))
    <3>1. \A d \in Callers : /\ (Waiting(d)' <=> Waiting(d)) /\ Awaited(d)' = Awaited(d)
                             /\ Handler(d)' = Handler(d) /\ Echo(d)' = Echo(d)
      BY <2>2 DEF Waiting, Awaited, Handler, Echo
    <3> QED
      BY <2>2, <3>1, Zenon DEF EchoInv
  <2>3. fate'[d] = IF d = c THEN "taken" ELSE fate[d]
    BY <2>2 DEF FanOutTypeOK
  <2> QED
    BY <2>1, <2>3 DEF EchoInv
<1> QED
  BY <1>2, <1>3

\* The watcher's handler is the last: it is the one that goes.
LEMMA EndWaitRemoves ==
  ASSUME FanOutInv, NEW c \in Callers, Waiting(c), RemoveHandler(c)
  PROVE  subscribers' = Permanent
<1>1. idx[c] = Len(Permanent) + 1 /\ subscribers = Append(Permanent, Handler(c))
  BY DEF FanOutInv, WaitInv
<1>2. Permanent \in Seq(Stayers \union {Handler(c)}) /\ Handler(c) \in Stayers \union {Handler(c)}
  BY PermanentIsSeq
<1>3. Len(subscribers) = Len(Permanent) + 1
  BY <1>1, <1>2
<1>4. RemoveAt(subscribers, idx[c]) = Permanent
  BY <1>1, <1>2, RemoveLast
<1> QED
  BY <1>1, <1>3, <1>4, PermanentIsSeq DEF RemoveHandler

\* Then nobody waits.
LEMMA EndWaitKeeps ==
  ASSUME FanOutInv, NEW c \in Callers, NEW ok \in BOOLEAN, EndWait(c, ok)
  PROVE  WaitInv' /\ EchoInv'
<1> USE DEF FanOutInv, StayInv, dispatch
<1>1. subscribers' = Permanent /\ idx' = [idx EXCEPT ![c] = 0]
      /\ UNCHANGED <<checked, signalled, settings, current, todo, heard, delivered, fate>>
  BY EndWaitRemoves DEF EndWait
<1>2. \A d \in Callers : ~Waiting(d)'
  BY <1>1 DEF EndWait, WaitInv, Waiting, FanOutTypeOK
<1>3. \A d \in Callers : step'[d] \in Nat /\ step[d] \in Nat /\ step'[d] >= step[d]
  BY ScriptAssumption DEF EndWait, FanOutTypeOK
<1>4. WaitInv'
  BY <1>1, <1>2 DEF WaitInv
<1>5. EchoInv'
  BY <1>1, <1>2, <1>3 DEF EchoInv
<1> QED
  BY <1>4, <1>5

\* An echo that is taken finds the handler of its watcher in the copy.
LEMMA DispatchKeeps ==
  ASSUME FanOutInv,
         NEW e \in Plain \union {Echo(c) : c \in Callers},
         Dispatch(e), UNCHANGED wait,
         \A c \in Callers : /\ fate'[c] # "none" <=> fate[c] # "none"
                            /\ fate'[c] = "echoed" => fate[c] = "echoed" \/ e = Echo(c)
  PROVE  WaitInv' /\ EchoInv'
<1> USE DEF FanOutInv, wait
<1>1. current = Quiet /\ todo' = subscribers /\ current' = e
      /\ UNCHANGED <<subscribers, step, checked, idx, signalled, liveMu>>
  BY DEF Dispatch
<1>3. WaitInv'
  BY <1>1 DEF WaitInv, Waiting, Handler
<1>4. EchoInv'
  <2> SUFFICES ASSUME NEW c \in Callers
               PROVE  /\ fate'[c] # "none" => \E k \in 1..step'[c] : Script[c][k] = "echo"
                      /\ Waiting(c)' /\ Awaited(c)' = "echo" /\ fate'[c] = "echoed" =>
                           \/ c \in signalled'
                           \/ current' = Echo(c) /\ \E j \in 1..Len(todo') : todo'[j] = Handler(c)'
    BY DEF EchoInv, Echo
  <2>1. Quiet # Echo(c)
    BY DEF Quiet, Echo
  <2>2. ASSUME Waiting(c), e = Echo(c)
        PROVE  current' = Echo(c) /\ \E j \in 1..Len(todo') : todo'[j] = Handler(c)'
    <3>1. todo' = Append(Permanent, Handler(c)) /\ Handler(c)' = Handler(c)
      BY <1>1, <2>2 DEF WaitInv, Handler
    <3>2. Permanent \in Seq(Stayers \union {Handler(c)}) /\ Len(Permanent) \in Nat
      BY PermanentIsSeq
    <3>3. Len(todo') = Len(Permanent) + 1 /\ todo'[Len(Permanent) + 1] = Handler(c)
      BY <3>1, <3>2
    <3>4. Len(Permanent) + 1 \in 1..Len(todo')
      BY <3>2, <3>3
    <3> QED
      BY <1>1, <2>2, <3>1, <3>3, <3>4
  <2> QED
    BY <1>1, <2>1, <2>2 DEF EchoInv, Waiting, Awaited
<1> QED
  BY <1>3, <1>4

\* A watcher that is called is told when the event is the one it waits for.
LEMMA CallKeeps ==
  ASSUME FanOutInv, CallNext
  PROVE  WaitInv' /\ EchoInv'
<1> USE DEF FanOutInv, StayInv
<1> DEFINE S == Stayers \union (Callers \X Nat)
           h == Head(todo)
<1>1. /\ todo \in Seq(S) /\ todo # <<>> /\ h \in S /\ h = todo[1] /\ todo' = Tail(todo)
      /\ todo' \in Seq(S) /\ Len(todo) \in Nat \ {0} /\ Len(todo') = Len(todo) - 1
      /\ \A j \in 1..Len(todo') : todo'[j] = todo[j + 1]
      /\ UNCHANGED <<subscribers, step, checked, idx, liveMu, settings, current, delivered, fate>>
  <2> HIDE DEF S
  <2>1. todo \in Seq(S) /\ todo # <<>> /\ todo' = Tail(todo)
    BY DEF CallNext, FanOutTypeOK, S
  <2>2. UNCHANGED <<subscribers, step, checked, idx, liveMu, settings, current, delivered, fate>>
    BY DEF CallNext
  <2> QED
    BY <2>1, <2>2
<1>2. h \in Callers \X Nat => h[1] \in Callers
  OBVIOUS
<1>4. WaitInv'
  BY <1>1 DEF WaitInv, Waiting, Handler
<1>5. signalled \subseteq signalled'
  BY DEF CallNext
<1>6. EchoInv'
  <2> SUFFICES ASSUME NEW c \in Callers, Waiting(c), Awaited(c) = "echo", fate[c] = "echoed"
               PROVE  \/ c \in signalled'
                      \/ current = Echo(c) /\ \E j \in 1..Len(todo') : todo'[j] = Handler(c)
    BY <1>1 DEF EchoInv, Waiting, Awaited, Handler, Echo
  <2>1. CASE c \in signalled
    BY <1>5, <2>1
  <2>2. ASSUME NEW j \in 1..Len(todo), current = Echo(c), todo[j] = Handler(c)
        PROVE  \/ c \in signalled'
               \/ current = Echo(c) /\ \E k \in 1..Len(todo') : todo'[k] = Handler(c)
    <3>1. CASE j = 1
      <4>1. h = Handler(c) /\ h[1] = c /\ h \in Callers \X Nat
        BY <1>1, <2>2, <3>1 DEF Handler, FanOutTypeOK
      <4>2. h \notin Stayers
        BY <4>1, PermanentIsSeq
      <4>3. Concerns(current, c)
        BY <2>2 DEF Concerns
      <4> QED
        BY <4>1, <4>2, <4>3 DEF CallNext
    <3>2. CASE j # 1
      <4>1. j - 1 \in 1..Len(todo') /\ todo'[j - 1] = todo[j]
        BY <1>1, <3>2
      <4> QED
        BY <2>2, <4>1
    <3> QED
      BY <3>1, <3>2
  <2> QED
    BY <2>1, <2>2 DEF EchoInv
<1> QED
  BY <1>4, <1>6

\* A copy that is used up holds nobody.
LEMMA DispatchEndKeeps ==
  ASSUME FanOutInv, DispatchEnd
  PROVE  WaitInv' /\ EchoInv'
<1> USE DEF FanOutInv, DispatchEnd, wait
<1>1. WaitInv'
  BY DEF WaitInv, Waiting, Handler
<1>2. EchoInv'
  <2>1. Len(todo) = 0
    OBVIOUS
  <2> QED
    BY <2>1 DEF EchoInv, Waiting, Awaited
<1> QED
  BY <1>1, <1>2

LEMMA NextFanOutInv ==
  ASSUME Exclusive
  PROVE  FanOutInv /\ [FanOutNext]_fanOutVars => FanOutInv'
<1> SUFFICES ASSUME FanOutInv, [FanOutNext]_fanOutVars PROVE WaitInv' /\ EchoInv'
  BY NextStayInv DEF FanOutInv
<1>1. ASSUME NEW c \in Callers,
             LockLive(c) \/ CheckSettings(c) \/ Register(c) \/ Abort(c) \/ SendMessage(c)
      PROVE  WaitInv' /\ EchoInv'
  BY <1>1, LockKeeps, BetweenKeeps, RegisterKeeps, SendKeeps
<1>2. ASSUME NEW c \in Callers, Wake(c) \/ GiveUp(c) PROVE WaitInv' /\ EchoInv'
  <2>1. \E ok \in BOOLEAN : EndWait(c, ok)
    BY <1>2 DEF Wake, GiveUp
  <2> QED
    BY <2>1, EndWaitKeeps
<1>3. ASSUME NEW c \in Callers, DispatchEcho(c) PROVE WaitInv' /\ EchoInv'
  <2>1. fate[c] = "taken" /\ fate' = [fate EXCEPT ![c] = "echoed"] /\ Dispatch(Echo(c))
        /\ UNCHANGED wait /\ fate \in [Callers -> {"none", "taken", "echoed"}]
    BY <1>3 DEF DispatchEcho, FanOutInv, StayInv, FanOutTypeOK
  <2>2. \A d \in Callers : /\ fate'[d] # "none" <=> fate[d] # "none"
                           /\ fate'[d] = "echoed" => fate[d] = "echoed" \/ Echo(c) = Echo(d)
    BY <2>1
  <2> QED
    BY <2>1, <2>2, DispatchKeeps
<1>4. ASSUME NEW e \in Plain, DispatchPlain(e) PROVE WaitInv' /\ EchoInv'
  BY <1>4, DispatchKeeps DEF DispatchPlain
<1>5. CASE CallNext \/ DispatchEnd
  BY <1>5, CallKeeps, DispatchEndKeeps
<1>6. CASE UNCHANGED fanOutVars
  BY <1>6 DEF fanOutVars, wait, dispatch, FanOutInv, WaitInv, EchoInv, Waiting, Awaited, Handler, Echo
<1> QED
  BY <1>1, <1>2, <1>3, <1>4, <1>5, <1>6 DEF FanOutNext

LEMMA FanOutIsRight ==
  ASSUME Exclusive
  PROVE  FanOutSpec => []FanOutInv
BY InitFanOutInv, NextFanOutInv, PTL DEF FanOutSpec

\* gm.go watchMessageEcho: a send whose message the phone echoed is told so, however
\* many sends and other calls want liveMu.
THEOREM EchoHeard ==
  ASSUME Exclusive
  PROVE  FanOutSpec => []EchoIsHeard
<1>1. FanOutInv => EchoIsHeard
  <2> SUFFICES ASSUME FanOutInv, NEW c \in Callers,
                      Waiting(c) /\ Awaited(c) = "echo" /\ fate[c] = "echoed" /\ current = Quiet
               PROVE  c \in signalled
    BY DEF EchoIsHeard
  <2>1. current # Echo(c)
    BY DEF Quiet, Echo
  <2> QED
    BY <2>1 DEF FanOutInv, EchoInv
<1> QED
  BY <1>1, FanOutIsRight, PTL

\* gm.go "Remove only our subscriber; preserve any added concurrently": true of watchers
\* that liveMu keeps apart.
THEOREM OnlyOwnRemoved ==
  ASSUME Exclusive
  PROVE  FanOutSpec => RemovesOnlyOwn
<1> DEFINE OnlyOwn == \A c \in Callers :
             Waiting(c) /\ idx'[c] = 0 => ToSet(subscribers) \ ToSet(subscribers') = {Handler(c)}
<1>1. FanOutInv /\ [FanOutNext]_fanOutVars => [OnlyOwn]_fanOutVars
  <2> SUFFICES ASSUME FanOutInv, FanOutNext, NEW c \in Callers, Waiting(c), idx'[c] = 0
               PROVE  ToSet(subscribers) \ ToSet(subscribers') = {Handler(c)}
    OBVIOUS
  <2>1. subscribers = Append(Permanent, Handler(c))
    BY DEF FanOutInv, WaitInv
  <2>2. subscribers' = Permanent
    <3>1. idx'[c] # idx[c]
      BY DEF Waiting
    <3>2. ASSUME NEW d \in Callers, EndWait(d, TRUE) \/ EndWait(d, FALSE) PROVE subscribers' = Permanent
      BY <3>2, EndWaitRemoves DEF EndWait
    <3>3. ASSUME NEW d \in Callers, Register(d) PROVE FALSE
      <4>1. \A b \in Callers : ~Waiting(b)
        BY <3>3, NobodyWaits DEF Register
      <4> QED
        BY <4>1
    <3> QED
      BY <3>1, <3>2, <3>3
      DEF FanOutNext, LockLive, CheckSettings, Abort, SendMessage, Wake, GiveUp, DispatchEcho,
          DispatchPlain, CallNext, DispatchEnd, wait
  <2>3. /\ Handler(c) \notin Stayers
        /\ Permanent \in Seq(Stayers \union {Handler(c)}) /\ Len(Permanent) \in Nat
    BY PermanentIsSeq DEF Handler, FanOutInv, StayInv, FanOutTypeOK
  <2>4. ToSet(Append(Permanent, Handler(c))) = Stayers \union {Handler(c)}
    <3> DEFINE s == Append(Permanent, Handler(c))
    <3>1. DOMAIN s = 1..Len(Permanent) + 1 /\ s[Len(Permanent) + 1] = Handler(c)
          /\ \A k \in 1..Len(Permanent) : s[k] = Permanent[k]
      BY <2>3
    <3> HIDE DEF s
    <3>2. ToSet(s) \subseteq Stayers \union {Handler(c)}
      BY <2>3, <3>1, PermanentIsSeq DEF ToSet
    <3>3. Stayers \union {Handler(c)} \subseteq ToSet(s)
      BY <2>3, <3>1, PermanentIsSeq DEF ToSet
    <3> QED
      BY <3>2, <3>3 DEF s
  <2> QED
    BY <2>1, <2>2, <2>3, <2>4 DEF Stayers
<1> QED
  BY <1>1, FanOutIsRight, PTL DEF FanOutSpec, RemovesOnlyOwn
=============================================================================
