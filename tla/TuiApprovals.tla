---------------------------- MODULE TuiApprovals ----------------------------
(***************************************************************************)
(* The approvals that gmtui shows (gmtui/src/app.rs), composed with the    *)
(* link they come over (TuiLink).                                          *)
(*                                                                         *)
(* The table of approvals is the daemon's store and outlives daemons.  A   *)
(* handler changes a row first and announces it afterwards, in a step of   *)
(* its own.  gmtui keeps a copy of the pending rows and a count of them:   *)
(* pushes change both, a fetched list replaces the first, a polled status  *)
(* the second, and a new link starts over with a fetch.  Nothing orders    *)
(* lists among each other or against the pushes, nor the handlers that     *)
(* announce one row.                                                       *)
(***************************************************************************)
EXTENDS TuiLink, FiniteSets

CONSTANTS
  Ids,       \* approvals
  Page,      \* the rows that fit into a list (limit)
  MaxKeys    \* bound on the keys that fetch the list

ASSUME IdsAssumption == IsFiniteSet(Ids)
ASSUME MaxKeysAssumption == MaxKeys \in Nat
ASSUME PageAssumption == Page \in Nat

VARIABLES
  row,         \* row[a]: "none", "queued", "direct" (both pending) or "resolved"
  owed,        \* announcements the handlers of the daemon have yet to make
  subscribed,  \* links the daemon has marked as subscribers
  pushed,      \* pushed[k]: events of link k the main loop has yet to handle
  asked,       \* links over which the list is being asked for
  answers,     \* lists on their way back
  list,        \* App.approvals
  count,       \* App.status.pending_approvals
  keys,
  late,        \* requests announced after their resolution, or that is not (history)
  unsure       \* approvals about which the list was overtaken (history)

table == <<row, owed>>
history == <<late, unsure>>
fetching == <<asked, answers>>
shown == <<list, count>>
lists == <<table, subscribed, pushed, fetching, shown, keys, history>>
allVars == <<vars, lists>>

Events == {"requested", "resolved"} \X Ids

Queued == {a \in Ids : row[a] = "queued"}
Waiting == {a \in Ids : row[a] \in {"queued", "direct"}}

\* The lists rs, when a newer one was asked for: if one of them is applied last, it says
\* nothing that is sure.
Overtaken(rs) == {[r EXCEPT !.passed = Ids] : r \in rs}

\* The lists on their way, when gmtui has news of a, or ought to have.
Passing(a) == {[r EXCEPT !.passed = @ \union {a}] : r \in answers}

-----------------------------------------------------------------------------
(***************************************************************************)
(* The daemon                                                              *)
(***************************************************************************)

\* send.text inserts a row; only an approving daemon announces it.
Create(a) ==
  /\ row[a] = "none"
  /\ \/ row' = [row EXCEPT ![a] = "queued"] /\ owed' = owed \union {<<"requested", a>>}
     \/ row' = [row EXCEPT ![a] = "direct"] /\ UNCHANGED owed
  /\ UNCHANGED <<vars, subscribed, pushed, fetching, shown, keys, history>>

\* The UPDATE of an approve, a deny or a direct send, from whatever client.
Resolve(a) ==
  /\ a \in Waiting
  /\ row' = [row EXCEPT ![a] = "resolved"]
  /\ owed' = owed \union {<<"resolved", a>>}
  /\ UNCHANGED <<vars, subscribed, pushed, fetching, shown, keys, history>>

\* Broadcast: every subscriber that is connected.  Another client may have resolved the
\* request, and that been announced, before the handler that made it gets here.
Broadcast(e) ==
  /\ e \in owed
  /\ owed' = owed \ {e}
  /\ pushed' = [k \in Links |-> IF link[k] = "open" /\ k \in subscribed
                                THEN Append(pushed[k], e) ELSE pushed[k]]
  /\ late' = late \union {a \in Ids : /\ e = <<"requested", a>> /\ row[a] = "resolved"
                                      /\ <<"resolved", a>> \notin owed}
  /\ UNCHANGED <<vars, row, subscribed, fetching, shown, keys, unsure>>

\* The row that was changed cannot be read back: the handler returns before the broadcast.
BroadcastFails(e) ==
  /\ e \in owed
  /\ owed' = owed \ {e}
  /\ late' = late \union {a \in Ids : e = <<"resolved", a>>}
  /\ unsure' = unsure \union {e[2]}
  /\ answers' = Passing(e[2])
  /\ UNCHANGED <<vars, row, subscribed, pushed, asked, shown, keys>>

\* The subscribe handler marks the connection; its reply comes later.
Mark ==
  /\ call[Subscribe] = "waiting" /\ link[on[Subscribe]] = "open"
  /\ subscribed' = subscribed \union {on[Subscribe]}
  /\ UNCHANGED <<vars, table, pushed, fetching, shown, keys, history>>

\* approvals.list: one statement reads a page of the pending rows.
Serve(k) ==
  /\ k \in asked /\ link[k] = "open"
  /\ asked' = asked \ {k}
  /\ \E rows \in SUBSET Waiting :
       /\ Cardinality(rows) = IF Cardinality(Waiting) > Page THEN Page ELSE Cardinality(Waiting)
       /\ answers' = Overtaken(answers)
                       \union {[on |-> k, rows |-> rows, passed |-> Waiting \ rows]}
  /\ UNCHANGED <<vars, table, subscribed, pushed, shown, keys, history>>

\* ... or fails to: gmtui says so, and keeps what it has.
ServeFails(k) ==
  /\ k \in asked /\ link[k] = "open"
  /\ asked' = asked \ {k}
  /\ answers' = Overtaken(answers)
  /\ unsure' = Ids
  /\ UNCHANGED <<vars, table, subscribed, pushed, shown, keys, late>>

\* The link has gone: the fetch fails, or its answer is not written any more.
FetchFails(k) ==
  /\ link[k] = "closed"
  /\ k \in asked \/ \E r \in answers : r.on = k
  /\ asked' = asked \ {k}
  /\ answers' = {r \in answers : r.on # k}
  /\ UNCHANGED <<vars, table, subscribed, pushed, shown, keys, history>>

-----------------------------------------------------------------------------
(***************************************************************************)
(* gmtui                                                                   *)
(***************************************************************************)

\* AppEvent::Approvals replaces the list.
Apply(r) ==
  /\ r \in answers
  /\ answers' = answers \ {r}
  /\ list' = r.rows
  /\ unsure' = r.passed
  /\ UNCHANGED <<vars, table, subscribed, pushed, asked, count, keys, late>>

\* approval.requested and approval.resolved, from whatever link they come.
Hear(k) ==
  /\ forwarder[k] = "on" /\ pushed[k] # <<>>
  /\ LET e == Head(pushed[k])
         stale == e[1] = "requested" /\ e[2] \in late
     IN  /\ list' = IF e[1] = "requested" THEN list \union {e[2]} ELSE list \ {e[2]}
         /\ unsure' = IF stale THEN unsure \union {e[2]} ELSE unsure \ {e[2]}
         /\ answers' = Passing(e[2])
  /\ count' = Cardinality(list')
  /\ pushed' = [pushed EXCEPT ![k] = Tail(@)]
  /\ UNCHANGED <<vars, table, subscribed, asked, keys, late>>

\* The keys a and r.
FetchKey ==
  /\ keys < MaxKeys
  /\ keys' = keys + 1
  /\ asked' = asked \union {rpc}
  /\ UNCHANGED <<vars, table, subscribed, pushed, answers, shown, history>>

\* Mutant: no status is polled.
PollNever == FALSE /\ UNCHANGED allVars

\* on_tick, every 40th time.  The answer is taken to come before anything else;
\* one that comes late is corrected by the next.
Poll ==
  /\ ~daemonLost /\ link[rpc] = "open"
  /\ count' = Cardinality(Waiting)
  /\ UNCHANGED <<vars, table, subscribed, pushed, fetching, list, keys, history>>

-----------------------------------------------------------------------------
(***************************************************************************)
(* The steps of the link                                                   *)
(***************************************************************************)

\* The reply to subscribe is written after the mark.
ReplyTo(c) ==
  /\ Reply(c)
  /\ c = Subscribe => on[c] \in subscribed
  /\ UNCHANGED lists

\* The forwarder hands on what was pushed before it tells of the end.
ForwardEnd(k) ==
  /\ Forward(k)
  /\ pushed[k] = <<>>
  /\ UNCHANGED lists

\* Mutant: a new link does not fetch what the old one missed.
AdoptOnly ==
  /\ Adopt
  /\ UNCHANGED lists

\* adopt_rpc: fetch_approvals over the new link.
AdoptAndFetch ==
  /\ Adopt
  /\ asked' = asked \union {rpc'}
  /\ UNCHANGED <<table, subscribed, pushed, answers, shown, keys, history>>

\* The handlers go with the daemon, the rows stay.
DieSilently ==
  /\ Die
  /\ owed' = {}
  /\ UNCHANGED <<row, subscribed, pushed, fetching, shown, keys, history>>

LinkStep ==
  /\ \/ \E c \in Calls : AppCall(c) \/ Send(c)
     \/ \E k \in Links : Drain(k)
     \/ Dial \/ Task
     \/ HearLoss
  /\ UNCHANGED lists

-----------------------------------------------------------------------------
\* gmtui has subscribed, and fetches at once.
ListsInit ==
  /\ Init
  /\ row = [a \in Ids |-> "none"]
  /\ owed = {}
  /\ subscribed = {1}
  /\ pushed = [k \in Links |-> <<>>]
  /\ asked = {1}
  /\ answers = {}
  /\ list = {} /\ count = 0
  /\ keys = 0
  /\ late = {} /\ unsure = {}

ListsNext ==
  \/ \E a \in Ids : Create(a) \/ Resolve(a)
  \/ \E e \in Events : Broadcast(e) \/ BroadcastFails(e)
  \/ Mark
  \/ \E k \in Links : Serve(k) \/ ServeFails(k) \/ FetchFails(k)
  \/ \E r \in answers : Apply(r)
  \/ \E k \in Links : Hear(k) \/ ForwardEnd(k)
  \/ FetchKey \/ Poll
  \/ \E c \in Calls : ReplyTo(c)
  \/ AdoptAndFetch \/ DieSilently \/ LinkStep

ListsSpec == ListsInit /\ [][ListsNext]_allVars

\* What handlers, tasks and the main loop do, once somebody has proposed, resolved, pressed
\* a key or gone away; it comes to an end.
Reaction ==
  \/ \E e \in Events : Broadcast(e) \/ BroadcastFails(e)
  \/ Mark
  \/ \E k \in Links : Serve(k) \/ ServeFails(k) \/ FetchFails(k)
  \/ \E r \in answers : Apply(r)
  \/ \E k \in Links : Hear(k) \/ ForwardEnd(k) \/ (Drain(k) /\ UNCHANGED lists)
  \/ (HearLoss /\ UNCHANGED lists) \/ AdoptAndFetch

(***************************************************************************)
(* As in TuiLink; handlers, tasks and the main loop go on, and the clock   *)
(* ticks.  Nobody is obliged to propose, resolve or press a key.           *)
(***************************************************************************)
ListsFairness ==
  /\ \A c \in Calls : WF_allVars((Send(c) /\ UNCHANGED lists) \/ ReplyTo(c))
  /\ WF_allVars(Reaction)
  /\ WF_allVars(Task /\ UNCHANGED lists) /\ SF_allVars(Dial /\ UNCHANGED lists)
  /\ WF_allVars(Poll)

ListsFairSpec == ListsSpec /\ ListsFairness

-----------------------------------------------------------------------------
(***************************************************************************)
(* Properties                                                              *)
(***************************************************************************)

Answers == [on : Links, rows : SUBSET Ids, passed : SUBSET Ids]

\* Every variable has its type.
ListsTypeOK ==
  /\ TypeOK
  /\ row \in [Ids -> {"none", "queued", "direct", "resolved"}]
  /\ owed \subseteq Events /\ subscribed \subseteq Links
  /\ pushed \in [Links -> Seq(Events)]
  /\ asked \subseteq Links
  /\ answers \subseteq Answers
  /\ list \subseteq Ids /\ count \in Nat /\ keys \in 0..MaxKeys
  /\ late \subseteq Ids /\ unsure \subseteq Ids

\* Nothing is on its way that will change the list: the link is the one in use
\* and open, and neither news nor a list is in flight.
AtRest ==
  /\ link[rpc] = "open" /\ task = "off" /\ queue = <<>>
  /\ owed = {} /\ \A k \in Links : forwarder[k] = "on" => pushed[k] = <<>>
  /\ rpc \notin asked /\ answers = {}

\* At rest the list is wrong only about an approval of which gmtui heard while the list
\* was on its way, that was announced after its resolution or not at all, or that the last
\* list left out, being full or failed or older than another.  Of all others it holds every request
\* that was announced and waits, and nothing that was resolved, whatever was announced
\* while a daemon died or gmtui had no link (adopt_rpc, "re-sync everything visible").
\* A row of a direct send is in it or not.
ListIsRight ==
  AtRest => Queued \ unsure \subseteq list /\ list \ unsure \subseteq Waiting

\* "Their send_text calls become pending approvals.  gmtui surfaces them live"
\* (gmtui/README.md:107): at rest every request that waits is in the list.
SurfacedLive == AtRest => Queued \subseteq list

\* "pending-approval counts stay honest" (on_tick): the count in the status bar
\* comes to be the number of pending rows, although pushes set it from a list
\* that may lack some, unless a daemon goes away while gmtui reconnects to it.
CountHeals == []~LostInReconnect => <>[](count = Cardinality(Waiting))
=============================================================================
