----------------------------- MODULE TuiScreen ------------------------------
(***************************************************************************)
(* The screen of gmtui (gmtui/src/app.rs): the omni search with its        *)
(* preview, the open thread, and the compose line.                         *)
(*                                                                         *)
(* Keys, ticks, replies and events reach the main loop one at a time.      *)
(* Every call runs in a task of its own, so replies come in any order, and *)
(* between any two keys.  A row of the result list is a chat or a message  *)
(* hit; which row is under the cursor after the list has changed is left   *)
(* open.  A thread is known by the chats whose messages the pane holds.    *)
(* Overlays only keep keys from the screen, and are left out.              *)
(***************************************************************************)
EXTENDS Naturals, FiniteSets

CONSTANTS
  Chats,
  Queries,
  Chars,       \* Chars[q]: characters of query q
  Launch,      \* the empty query
  Rows,        \* rows of the result list
  Hits,        \* those that are message hits
  ChatOf,      \* ChatOf[r]: the chat of row r
  None,
  CacheLimit,  \* previews the cache keeps before it is cleared (200)
  MaxKeys,     \* bound on the keys pressed
  MaxEvents    \* bound on what the daemon tells of itself

ASSUME QueryAssumption == /\ Chars \in [Queries -> Nat] /\ None \notin Queries
                          /\ Launch \in Queries /\ Chars[Launch] = 0
ASSUME RowAssumption == /\ ChatOf \in [Rows -> Chats] /\ Hits \subseteq Rows
                        /\ None \notin Rows \union Chats
ASSUME BoundsAssumption == CacheLimit \in Nat /\ MaxKeys \in Nat /\ MaxEvents \in Nat

VARIABLES
  focus,        \* App.focus
  back,         \* App.messages_back
  return,       \* App.compose_return
  query,        \* OmniState.input
  dirty,        \* OmniState.dirty
  generation,   \* OmniState.generation
  searching,    \* OmniState.searching
  hits,         \* the query whose hits msg_results holds, None without hits
  row,          \* the row under the cursor, None in an empty list
  previewKey,   \* OmniState.preview_key
  preview,      \* the row whose preview is shown, or None
  cache,        \* App.preview_cache
  current,      \* App.current_chat
  pane,         \* chats of App.messages
  searches,     \* searches in flight: <<generation, query>>
  previews,     \* previews[r]: calls in flight for the preview of row r
  shows,        \* shows[c]: calls of chats.show in flight
  contexts,     \* contexts[c]: calls of messages.context in flight
  missed,       \* chats whose last chats.show failed (history)
  composedFor,  \* the chat that was open when the compose line was (history)
  sent,         \* <<c, d>>: composed for c, sent to d (history)
  keys, events

omni == <<query, dirty, generation, searching, hits, row, searches>>
look == <<previewKey, preview, cache, previews>>
thread == <<current, pane, shows, missed>>
line == <<return, composedFor, sent>>
vars == <<focus, back, omni, look, thread, contexts, line, keys, events>>

Places == {"Omni", "Chats", "Messages", "Compose"}

RowsWith(h) == {None} \union {r \in Rows : r \in Hits => h # None}

Key == keys < MaxKeys /\ keys' = keys + 1 /\ UNCHANGED events
Event == events < MaxEvents /\ events' = events + 1 /\ UNCHANGED keys
Reply == UNCHANGED <<keys, events>>

-----------------------------------------------------------------------------
(***************************************************************************)
(* The omni search                                                         *)
(***************************************************************************)

\* refresh_omni_local: the chats are filtered at once; below three characters
\* there are no hits.
RefreshOmniLocal(q) ==
  /\ query' = q
  /\ dirty' = TRUE
  /\ hits' = IF Chars[q] < 3 THEN None ELSE hits
  /\ searching' = IF Chars[q] < 3 THEN FALSE ELSE searching
  /\ row' \in RowsWith(hits')
  /\ UNCHANGED <<generation, searches>>

EnterOmni == focus' = "Omni" /\ RefreshOmniLocal(query)

Type(q) ==
  /\ focus = "Omni"
  /\ RefreshOmniLocal(q)
  /\ Key /\ UNCHANGED <<focus, back, look, thread, contexts, line>>

OmniMove ==
  /\ focus = "Omni"
  /\ row' \in RowsWith(hits)
  /\ Key
  /\ UNCHANGED <<focus, back, query, dirty, generation, searching, hits, searches, look,
                 thread, contexts, line>>

\* dispatch_omni_search: below two characters there is nothing to ask.
DispatchOmniSearch ==
  /\ dirty' = FALSE
  /\ generation' = generation + 1
  /\ IF Chars[query] < 2
       THEN UNCHANGED <<searching, searches>>
       ELSE /\ searching' = TRUE
            /\ searches' = searches \union {<<generation', query>>}
  /\ UNCHANGED <<query, hits, row>>

\* Mutant: the old preview stays until the new one is there.
SyncPreviewKeeps ==
  IF focus # "Omni" \/ row = previewKey
    THEN UNCHANGED look
    ELSE /\ previewKey' = row
         /\ preview' = IF row = None \/ row \in cache THEN row ELSE preview
         /\ previews' = IF row = None \/ row \in cache THEN previews
                                                       ELSE [previews EXCEPT ![row] = @ + 1]
         /\ UNCHANGED cache

\* sync_preview: a preview that is not in the cache is asked for.
SyncPreview ==
  IF focus # "Omni" \/ row = previewKey
    THEN UNCHANGED look
    ELSE /\ previewKey' = row
         /\ preview' = IF row \in cache THEN row ELSE None
         /\ previews' = IF row = None \/ row \in cache THEN previews
                                                       ELSE [previews EXCEPT ![row] = @ + 1]
         /\ UNCHANGED cache

\* on_tick, which is the debounce.
Tick ==
  /\ IF dirty THEN DispatchOmniSearch ELSE UNCHANGED omni
  /\ SyncPreview
  /\ Reply /\ UNCHANGED <<focus, back, thread, contexts, line>>

\* Mutant: the generation of the answer is not looked at.
OmniResultsAny(s, found) ==
  /\ s \in searches
  /\ searches' = searches \ {s}
  /\ searching' = FALSE
  /\ hits' = IF found /\ Chars[s[2]] >= 3 THEN s[2] ELSE None
  /\ row' \in RowsWith(hits')
  /\ UNCHANGED <<query, dirty, generation>>
  /\ Reply /\ UNCHANGED <<focus, back, look, thread, contexts, line>>

\* AppEvent::OmniResults: "stale response from an older keystroke".  A search
\* that failed, or was too short for messages, has no hits.
OmniResults(s, found) ==
  /\ s \in searches
  /\ searches' = searches \ {s}
  /\ IF s[1] # generation
       THEN UNCHANGED <<searching, hits, row>>
       ELSE /\ searching' = FALSE
            /\ hits' = IF found /\ Chars[s[2]] >= 3 THEN s[2] ELSE None
            /\ row' \in RowsWith(hits')
  /\ UNCHANGED <<query, dirty, generation>>
  /\ Reply /\ UNCHANGED <<focus, back, look, thread, contexts, line>>

\* AppEvent::OmniPreview; a call that failed gives an empty preview.
OmniPreview(r) ==
  /\ previews[r] > 0
  /\ previews' = [previews EXCEPT ![r] = @ - 1]
  /\ cache' = {r} \union (IF Cardinality(cache) > CacheLimit THEN {} ELSE cache)
  /\ preview' = IF previewKey = r THEN r ELSE preview
  /\ Reply /\ UNCHANGED <<focus, back, omni, previewKey, thread, contexts, line>>

-----------------------------------------------------------------------------
(***************************************************************************)
(* The thread                                                              *)
(***************************************************************************)

\* open_chat
OpenChat(c) ==
  /\ current' = c
  /\ shows' = [shows EXCEPT ![c] = @ + 1]
  /\ UNCHANGED <<pane, missed>>

\* omni_activate: a chat is opened; a hit is, when its context comes.
OmniActivate ==
  /\ focus = "Omni" /\ row # None
  /\ IF row \in Hits
       THEN contexts' = [contexts EXCEPT ![ChatOf[row]] = @ + 1] /\ UNCHANGED thread
       ELSE OpenChat(ChatOf[row]) /\ UNCHANGED contexts
  /\ back' = "Omni" /\ focus' = "Messages"
  /\ Key /\ UNCHANGED <<omni, look, line>>

OpenSelected(c) ==
  /\ focus = "Chats"
  /\ OpenChat(c)
  /\ back' = "Chats" /\ focus' = "Messages"
  /\ Key /\ UNCHANGED <<omni, look, contexts, line>>

Reload ==
  /\ focus = "Messages" /\ current # None
  /\ OpenChat(current)
  /\ Key /\ UNCHANGED <<focus, back, omni, look, contexts, line>>

\* Mutant: whatever thread comes is shown.
MessagesAny(c) ==
  /\ shows[c] > 0
  /\ shows' = [shows EXCEPT ![c] = @ - 1]
  /\ pane' = {c}
  /\ missed' = missed \ {c}
  /\ Reply /\ UNCHANGED <<focus, back, omni, look, current, contexts, line>>

\* AppEvent::Messages, for the chat that is open.
Messages(c) ==
  /\ shows[c] > 0
  /\ shows' = [shows EXCEPT ![c] = @ - 1]
  /\ pane' = IF current = c THEN {c} ELSE pane
  /\ missed' = missed \ {c}
  /\ Reply /\ UNCHANGED <<focus, back, omni, look, current, contexts, line>>

ShowFails(c) ==
  /\ shows[c] > 0
  /\ shows' = [shows EXCEPT ![c] = @ - 1]
  /\ missed' = missed \union {c}
  /\ Reply /\ UNCHANGED <<focus, back, omni, look, current, pane, contexts, line>>

\* Mutant: the focus stays where it is.
ContextKeepsFocus(c) ==
  /\ contexts[c] > 0
  /\ contexts' = [contexts EXCEPT ![c] = @ - 1]
  /\ current' = c /\ pane' = {c}
  /\ Reply /\ UNCHANGED <<focus, back, omni, look, shows, missed, line>>

\* AppEvent::Context opens its chat, whatever is open by now.
Context(c) ==
  /\ contexts[c] > 0
  /\ contexts' = [contexts EXCEPT ![c] = @ - 1]
  /\ current' = c /\ pane' = {c}
  /\ focus' = "Messages"
  /\ Reply /\ UNCHANGED <<back, omni, look, shows, missed, line>>

ContextFails(c) ==
  /\ contexts[c] > 0
  /\ contexts' = [contexts EXCEPT ![c] = @ - 1]
  /\ Reply /\ UNCHANGED <<focus, back, omni, look, thread, line>>

-----------------------------------------------------------------------------
(***************************************************************************)
(* The compose line, and the focus                                         *)
(***************************************************************************)

EnterCompose(place) ==
  /\ focus' = "Compose"
  /\ composedFor' = current'
  /\ return' = place
  /\ UNCHANGED sent

\* "Compose to the selected chat, opening it first if needed."
ComposeToSelected(c) ==
  /\ focus = "Chats"
  /\ IF current = c THEN UNCHANGED thread ELSE OpenChat(c)
  /\ EnterCompose("Chats")
  /\ Key /\ UNCHANGED <<back, omni, look, contexts>>

ComposeHere ==
  /\ focus = "Messages" /\ current # None
  /\ UNCHANGED thread
  /\ EnterCompose("Messages")
  /\ Key /\ UNCHANGED <<back, omni, look, contexts>>

\* Enter sends what was typed to the chat that is open; Esc, and Enter on an
\* empty line, send nothing.
Submit ==
  /\ focus = "Compose"
  /\ focus' = return
  /\ sent' = IF current = None THEN sent ELSE sent \union {<<composedFor, current>>}
  /\ Key /\ UNCHANGED <<back, omni, look, thread, contexts, return, composedFor>>

LeaveCompose ==
  /\ focus = "Compose"
  /\ focus' = return
  /\ Key /\ UNCHANGED <<back, omni, look, thread, contexts, line>>

\* Esc and Tab between the panes.
Leave ==
  /\ \/ focus = "Omni" /\ focus' = "Chats"
     \/ focus = "Chats" /\ focus' = "Messages"
     \/ focus = "Messages" /\ focus' = "Chats"
  /\ Key /\ UNCHANGED <<back, omni, look, thread, contexts, line>>

\* Esc from a thread.
Back ==
  /\ focus = "Messages"
  /\ IF back = "Omni" THEN EnterOmni ELSE focus' = back /\ UNCHANGED omni
  /\ Key /\ UNCHANGED <<back, look, thread, contexts, line>>

\* `/`
ToOmni ==
  /\ focus \in {"Chats", "Messages"}
  /\ EnterOmni
  /\ Key /\ UNCHANGED <<back, look, thread, contexts, line>>

-----------------------------------------------------------------------------
(***************************************************************************)
(* What the daemon tells                                                   *)
(***************************************************************************)

\* apply_incoming_message: it enters the pane if its chat is open.
MessageNew(c) ==
  /\ pane' = IF current = c THEN pane \union {c} ELSE pane
  /\ Event /\ UNCHANGED <<focus, back, omni, look, current, shows, missed, contexts, line>>

\* The list of chats changes, and with it the recents of the launch screen.
ChatsChange ==
  /\ focus = "Omni" /\ query = Launch
  /\ row' \in RowsWith(hits)
  /\ Event
  /\ UNCHANGED <<focus, back, query, dirty, generation, searching, hits, searches, look,
                 thread, contexts, line>>

\* sync.status "refreshed": everything visible is fetched again.
Refreshed ==
  /\ cache' = {}
  /\ IF current = None THEN UNCHANGED thread ELSE OpenChat(current)
  /\ Event
  /\ UNCHANGED <<focus, back, omni, previewKey, preview, previews, contexts, line>>

\* adopt_rpc
AdoptRpc ==
  /\ cache' = {}
  /\ Event
  /\ UNCHANGED <<focus, back, omni, previewKey, preview, previews, thread, contexts, line>>

-----------------------------------------------------------------------------
Init ==
  /\ focus = "Omni" /\ back = "Omni" /\ return = "Omni"
  /\ query = Launch /\ dirty = FALSE /\ generation = 0 /\ searching = FALSE
  /\ hits = None /\ row = None /\ searches = {}
  /\ previewKey = None /\ preview = None /\ cache = {}
  /\ previews = [r \in Rows |-> 0]
  /\ current = None /\ pane = {}
  /\ shows = [c \in Chats |-> 0] /\ contexts = [c \in Chats |-> 0]
  /\ missed = {} /\ composedFor = None /\ sent = {}
  /\ keys = 0 /\ events = 0

Next ==
  \/ \E q \in Queries : Type(q)
  \/ OmniMove \/ OmniActivate \/ Reload \/ ComposeHere \/ Submit \/ LeaveCompose
  \/ Leave \/ Back \/ ToOmni
  \/ Tick
  \/ \E s \in searches, found \in BOOLEAN : OmniResults(s, found)
  \/ \E r \in Rows : OmniPreview(r)
  \/ \E c \in Chats :
       \/ OpenSelected(c) \/ ComposeToSelected(c)
       \/ Messages(c) \/ ShowFails(c) \/ Context(c) \/ ContextFails(c) \/ MessageNew(c)
  \/ ChatsChange \/ Refreshed \/ AdoptRpc

Spec == Init /\ [][Next]_vars

-----------------------------------------------------------------------------
(***************************************************************************)
(* Properties                                                              *)
(***************************************************************************)

\* Every variable has its type, and the cursor is on a row that can be there.
TypeOK ==
  /\ focus \in Places /\ back \in Places \ {"Compose"} /\ return \in Places \ {"Compose"}
  /\ query \in Queries /\ dirty \in BOOLEAN /\ searching \in BOOLEAN
  /\ generation \in Nat /\ searches \subseteq Nat \X Queries
  /\ hits \in Queries \union {None} /\ row \in RowsWith(hits)
  /\ previewKey \in Rows \union {None} /\ preview \in Rows \union {None}
  /\ cache \subseteq Rows /\ previews \in [Rows -> Nat]
  /\ current \in Chats \union {None} /\ pane \subseteq Chats
  /\ shows \in [Chats -> Nat] /\ contexts \in [Chats -> Nat] /\ missed \subseteq Chats
  /\ composedFor \in Chats \union {None} /\ sent \subseteq Chats \X Chats
  /\ keys \in 0..MaxKeys /\ events \in 0..MaxEvents

\* A message goes to the chat the compose line was opened for, however late the
\* context of a hit opens another chat (handle_compose_key sends to whatever is
\* open).
SentWhereComposed == \A s \in sent : s[1] = s[2]

\* The pane shows the thread of the chat that is open, unless that thread is on
\* its way or could not be had: of the threads asked for, the last one stays.
PaneIsCurrent ==
  current # None => pane \subseteq {current} \/ shows[current] > 0 \/ current \in missed

\* "a generation counter so stale responses never clobber fresh ones"
\* (app.rs:8): once a query of two characters or more is answered, the hits are
\* its own; and the search indicator is on only while an answer is to come.
SearchSettles ==
  LET pending == dirty \/ \E q \in Queries : <<generation, q>> \in searches
  IN  /\ searching => pending
      /\ Chars[query] >= 2 => pending \/ hits \in {None, query}

\* The preview is that of the row the pane stands for, and is on its way if it
\* is not there, however often rows and cache change meanwhile.
PreviewComes ==
  /\ preview \in {None, previewKey}
  /\ previewKey # None /\ preview = None => previews[previewKey] > 0
=============================================================================
