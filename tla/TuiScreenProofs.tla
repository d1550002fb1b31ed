-------------------------- MODULE TuiScreenProofs ---------------------------
(***************************************************************************)
(* The invariants of TuiScreen, for any number of chats, queries and rows, *)
(* any number of keys and events, and answers in any order.                *)
(***************************************************************************)
EXTENDS TuiScreen, TLAPS

\* While somebody composes, the chat is the one the line was opened for: what
\* opens another chat takes the focus.
Composing == focus = "Compose" => current = composedFor /\ current # None

\* No search is of a later generation than the current one.  The one of the
\* current generation asks for the query, unless the query has changed since; and
\* a query of less than three characters puts the indicator out.
Searched ==
  /\ \A s \in searches : s[1] <= generation
  /\ ~dirty => \A s \in searches : s[1] = generation => s[2] = query
  /\ dirty /\ Chars[query] < 3 => ~searching

IInv ==
  /\ TypeOK
  /\ Composing /\ SentWhereComposed
  /\ PaneIsCurrent
  /\ Searched /\ SearchSettles
  /\ PreviewComes

\* The four parts of IInv, each with what a step must leave alone to keep it.
LEMMA LineKept ==
  ASSUME IInv, UNCHANGED <<current, composedFor, sent>>, focus' = "Compose" => focus = "Compose"
  PROVE  Composing' /\ SentWhereComposed'
  BY DEF IInv, Composing, SentWhereComposed

LEMMA ThreadKept ==
  ASSUME IInv, UNCHANGED <<current, pane, shows, missed>>
  PROVE  PaneIsCurrent'
  BY DEF IInv, PaneIsCurrent

LEMMA SearchKept ==
  ASSUME IInv, UNCHANGED <<query, dirty, generation, searching, hits, searches>>
  PROVE  Searched' /\ SearchSettles'
  BY DEF IInv, Searched, SearchSettles

LEMMA LookKept ==
  ASSUME IInv, UNCHANGED <<previewKey, preview, previews>>
  PROVE  PreviewComes'
  BY DEF IInv, PreviewComes

\* The chat that is opened is on its way.
LEMMA Opening ==
  ASSUME IInv, NEW c \in Chats, OpenChat(c)
  PROVE  /\ current' \in Chats /\ pane' \subseteq Chats /\ missed' \subseteq Chats
         /\ shows' \in [Chats -> Nat]
         /\ PaneIsCurrent'
  BY DEF IInv, TypeOK, OpenChat, PaneIsCurrent

\* A change of the query, which leaves it to the next tick to search.
LEMMA Filtering ==
  ASSUME IInv, NEW q \in Queries, RefreshOmniLocal(q)
  PROVE  /\ query' \in Queries /\ dirty' \in BOOLEAN /\ searching' \in BOOLEAN
         /\ generation' \in Nat /\ searches' \subseteq Nat \X Queries
         /\ hits' \in Queries \union {None} /\ row' \in RowsWith(hits')
         /\ Searched' /\ SearchSettles'
<1> USE QueryAssumption
<1>1. /\ query' = q /\ dirty' = TRUE /\ generation' = generation /\ searches' = searches
      /\ row' \in RowsWith(hits')
      /\ Chars[q] < 3 => hits' = None /\ searching' = FALSE
      /\ ~(Chars[q] < 3) => hits' = hits /\ searching' = searching
  BY DEF RefreshOmniLocal
<1>2. hits' \in Queries \union {None} /\ searching' \in BOOLEAN
  BY <1>1 DEF IInv, TypeOK
<1>3. Searched' /\ SearchSettles'
  BY <1>1 DEF IInv, Searched, SearchSettles
<1> QED
  BY <1>1, <1>2, <1>3 DEF IInv, TypeOK

\* Keys in the search, in the lists and in the thread.
Browsing ==
  \/ \E q \in Queries : Type(q)
  \/ OmniMove \/ OmniActivate \/ Reload \/ Leave \/ Back \/ ToOmni
  \/ \E c \in Chats : OpenSelected(c)

LEMMA BrowsingKeeps ==
  ASSUME IInv, Browsing
  PROVE  IInv'
<1> USE QueryAssumption, RowAssumption, BoundsAssumption DEF Places, Key, omni, look, thread, line
<1>1. ASSUME NEW q \in Queries, Type(q) PROVE IInv'
  <2>1. TypeOK' /\ Searched' /\ SearchSettles'
    BY <1>1, Filtering DEF Type, IInv, TypeOK
  <2> QED
    BY <1>1, <2>1, LineKept, ThreadKept, LookKept DEF Type, IInv
<1>2. ASSUME OmniMove PROVE IInv'
  <2>1. TypeOK'
    BY <1>2 DEF OmniMove, IInv, TypeOK
  <2> QED
    BY <1>2, <2>1, LineKept, ThreadKept, SearchKept, LookKept DEF OmniMove, IInv
<1>3. ASSUME OmniActivate PROVE IInv'
  <2>1. row \in Rows /\ ChatOf[row] \in Chats
    BY <1>3 DEF OmniActivate, IInv, TypeOK, RowsWith
  <2>2. /\ focus' = "Messages" /\ back' = "Omni" /\ keys' \in 0..MaxKeys
        /\ UNCHANGED <<events, omni, look, line>>
    BY <1>3 DEF OmniActivate, IInv, TypeOK
  <2>3. /\ current' \in Chats \union {None} /\ pane' \subseteq Chats /\ missed' \subseteq Chats
        /\ shows' \in [Chats -> Nat] /\ contexts' \in [Chats -> Nat] /\ PaneIsCurrent'
    <3>1. CASE row \in Hits
      BY <1>3, <2>1, <3>1, ThreadKept DEF OmniActivate, IInv, TypeOK
    <3>2. CASE row \notin Hits
      BY <1>3, <2>1, <3>2, Opening DEF OmniActivate, IInv, TypeOK
    <3> QED
      BY <3>1, <3>2
  <2>4. TypeOK' /\ Composing' /\ SentWhereComposed'
    BY <2>2, <2>3 DEF IInv, TypeOK, Composing, SentWhereComposed, RowsWith
  <2> QED
    BY <2>2, <2>3, <2>4, SearchKept, LookKept DEF IInv
<1>4. ASSUME Reload PROVE IInv'
  <2>1. current \in Chats
    BY <1>4 DEF Reload, IInv, TypeOK
  <2>2. TypeOK' /\ PaneIsCurrent'
    BY <1>4, <2>1, Opening DEF Reload, IInv, TypeOK
  <2>3. Composing' /\ SentWhereComposed'
    BY <1>4, <2>1 DEF Reload, OpenChat, IInv, Composing, SentWhereComposed
  <2> QED
    BY <1>4, <2>2, <2>3, SearchKept, LookKept DEF Reload, IInv
<1>5. ASSUME Leave PROVE IInv'
  <2>1. TypeOK'
    BY <1>5 DEF Leave, IInv, TypeOK
  <2>2. Composing' /\ SentWhereComposed'
    BY <1>5, LineKept DEF Leave
  <2> QED
    BY <1>5, <2>1, <2>2, ThreadKept, SearchKept, LookKept DEF Leave, IInv
<1>6. ASSUME EnterOmni, Key, UNCHANGED <<back, look, thread, contexts, line>> PROVE IInv'
  <2>1. TypeOK' /\ Searched' /\ SearchSettles'
    BY <1>6, Filtering DEF EnterOmni, IInv, TypeOK
  <2> QED
    BY <1>6, <2>1, LineKept, ThreadKept, LookKept DEF EnterOmni, IInv
<1>7. ASSUME Back PROVE IInv'
  <2>1. CASE back = "Omni"
    BY <1>6, <1>7, <2>1 DEF Back
  <2>2. CASE back # "Omni"
    <3>1. TypeOK'
      BY <1>7, <2>2 DEF Back, IInv, TypeOK
    <3>2. focus' # "Compose"
      BY <1>7, <2>2 DEF Back, IInv, TypeOK
    <3> QED
      BY <1>7, <2>2, <3>1, <3>2, LineKept, ThreadKept, SearchKept, LookKept DEF Back, IInv
  <2> QED
    BY <2>1, <2>2
<1>8. ASSUME ToOmni PROVE IInv'
  BY <1>6, <1>8 DEF ToOmni
<1>9. ASSUME NEW c \in Chats, OpenSelected(c) PROVE IInv'
  <2>1. TypeOK' /\ PaneIsCurrent'
    BY <1>9, Opening DEF OpenSelected, IInv, TypeOK
  <2>2. Composing' /\ SentWhereComposed'
    BY <1>9 DEF OpenSelected, IInv, Composing, SentWhereComposed
  <2> QED
    BY <1>9, <2>1, <2>2, SearchKept, LookKept DEF OpenSelected, IInv
<1> QED
  BY <1>1, <1>2, <1>3, <1>4, <1>5, <1>7, <1>8, <1>9 DEF Browsing

\* The compose line.
Writing == ComposeHere \/ Submit \/ LeaveCompose \/ \E c \in Chats : ComposeToSelected(c)

LEMMA WritingKeeps ==
  ASSUME IInv, Writing
  PROVE  IInv'
<1> USE RowAssumption, BoundsAssumption DEF Places, Key, omni, look, thread, line
<1>1. ASSUME ComposeHere PROVE IInv'
  <2>1. TypeOK'
    BY <1>1 DEF ComposeHere, EnterCompose, IInv, TypeOK
  <2>2. Composing' /\ SentWhereComposed'
    BY <1>1 DEF ComposeHere, EnterCompose, IInv, Composing, SentWhereComposed
  <2> QED
    BY <1>1, <2>1, <2>2, ThreadKept, SearchKept, LookKept DEF ComposeHere, IInv
<1>2. ASSUME NEW c \in Chats, ComposeToSelected(c) PROVE IInv'
  <2>1. /\ current' = c /\ pane' \subseteq Chats /\ missed' \subseteq Chats
        /\ shows' \in [Chats -> Nat] /\ PaneIsCurrent'
    <3>1. CASE current = c
      BY <1>2, <3>1, ThreadKept DEF ComposeToSelected, IInv, TypeOK
    <3>2. CASE current # c
      BY <1>2, <3>2, Opening DEF ComposeToSelected, OpenChat
    <3> QED
      BY <3>1, <3>2
  <2>2. TypeOK'
    BY <1>2, <2>1 DEF ComposeToSelected, EnterCompose, IInv, TypeOK
  <2>3. Composing' /\ SentWhereComposed'
    BY <1>2, <2>1 DEF ComposeToSelected, EnterCompose, IInv, Composing, SentWhereComposed
  <2> QED
    BY <1>2, <2>1, <2>2, <2>3, SearchKept, LookKept DEF ComposeToSelected, IInv
<1>3. ASSUME Submit PROVE IInv'
  <2>1. current = composedFor /\ current \in Chats /\ sent' = sent \union {<<composedFor, current>>}
    BY <1>3 DEF Submit, IInv, TypeOK, Composing
  <2>2. TypeOK'
    BY <1>3, <2>1 DEF Submit, IInv, TypeOK
  <2>3. Composing' /\ SentWhereComposed'
    BY <1>3, <2>1 DEF Submit, IInv, TypeOK, Composing, SentWhereComposed
  <2> QED
    BY <1>3, <2>2, <2>3, ThreadKept, SearchKept, LookKept DEF Submit, IInv
<1>4. ASSUME LeaveCompose PROVE IInv'
  <2>1. TypeOK'
    BY <1>4 DEF LeaveCompose, IInv, TypeOK
  <2> QED
    BY <1>4, <2>1, LineKept, ThreadKept, SearchKept, LookKept DEF LeaveCompose, IInv
<1> QED
  BY <1>1, <1>2, <1>3, <1>4 DEF Writing

\* Answers about threads, and what the daemon tells.
Telling ==
  \/ \E c \in Chats : Messages(c) \/ ShowFails(c) \/ Context(c) \/ ContextFails(c) \/ MessageNew(c)
  \/ ChatsChange \/ Refreshed \/ AdoptRpc

LEMMA TellingKeeps ==
  ASSUME IInv, Telling
  PROVE  IInv'
<1> USE RowAssumption, BoundsAssumption DEF Places, Reply, Event, omni, look, thread, line
<1>1. ASSUME NEW c \in Chats, Messages(c) PROVE IInv'
  <2>1. TypeOK'
    BY <1>1 DEF Messages, IInv, TypeOK
  <2>2. PaneIsCurrent'
    BY <1>1 DEF Messages, IInv, TypeOK, PaneIsCurrent
  <2> QED
    BY <1>1, <2>1, <2>2, LineKept, SearchKept, LookKept DEF Messages, IInv
<1>2. ASSUME NEW c \in Chats, ShowFails(c) PROVE IInv'
  <2>1. TypeOK'
    BY <1>2 DEF ShowFails, IInv, TypeOK
  <2>2. PaneIsCurrent'
    BY <1>2 DEF ShowFails, IInv, TypeOK, PaneIsCurrent
  <2> QED
    BY <1>2, <2>1, <2>2, LineKept, SearchKept, LookKept DEF ShowFails, IInv
<1>3. ASSUME NEW c \in Chats, Context(c) PROVE IInv'
  <2>1. TypeOK'
    BY <1>3 DEF Context, IInv, TypeOK
  <2>2. PaneIsCurrent' /\ Composing' /\ SentWhereComposed'
    BY <1>3 DEF Context, IInv, PaneIsCurrent, Composing, SentWhereComposed
  <2> QED
    BY <1>3, <2>1, <2>2, SearchKept, LookKept DEF Context, IInv
<1>4. ASSUME NEW c \in Chats, ContextFails(c) PROVE IInv'
  <2>1. TypeOK'
    BY <1>4 DEF ContextFails, IInv, TypeOK
  <2> QED
    BY <1>4, <2>1, LineKept, ThreadKept, SearchKept, LookKept DEF ContextFails, IInv
<1>5. ASSUME NEW c \in Chats, MessageNew(c) PROVE IInv'
  <2>1. TypeOK'
    BY <1>5 DEF MessageNew, IInv, TypeOK
  <2>2. PaneIsCurrent'
    BY <1>5 DEF MessageNew, IInv, PaneIsCurrent
  <2> QED
    BY <1>5, <2>1, <2>2, LineKept, SearchKept, LookKept DEF MessageNew, IInv
<1>6. ASSUME ChatsChange PROVE IInv'
  <2>1. TypeOK'
    BY <1>6 DEF ChatsChange, IInv, TypeOK
  <2> QED
    BY <1>6, <2>1, LineKept, ThreadKept, SearchKept, LookKept DEF ChatsChange, IInv
<1>7. ASSUME Refreshed PROVE IInv'
  <2>1. /\ current' = current /\ pane' \subseteq Chats /\ missed' \subseteq Chats
        /\ shows' \in [Chats -> Nat] /\ PaneIsCurrent'
    <3>1. CASE current = None
      BY <1>7, <3>1, ThreadKept DEF Refreshed, IInv, TypeOK
    <3>2. CASE current # None
      BY <1>7, <3>2, Opening DEF Refreshed, OpenChat, IInv, TypeOK
    <3> QED
      BY <3>1, <3>2
  <2>2. TypeOK'
    BY <1>7, <2>1 DEF Refreshed, IInv, TypeOK
  <2> QED
    BY <1>7, <2>1, <2>2, LineKept, SearchKept, LookKept DEF Refreshed, IInv
<1>8. ASSUME AdoptRpc PROVE IInv'
  <2>1. TypeOK'
    BY <1>8 DEF AdoptRpc, IInv, TypeOK
  <2> QED
    BY <1>8, <2>1, LineKept, ThreadKept, SearchKept, LookKept DEF AdoptRpc, IInv
<1> QED
  BY <1>1, <1>2, <1>3, <1>4, <1>5, <1>6, <1>7, <1>8 DEF Telling

-----------------------------------------------------------------------------
\* The debounce sends a search of a new generation, for the query as it is.
LEMMA Dispatching ==
  ASSUME IInv, dirty, DispatchOmniSearch
  PROVE  /\ query' \in Queries /\ dirty' \in BOOLEAN /\ searching' \in BOOLEAN
         /\ generation' \in Nat /\ searches' \subseteq Nat \X Queries
         /\ hits' = hits /\ row' = row
         /\ Searched' /\ SearchSettles'
<1> USE QueryAssumption
<1>1. query \in Queries /\ generation \in Nat /\ searches \subseteq Nat \X Queries /\ Chars[query] \in Nat
  BY DEF IInv, TypeOK
<1>2. generation' = generation + 1 /\ dirty' = FALSE /\ query' = query /\ hits' = hits /\ row' = row
  BY DEF DispatchOmniSearch
<1>3. CASE Chars[query] < 2
  <2>1. searches' = searches /\ searching' = searching /\ ~searching
    BY <1>1, <1>3 DEF DispatchOmniSearch, IInv, Searched
  <2>2. \A s \in searches : s[1] \in Nat /\ s[1] <= generation
    BY <1>1 DEF IInv, Searched
  <2>3. Searched'
    BY <1>1, <1>2, <2>1, <2>2 DEF Searched
  <2>4. SearchSettles'
    BY <1>1, <1>2, <1>3, <2>1 DEF SearchSettles
  <2>5. searching \in BOOLEAN
    BY DEF IInv, TypeOK
  <2>6. searching' \in BOOLEAN /\ dirty' \in BOOLEAN
    BY <1>2, <2>1, <2>5, Zenon
  <2>7. query' \in Queries /\ generation' \in Nat /\ searches' \subseteq Nat \X Queries
    BY <1>1, <1>2, <2>1
  <2> QED
    BY <1>2, <2>3, <2>4, <2>6, <2>7, Zenon
<1>4. CASE ~(Chars[query] < 2)
  <2>1. searches' = searches \union {<<generation + 1, query>>} /\ searching' = TRUE
    BY <1>2, <1>4 DEF DispatchOmniSearch
  <2>2. searches' \subseteq Nat \X Queries
    BY <1>1, <2>1
  <2>3. Searched'
    BY <1>1, <1>2, <2>1 DEF IInv, Searched
  <2>4. SearchSettles'
    BY <1>1, <1>2, <2>1 DEF SearchSettles
  <2> QED
    BY <1>1, <1>2, <2>1, <2>2, <2>3, <2>4
<1> QED
  BY <1>3, <1>4

\* A preview that is not in the cache is asked for.
LEMMA Previewing ==
  ASSUME IInv, SyncPreview
  PROVE  /\ previewKey' \in Rows \union {None} /\ preview' \in Rows \union {None}
         /\ cache' \subseteq Rows /\ previews' \in [Rows -> Nat]
         /\ PreviewComes'
<1> USE RowAssumption
<1>1. row \in Rows \union {None}
  BY DEF IInv, TypeOK, RowsWith
<1>2. CASE focus # "Omni" \/ row = previewKey
  BY <1>2, LookKept DEF SyncPreview, look, IInv, TypeOK
<1>3. CASE ~(focus # "Omni" \/ row = previewKey) /\ (row = None \/ row \in cache)
  BY <1>1, <1>3 DEF SyncPreview, IInv, TypeOK, PreviewComes
<1>4. CASE ~(focus # "Omni" \/ row = previewKey) /\ ~(row = None \/ row \in cache)
  BY <1>1, <1>4 DEF SyncPreview, IInv, TypeOK, PreviewComes
<1> QED
  BY <1>2, <1>3, <1>4

LEMMA TickKeeps ==
  ASSUME IInv, Tick
  PROVE  IInv'
<1> USE DEF Reply, omni, thread, line
<1>1. /\ query' \in Queries /\ dirty' \in BOOLEAN /\ searching' \in BOOLEAN
      /\ generation' \in Nat /\ searches' \subseteq Nat \X Queries
      /\ hits' = hits /\ row' = row
      /\ Searched' /\ SearchSettles'
  <2>1. CASE dirty
    BY <2>1, Dispatching DEF Tick
  <2>2. CASE ~dirty
    BY <2>2, SearchKept DEF Tick, IInv, TypeOK
  <2> QED
    BY <2>1, <2>2
<1>2. TypeOK'
  BY <1>1, Previewing DEF Tick, IInv, TypeOK, RowsWith
<1> QED
  BY <1>1, <1>2, Previewing, LineKept, ThreadKept DEF Tick, IInv

\* An answer counts only if it is of the current generation.
LEMMA ResultsKeep ==
  ASSUME IInv, NEW s \in searches, NEW found \in BOOLEAN, OmniResults(s, found)
  PROVE  IInv'
<1> USE QueryAssumption DEF Reply, look, thread, line
<1>1. s[1] \in Nat /\ s[2] \in Queries /\ s = <<s[1], s[2]>>
  BY DEF IInv, TypeOK
<1>2. /\ searches' = searches \ {s}
      /\ UNCHANGED <<query, dirty, generation>>
      /\ UNCHANGED <<focus, back, previewKey, preview, cache, previews, current, pane, shows,
                     missed, contexts, return, composedFor, sent, keys, events>>
  BY DEF OmniResults
<1>3. CASE s[1] # generation
  <2>1. UNCHANGED <<searching, hits, row>>
    BY <1>3 DEF OmniResults
  <2>2. TypeOK'
    BY <1>2, <2>1 DEF IInv, TypeOK, RowsWith
  <2>3. Searched'
    BY <1>2, <2>1 DEF IInv, Searched
  <2>4. \A q \in Queries : <<generation, q>> \in searches => <<generation, q>> \in searches'
    BY <1>1, <1>2, <1>3
  <2>5. SearchSettles'
    BY <1>2, <2>1, <2>4 DEF IInv, SearchSettles
  <2> QED
    BY <1>2, <2>2, <2>3, <2>5, LineKept, ThreadKept, LookKept DEF IInv
<1>4. CASE s[1] = generation
  <2>1. searching' = FALSE /\ hits' \in {None, s[2]} /\ row' \in RowsWith(hits')
    BY <1>4 DEF OmniResults
  <2>2. TypeOK'
    BY <1>1, <1>2, <2>1 DEF IInv, TypeOK
  <2>3. Searched'
    BY <1>2, <2>1 DEF IInv, Searched
  <2>4. SearchSettles'
    BY <1>1, <1>2, <1>4, <2>1 DEF IInv, Searched, SearchSettles
  <2> QED
    BY <1>2, <2>2, <2>3, <2>4, LineKept, ThreadKept, LookKept DEF IInv
<1> QED
  BY <1>3, <1>4

LEMMA PreviewKeeps ==
  ASSUME IInv, NEW r \in Rows, OmniPreview(r)
  PROVE  IInv'
<1> USE RowAssumption DEF Reply, omni, thread, line
<1>1. TypeOK'
  BY DEF OmniPreview, IInv, TypeOK, RowsWith
<1>2. PreviewComes'
  BY DEF OmniPreview, IInv, TypeOK, PreviewComes
<1> QED
  BY <1>1, <1>2, LineKept, ThreadKept, SearchKept DEF OmniPreview, IInv

-----------------------------------------------------------------------------
LEMMA InitIInv == Init => IInv
<1> SUFFICES ASSUME Init PROVE IInv
  OBVIOUS
<1>1. TypeOK
  <2>1. /\ dirty \in BOOLEAN /\ searching \in BOOLEAN /\ row \in RowsWith(hits)
        /\ focus \in Places /\ back \in Places \ {"Compose"} /\ return \in Places \ {"Compose"}
    BY DEF Init, Places, RowsWith
  <2>2. /\ query \in Queries /\ generation \in Nat /\ searches \subseteq Nat \X Queries
        /\ hits \in Queries \union {None} /\ previews \in [Rows -> Nat]
        /\ shows \in [Chats -> Nat] /\ contexts \in [Chats -> Nat]
    BY QueryAssumption DEF Init
  <2>3. keys \in 0..MaxKeys /\ events \in 0..MaxEvents
    BY BoundsAssumption DEF Init
  <2> QED
    BY <2>1, <2>2, <2>3 DEF Init, TypeOK
<1>2. Composing /\ SentWhereComposed /\ PaneIsCurrent /\ PreviewComes
  BY DEF Init, Composing, SentWhereComposed, PaneIsCurrent, PreviewComes
<1>3. Searched
  BY DEF Init, Searched
<1>4. SearchSettles
  BY QueryAssumption DEF Init, SearchSettles
<1> QED
  BY <1>1, <1>2, <1>3, <1>4 DEF IInv

LEMMA Inductive == IInv /\ [Next]_vars => IInv'
<1> SUFFICES ASSUME IInv, [Next]_vars PROVE IInv'
  OBVIOUS
<1>1. CASE UNCHANGED vars
  <2>1. TypeOK'
    BY <1>1 DEF vars, omni, look, thread, line, IInv, TypeOK, RowsWith
  <2> QED
    BY <1>1, <2>1, LineKept, ThreadKept, SearchKept, LookKept
    DEF vars, omni, look, thread, line, IInv
<1>2. CASE Next
  BY <1>2, BrowsingKeeps, WritingKeeps, TellingKeeps, TickKeeps, ResultsKeep, PreviewKeeps
  DEF Next, Browsing, Writing, Telling
<1> QED
  BY <1>1, <1>2

LEMMA Invariance == Spec => []IInv
  BY InitIInv, Inductive, PTL DEF Spec

\* Every variable of the screen keeps its type.
THEOREM ScreenTypeCorrect == Spec => []TypeOK
<1>1. IInv => TypeOK
  BY DEF IInv
<1> QED
  BY Invariance, <1>1, PTL

\* handle_compose_key (app.rs:1257): whatever opens while somebody composes, a
\* message goes to the chat the line was opened for.
THEOREM NeverSentElsewhere == Spec => []SentWhereComposed
<1>1. IInv => SentWhereComposed
  BY DEF IInv
<1> QED
  BY Invariance, <1>1, PTL

\* open_chat and AppEvent::Messages (app.rs:823): threads that come in any order
\* leave that of the open chat in the pane.
THEOREM PaneFollows == Spec => []PaneIsCurrent
<1>1. IInv => PaneIsCurrent
  BY DEF IInv
<1> QED
  BY Invariance, <1>1, PTL

\* The generations of dispatch_omni_search (app.rs:835): hits are the query's own.
THEOREM NoStaleHits == Spec => []SearchSettles
<1>1. IInv => SearchSettles
  BY DEF IInv
<1> QED
  BY Invariance, <1>1, PTL

\* sync_preview (app.rs:697): a preview that is due is shown or on its way.
THEOREM PreviewIsDue == Spec => []PreviewComes
<1>1. IInv => PreviewComes
  BY DEF IInv
<1> QED
  BY Invariance, <1>1, PTL
=============================================================================
