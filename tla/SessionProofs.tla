--------------------------- MODULE SessionProofs ----------------------------
(***************************************************************************)
(* However many pairings, refreshes, kills, failed saves and logouts there *)
(* are: unless the old session is on the relay, or still to come there,    *)
(* while a new one is saved, session.json is always whole and never goes   *)
(* back behind a pairing that succeeded.                                   *)
(***************************************************************************)
EXTENDS Session, TLAPS

\* What holds whoever fights: the names of files lead to something written, who saves has an
\* inode and a session that was paired, and the history knows of the fight.
FilesTyped ==
  /\ content \in [0..MaxSaves -> 0..MaxPairings \union {Torn, None}]
  /\ file \in 0..MaxSaves /\ tmp \in 0..MaxSaves \union {None}
  /\ content[file] # None /\ (tmp # None => content[tmp] # None)

StateTyped ==
  /\ saves \in 0..MaxSaves /\ faults \in 0..MaxFaults
  /\ paired \in 0..MaxPairings /\ saved \in 0..paired /\ loggedOut \subseteq 0..MaxPairings
  /\ daemon \in {"down", "starting", "import", "loop"} /\ session \in 0..MaxPairings
  /\ callback \in {"none", "refresh", "logged_out", "listen"}
  /\ fatal \in {"none", "logged_out", "listen"}
  /\ pairing \in {"off", "wait", "save", "saved"}
  /\ auth \in {"off", "wait", "save"}

SaversTyped ==
  /\ saver \in [Savers -> [at : {"off", "open", "write", "rename"},
                           inode : 0..MaxSaves \union {None}, session : 0..MaxPairings]]
  /\ \A p \in Savers : saver[p].inode # None <=> Saving(p)
  /\ \A p \in Savers : Saving(p) /\ p # "callback" => saver[p].session <= paired
  /\ Saving("callback") => callback = "refresh"
  /\ pairing = "save" <=> Saving("pairing")
  /\ auth = "save" <=> Saving("auth")
  /\ ~Up => ~connected /\ callback = "none" /\ pairing = "off" /\ ~Saving("callback")

Base == Flags /\ FilesTyped /\ StateTyped /\ SaversTyped /\ (Fighting => fought)

\* Nobody has the number of a save that is yet to begin, the temporary file is
\* not the one in use, and the one in use is whole.
Files ==
  /\ file <= saves /\ (tmp # None => tmp <= saves)
  /\ tmp # file
  /\ content[file] \in 0..MaxPairings

\* One saves at a time, although nothing but the order of events sees to it.
Alone == \A p, q \in Savers : Saving(p) /\ Saving(q) => p = q

\* Whoever saves: its inode is new, or is the temporary file and, once written,
\* holds its session; and that session is not behind the last success.
SaverInv(p) ==
  /\ saver[p].at = "open" => saver[p].inode \notin {file, tmp} /\ saver[p].inode <= saves
  /\ saver[p].at \in {"write", "rename"} => tmp = saver[p].inode
  /\ saver[p].at = "rename" => content[saver[p].inode] = saver[p].session
  /\ Saving(p) => saver[p].session >= saved

\* A client that is heard, or will be, has a session that is not behind.
Current ==
  daemon = "starting" \/ connected \/ callback # "none" => session >= saved

Kept ==
  /\ content[file] >= saved
  /\ Files /\ Alone /\ Current
  /\ \A p \in Savers : SaverInv(p)

IInv == Base /\ (fought \/ Kept)

-----------------------------------------------------------------------------
\* A first session, no temporary file, and nobody who saves.
LEMMA InitIInv == Init => IInv
<1> SUFFICES ASSUME Init PROVE IInv
  OBVIOUS
<1> USE BoundsAssumption, NoneAssumption DEF Init, Torn, Savers, Saving, NotSaving, Up
<1>1. Flags
  BY Zenon DEF Flags
<1>2. Base
  BY <1>1 DEF Base, FilesTyped, StateTyped, SaversTyped, Fighting
<1>3. Files /\ Alone /\ Current /\ content[file] >= saved
  BY DEF Files, Alone, Current
<1>4. \A p \in Savers : SaverInv(p)
  BY DEF SaverInv
<1> QED
  BY <1>2, <1>3, <1>4 DEF IInv, Kept

\* The history is what Fighting makes it.
LEMMA HistoryTyped ==
  ASSUME fought' = (fought \/ Fighting')
  PROVE  fought' \in BOOLEAN
BY Zenon

\* A save goes on, or fails.
LEMMA SaveBase ==
  ASSUME Base, NEW p \in Savers, Does(SaveOpen(p) \/ SaveWrite(p) \/ SaveFails(p))
  PROVE  Base'
<1> USE BoundsAssumption, NoneAssumption
        DEF Base, FilesTyped, StateTyped, SaversTyped, Torn, Savers, Saving, NotSaving, Up,
            phoneVars, disk, loop
<1>0. fought' = (fought \/ Fighting') /\ fought' \in BOOLEAN
  BY HistoryTyped DEF Does
<1>1. CASE SaveOpen(p)
  <2>1. Flags'
    BY <1>0, <1>1, Zenon DEF Flags, SaveOpen
  <2>2. FilesTyped'
    BY <1>0, <1>1 DEF SaveOpen
  <2>3. StateTyped'
    BY <1>0, <1>1 DEF SaveOpen
  <2>4. SaversTyped'
    BY <1>0, <1>1 DEF SaveOpen
  <2> QED
    BY <1>0, <2>1, <2>2, <2>3, <2>4 DEF Base
<1>2. CASE SaveWrite(p)
  <2>1. Flags'
    BY <1>0, <1>2, Zenon DEF Flags, SaveWrite
  <2>2. FilesTyped'
    BY <1>0, <1>2 DEF SaveWrite
  <2>3. StateTyped'
    BY <1>0, <1>2 DEF SaveWrite
  <2>4. SaversTyped'
    BY <1>0, <1>2 DEF SaveWrite
  <2> QED
    BY <1>0, <2>1, <2>2, <2>3, <2>4 DEF Base
<1>3. CASE SaveFails(p)
  <2>1. Flags'
    BY <1>0, <1>3, Zenon DEF Flags, SaveFails, Fault
  <2>2. FilesTyped'
    BY <1>0, <1>3 DEF SaveFails, Fault
  <2>3. StateTyped'
    BY <1>0, <1>3 DEF SaveFails, Fault
  <2>4. SaversTyped'
    BY <1>0, <1>3 DEF SaveFails, Fault
  <2> QED
    BY <1>0, <2>1, <2>2, <2>3, <2>4 DEF Base
<1> QED
  BY <1>1, <1>2, <1>3 DEF Does

\* The same steps, while nobody fights.
LEMMA SaveKept ==
  ASSUME Base, Kept, ~fought, ~fought', NEW p \in Savers,
         Does(SaveOpen(p) \/ SaveWrite(p) \/ SaveFails(p))
  PROVE  Kept'
<1> USE BoundsAssumption, NoneAssumption
        DEF Base, FilesTyped, StateTyped, SaversTyped, Kept, Files, Alone, SaverInv, Current,
            Fighting, Torn, Savers, Saving, NotSaving, Up, phoneVars, disk, loop
<1>0. ~Fighting /\ ~Fighting'
  BY DEF Does
<1>1. CASE SaveOpen(p)
  <2> DEFINE n == IF tmp # None THEN tmp ELSE saver[p].inode
             w == [saver[p] EXCEPT !.at = "write", !.inode = n]
  <2>1. /\ n \in 0..MaxSaves /\ n # file /\ n <= saves
        /\ Saving(p) /\ \A q \in Savers : q # p => ~Saving(q)
    BY <1>1 DEF SaveOpen
  <2>2. /\ tmp' = n /\ content' = [content EXCEPT ![n] = Torn] /\ saver' = [saver EXCEPT ![p] = w]
        /\ UNCHANGED <<file, saves, saved, daemon, connected, callback, session>>
    BY <1>1 DEF SaveOpen
  <2>3. w.at = "write" /\ w.inode = n /\ w.session = saver[p].session
    OBVIOUS
  <2>4. saver'[p] = w /\ \A q \in Savers : q # p => saver'[q] = saver[q]
    BY <2>2
  <2> HIDE DEF n, w
  <2>5. Files' /\ Current' /\ content'[file'] >= saved'
    BY <2>1, <2>2
  <2>6. Alone'
    BY <2>1, <2>2, <2>4
  <2>7. \A q \in Savers : SaverInv(q)'
    BY <2>1, <2>2, <2>3, <2>4
  <2> QED
    BY <2>5, <2>6, <2>7
<1>2. CASE SaveWrite(p)
  BY <1>0, <1>2 DEF SaveWrite
<1>3. CASE SaveFails(p)
  BY <1>0, <1>3 DEF SaveFails, Fault
<1> QED
  BY <1>1, <1>2, <1>3 DEF Does

\* The callback of the daemon's client.
LEMMA CallbackBase ==
  ASSUME Base, Does(TokenRefreshed \/ TokenSaved \/ ClientReady \/ FatalEvent \/ FatalHandled)
  PROVE  Base'
<1> USE BoundsAssumption, NoneAssumption
        DEF Base, FilesTyped, StateTyped, SaversTyped, Torn, Savers, Saving, NotSaving, Up,
            phoneVars, disk, loop
<1>0. fought' = (fought \/ Fighting') /\ fought' \in BOOLEAN
  BY HistoryTyped DEF Does
<1>1. CASE TokenRefreshed
  <2>1. Flags'
    BY <1>0, <1>1, Zenon DEF Flags, TokenRefreshed, SaveBegins, Handle
  <2>2. FilesTyped'
    BY <1>0, <1>1 DEF TokenRefreshed, SaveBegins, Handle
  <2>3. StateTyped'
    BY <1>0, <1>1 DEF TokenRefreshed, SaveBegins, Handle
  <2>4. SaversTyped'
    BY <1>0, <1>1 DEF TokenRefreshed, SaveBegins, Handle
  <2> QED
    BY <1>0, <2>1, <2>2, <2>3, <2>4 DEF Base
<1>2. CASE TokenSaved
  <2>1. Flags'
    BY <1>0, <1>2, Zenon DEF Flags, TokenSaved, SaveEnds, Handle
  <2>2. FilesTyped'
    BY <1>0, <1>2 DEF TokenSaved, SaveEnds, Handle
  <2>3. StateTyped'
    BY <1>0, <1>2 DEF TokenSaved, SaveEnds, Handle
  <2>4. SaversTyped'
    BY <1>0, <1>2 DEF TokenSaved, SaveEnds, Handle
  <2> QED
    BY <1>0, <2>1, <2>2, <2>3, <2>4 DEF Base
<1>3. CASE ClientReady
  <2>1. Flags'
    BY <1>0, <1>3, Zenon DEF Flags, ClientReady, Handle
  <2> QED
    BY <1>0, <1>3, <2>1 DEF ClientReady, Handle
<1>4. CASE FatalEvent
  <2>1. Flags'
    BY <1>0, <1>4, Zenon DEF Flags, FatalEvent, Handle, Fault
  <2>2. FilesTyped'
    BY <1>0, <1>4 DEF FatalEvent, Handle, Fault
  <2>3. StateTyped'
    BY <1>0, <1>4 DEF FatalEvent, Handle, Fault
  <2>4. SaversTyped'
    BY <1>0, <1>4 DEF FatalEvent, Handle, Fault
  <2> QED
    BY <1>0, <2>1, <2>2, <2>3, <2>4 DEF Base
<1>5. CASE FatalHandled
  <2>1. Flags'
    BY <1>0, <1>5, Zenon DEF Flags, FatalHandled, Handle
  <2> QED
    BY <1>0, <1>5, <2>1 DEF FatalHandled, Handle
<1> QED
  BY <1>1, <1>2, <1>3, <1>4, <1>5 DEF Does

\* The same steps, while nobody fights.
LEMMA CallbackKept ==
  ASSUME Base, Kept, ~fought, ~fought',
         Does(TokenRefreshed \/ TokenSaved \/ ClientReady \/ FatalEvent \/ FatalHandled)
  PROVE  Kept'
<1> USE BoundsAssumption, NoneAssumption
        DEF Base, FilesTyped, StateTyped, SaversTyped, Kept, Files, Alone, SaverInv, Current,
            Fighting, Torn, Savers, Saving, NotSaving, Up, phoneVars, disk, loop
<1>0. ~Fighting /\ ~Fighting'
  BY DEF Does
<1>1. CASE TokenRefreshed
  BY <1>0, <1>1 DEF TokenRefreshed, SaveBegins, Handle
<1>2. CASE TokenSaved
  BY <1>0, <1>2 DEF TokenSaved, SaveEnds, Handle
<1>3. CASE ClientReady
  BY <1>0, <1>3 DEF ClientReady, Handle
<1>4. CASE FatalEvent
  BY <1>0, <1>4 DEF FatalEvent, Handle, Fault
<1>5. CASE FatalHandled
  BY <1>0, <1>5 DEF FatalHandled, Handle
<1> QED
  BY <1>1, <1>2, <1>3, <1>4, <1>5 DEF Does

\* The daemon's life.
LEMMA DaemonBase ==
  ASSUME Base, Does(Start \/ Connect \/ Imported \/ HandleFatal \/ HandleShutdown \/ Kill)
  PROVE  Base'
<1> USE BoundsAssumption, NoneAssumption
        DEF Base, FilesTyped, StateTyped, SaversTyped, Torn, Savers, Saving, NotSaving, Up,
            phoneVars, disk, loop
<1>0. fought' = (fought \/ Fighting') /\ fought' \in BOOLEAN
  BY HistoryTyped DEF Does
<1>1. CASE Start
  <2>1. Flags'
    BY <1>0, <1>1, Zenon DEF Flags, Start
  <2> QED
    BY <1>0, <1>1, <2>1 DEF Start
<1>2. CASE Connect
  <2>1. Flags'
    BY <1>0, <1>2, Zenon DEF Flags, Connect
  <2> QED
    BY <1>0, <1>2, <2>1 DEF Connect
<1>3. CASE Imported
  <2>1. Flags'
    BY <1>0, <1>3, Zenon DEF Flags, Imported
  <2> QED
    BY <1>0, <1>3, <2>1 DEF Imported
<1>4. ASSUME Exits, faults' \in 0..MaxFaults PROVE Base'
  <2>1. Flags'
    BY <1>0, <1>4, Zenon DEF Flags, Exits
  <2>2. FilesTyped' /\ StateTyped'
    BY <1>0, <1>4 DEF Exits
  <2>3. SaversTyped'
    BY <1>0, <1>4 DEF Exits, SaversDie
  <2> QED
    BY <1>0, <2>1, <2>2, <2>3 DEF Base
<1>5. CASE HandleFatal
  <2>1. CASE Exits
    BY <1>4, <1>5, <2>1 DEF HandleFatal
  <2>2. CASE ~Exits
    <3>1. Flags'
      BY <1>0, <1>5, <2>2, Zenon DEF Flags, HandleFatal
    <3> QED
      BY <1>0, <1>5, <2>2, <3>1 DEF HandleFatal
  <2> QED
    BY <2>1, <2>2
<1>6. CASE HandleShutdown
  BY <1>4, <1>6 DEF HandleShutdown
<1>7. CASE Kill
  <2>1. faults' \in 0..MaxFaults
    BY <1>7 DEF Kill, Fault
  <2> QED
    BY <1>4, <1>7, <2>1 DEF Kill
<1> QED
  BY <1>1, <1>2, <1>3, <1>5, <1>6, <1>7 DEF Does

\* The same steps, while nobody fights.
LEMMA DaemonKept ==
  ASSUME Base, Kept, ~fought, ~fought',
         Does(Start \/ Connect \/ Imported \/ HandleFatal \/ HandleShutdown \/ Kill)
  PROVE  Kept'
<1> USE BoundsAssumption, NoneAssumption
        DEF Base, FilesTyped, StateTyped, SaversTyped, Kept, Files, Alone, SaverInv, Current,
            Fighting, Torn, Savers, Saving, NotSaving, Up, phoneVars, disk, loop
<1>0. ~Fighting /\ ~Fighting'
  BY DEF Does
<1>1. CASE Start
  BY <1>0, <1>1 DEF Start
<1>2. CASE Connect
  BY <1>0, <1>2 DEF Connect
<1>3. CASE Imported
  BY <1>0, <1>3 DEF Imported
<1>4. ASSUME Exits PROVE Kept'
  BY <1>0, <1>4 DEF Exits, SaversDie
<1>5. CASE HandleFatal
  <2>1. CASE ~Exits
    BY <1>0, <1>5, <2>1 DEF HandleFatal
  <2> QED
    BY <1>4, <2>1
<1>6. CASE HandleShutdown \/ Kill
  BY <1>4, <1>6 DEF HandleShutdown, Kill
<1> QED
  BY <1>1, <1>2, <1>3, <1>5, <1>6 DEF Does

\* Pairing in the daemon.
LEMMA PairingBase ==
  ASSUME Base,
         Does(StartPairing \/ PairingConfirmed \/ PairingFails \/ PairingSaved \/ RequestShutdown)
  PROVE  Base'
<1> USE BoundsAssumption, NoneAssumption
        DEF Base, FilesTyped, StateTyped, SaversTyped, Torn, Savers, Saving, NotSaving, Up,
            phoneVars, disk, loop
<1>0. fought' = (fought \/ Fighting') /\ fought' \in BOOLEAN
  BY HistoryTyped DEF Does
<1>1. CASE StartPairing
  <2>1. Flags'
    BY <1>0, <1>1, Zenon DEF Flags, StartPairing
  <2> QED
    BY <1>0, <1>1, <2>1 DEF StartPairing
<1>2. CASE PairingConfirmed
  <2>1. Flags'
    BY <1>0, <1>2, Zenon DEF Flags, PairingConfirmed, SaveBegins
  <2>2. FilesTyped'
    BY <1>0, <1>2 DEF PairingConfirmed, SaveBegins
  <2>3. StateTyped'
    BY <1>0, <1>2 DEF PairingConfirmed, SaveBegins
  <2>4. SaversTyped'
    BY <1>0, <1>2 DEF PairingConfirmed, SaveBegins
  <2> QED
    BY <1>0, <2>1, <2>2, <2>3, <2>4 DEF Base
<1>3. CASE PairingFails
  <2>1. Flags'
    BY <1>0, <1>3, Zenon DEF Flags, PairingFails, Fault
  <2>2. FilesTyped'
    BY <1>0, <1>3 DEF PairingFails, Fault
  <2>3. StateTyped'
    BY <1>0, <1>3 DEF PairingFails, Fault
  <2>4. SaversTyped'
    BY <1>0, <1>3 DEF PairingFails, Fault
  <2> QED
    BY <1>0, <2>1, <2>2, <2>3, <2>4 DEF Base
<1>4. CASE PairingSaved
  <2>1. Flags'
    BY <1>0, <1>4, Zenon DEF Flags, PairingSaved, SaveEnds
  <2>2. FilesTyped'
    BY <1>0, <1>4 DEF PairingSaved, SaveEnds
  <2>3. StateTyped'
    BY <1>0, <1>4 DEF PairingSaved, SaveEnds
  <2>4. SaversTyped'
    BY <1>0, <1>4 DEF PairingSaved, SaveEnds
  <2> QED
    BY <1>0, <2>1, <2>2, <2>3, <2>4 DEF Base
<1>5. CASE RequestShutdown
  <2>1. Flags'
    BY <1>0, <1>5, Zenon DEF Flags, RequestShutdown
  <2> QED
    BY <1>0, <1>5, <2>1 DEF RequestShutdown
<1> QED
  BY <1>1, <1>2, <1>3, <1>4, <1>5 DEF Does

\* The same steps, while nobody fights.
LEMMA PairingKept ==
  ASSUME Base, Kept, ~fought, ~fought',
         Does(StartPairing \/ PairingConfirmed \/ PairingFails \/ PairingSaved \/ RequestShutdown)
  PROVE  Kept'
<1> USE BoundsAssumption, NoneAssumption
        DEF Base, FilesTyped, StateTyped, SaversTyped, Kept, Files, Alone, SaverInv, Current,
            Fighting, Torn, Savers, Saving, NotSaving, Up, phoneVars, disk, loop
<1>0. ~Fighting /\ ~Fighting'
  BY DEF Does
<1>1. CASE StartPairing
  BY <1>0, <1>1 DEF StartPairing
<1>2. CASE PairingConfirmed
  BY <1>0, <1>2 DEF PairingConfirmed, SaveBegins
<1>3. CASE PairingFails
  BY <1>0, <1>3 DEF PairingFails, Fault
<1>4. CASE PairingSaved
  BY <1>0, <1>4 DEF PairingSaved, SaveEnds
<1>5. CASE RequestShutdown
  BY <1>0, <1>5 DEF RequestShutdown
<1> QED
  BY <1>1, <1>2, <1>3, <1>4, <1>5 DEF Does

\* Pairing by hand, and the phone's owner.
LEMMA AuthBase ==
  ASSUME Base, Does(StopRunningDaemon \/ AuthConfirmed \/ AuthFails \/ AuthSaved \/ LogOut)
  PROVE  Base'
<1> USE BoundsAssumption, NoneAssumption
        DEF Base, FilesTyped, StateTyped, SaversTyped, Torn, Savers, Saving, NotSaving, Up,
            phoneVars, disk, loop
<1>0. fought' = (fought \/ Fighting') /\ fought' \in BOOLEAN
  BY HistoryTyped DEF Does
<1>1. CASE StopRunningDaemon
  <2>1. Flags'
    BY <1>0, <1>1, Zenon DEF Flags, StopRunningDaemon, Fault
  <2>2. FilesTyped'
    BY <1>0, <1>1 DEF StopRunningDaemon, Fault
  <2>3. StateTyped'
    BY <1>0, <1>1 DEF StopRunningDaemon, Fault
  <2>4. SaversTyped'
    BY <1>0, <1>1 DEF StopRunningDaemon, Fault
  <2> QED
    BY <1>0, <2>1, <2>2, <2>3, <2>4 DEF Base
<1>2. CASE AuthConfirmed
  <2>1. Flags'
    BY <1>0, <1>2, Zenon DEF Flags, AuthConfirmed, SaveBegins
  <2>2. FilesTyped'
    BY <1>0, <1>2 DEF AuthConfirmed, SaveBegins
  <2>3. StateTyped'
    BY <1>0, <1>2 DEF AuthConfirmed, SaveBegins
  <2>4. SaversTyped'
    BY <1>0, <1>2 DEF AuthConfirmed, SaveBegins
  <2> QED
    BY <1>0, <2>1, <2>2, <2>3, <2>4 DEF Base
<1>3. CASE AuthFails
  <2>1. Flags'
    BY <1>0, <1>3, Zenon DEF Flags, AuthFails
  <2> QED
    BY <1>0, <1>3, <2>1 DEF AuthFails
<1>4. CASE AuthSaved
  <2>1. Flags'
    BY <1>0, <1>4, Zenon DEF Flags, AuthSaved, SaveEnds
  <2>2. FilesTyped'
    BY <1>0, <1>4 DEF AuthSaved, SaveEnds
  <2>3. StateTyped'
    BY <1>0, <1>4 DEF AuthSaved, SaveEnds
  <2>4. SaversTyped'
    BY <1>0, <1>4 DEF AuthSaved, SaveEnds
  <2> QED
    BY <1>0, <2>1, <2>2, <2>3, <2>4 DEF Base
<1>5. CASE LogOut
  <2>1. Flags'
    BY <1>0, <1>5, Zenon DEF Flags, LogOut, Fault
  <2>2. FilesTyped'
    BY <1>0, <1>5 DEF LogOut, Fault
  <2>3. StateTyped'
    BY <1>0, <1>5 DEF LogOut, Fault
  <2>4. SaversTyped'
    BY <1>0, <1>5 DEF LogOut, Fault
  <2> QED
    BY <1>0, <2>1, <2>2, <2>3, <2>4 DEF Base
<1> QED
  BY <1>1, <1>2, <1>3, <1>4, <1>5 DEF Does

\* The same steps, while nobody fights.
LEMMA AuthKept ==
  ASSUME Base, Kept, ~fought, ~fought',
         Does(StopRunningDaemon \/ AuthConfirmed \/ AuthFails \/ AuthSaved \/ LogOut)
  PROVE  Kept'
<1> USE BoundsAssumption, NoneAssumption
        DEF Base, FilesTyped, StateTyped, SaversTyped, Kept, Files, Alone, SaverInv, Current,
            Fighting, Torn, Savers, Saving, NotSaving, Up, phoneVars, disk, loop
<1>0. ~Fighting /\ ~Fighting'
  BY DEF Does
<1>1. CASE StopRunningDaemon
  BY <1>0, <1>1 DEF StopRunningDaemon, Fault
<1>2. CASE AuthConfirmed
  BY <1>0, <1>2 DEF AuthConfirmed, SaveBegins
<1>3. CASE AuthFails
  BY <1>0, <1>3 DEF AuthFails
<1>4. CASE AuthSaved
  BY <1>0, <1>4 DEF AuthSaved, SaveEnds
<1>5. CASE LogOut
  BY <1>0, <1>5 DEF LogOut, Fault
<1> QED
  BY <1>1, <1>2, <1>3, <1>4, <1>5 DEF Does

LEMMA StutterIInv == IInv /\ UNCHANGED vars => IInv'
BY DEF IInv, Base, Flags, FilesTyped, StateTyped, SaversTyped, Fighting, Kept, Files, Alone,
       Current, SaverInv, Torn, Savers, Saving, Up, vars, phoneVars, disk, loop

LEMMA NextIInv == IInv /\ [Next]_vars => IInv'
<1> SUFFICES ASSUME IInv, Next PROVE IInv'
  BY StutterIInv
<1> USE DEF Next, Step, SaveStep, CallbackStep, MainStep, PairingStep
<1>1. Base'
  <2>1. CASE Does(SaveStep \/ \E p \in Savers : SaveFails(p))
    <3>1. PICK p \in Savers : Does(SaveOpen(p) \/ SaveWrite(p) \/ SaveFails(p))
      BY <2>1 DEF Does
    <3> QED
      BY <3>1, SaveBase DEF IInv
  <2> QED
    BY <2>1, CallbackBase, DaemonBase, PairingBase, AuthBase DEF IInv, Does
<1>2. ASSUME ~fought' PROVE Kept'
  <2>1. ~fought /\ Base /\ Kept
    BY <1>2 DEF IInv, Does
  <2>2. CASE Does(SaveStep \/ \E p \in Savers : SaveFails(p))
    <3>1. PICK p \in Savers : Does(SaveOpen(p) \/ SaveWrite(p) \/ SaveFails(p))
      BY <2>2 DEF Does
    <3> QED
      BY <1>2, <2>1, <3>1, SaveKept
  <2> QED
    BY <1>2, <2>1, <2>2, CallbackKept, DaemonKept, PairingKept, AuthKept DEF Does
<1> QED
  BY <1>1, <1>2 DEF IInv

-----------------------------------------------------------------------------
\* Every variable keeps its type, whatever fights.
THEOREM SessionTypeCorrect == Spec => []TypeOK
<1>1. IInv => TypeOK
  BY DEF IInv, Base, FilesTyped, StateTyped, SaversTyped, TypeOK
<1>2. IInv /\ [Next]_vars => IInv'
  BY NextIInv
<1> QED
  BY InitIInv, <1>1, <1>2, PTL DEF Spec

\* session.json is whole and never goes back behind a pairing that was reported as
\* successful, unless the old session was about while a new one was saved (saveAuth, "stop
\* it from fighting over the relay").
THEOREM SessionKept == Spec => []SessionIsKept
<1>1. IInv => SessionIsKept
  BY BoundsAssumption DEF IInv, Kept, Files, SessionIsKept, Torn
<1>2. IInv /\ [Next]_vars => IInv'
  BY NextIInv
<1> QED
  BY InitIInv, <1>1, <1>2, PTL DEF Spec
=============================================================================
