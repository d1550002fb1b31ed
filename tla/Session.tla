------------------------------ MODULE Session -------------------------------
(***************************************************************************)
(* The pairing with the phone: session.json, the daemon that loads it once *)
(* (cmd/serve.go, internal/gm), the pairing it can run itself (auth.pair,  *)
(* auth.pair.google) and the one `gmcli auth` runs in a process of its     *)
(* own.                                                                    *)
(*                                                                         *)
(* A session is known by its generation: every pairing makes the next.     *)
(* session.json is replaced by saveAuth (truncate and write a fixed        *)
(* temporary file, rename it), called by the callback of the daemon's      *)
(* client when a token is refreshed, and by whoever pairs.  Files are      *)
(* inodes with a content, because a rename moves what others have open.    *)
(***************************************************************************)
EXTENDS Integers

CONSTANTS
  MaxPairings,  \* bound on the pairings that succeed
  MaxSaves,     \* bound on the calls of saveAuth
  MaxFaults,    \* bound on logouts, listen errors, kills, failed saves and pairings, gmcli auth
  None

ASSUME BoundsAssumption == {MaxPairings, MaxSaves, MaxFaults} \subseteq Nat
ASSUME NoneAssumption == None \notin Int

VARIABLES
  content,     \* content[n]: the session in inode n, or Torn
  file, tmp,   \* the inodes of session.json and session.json.tmp
  saver,       \* saver[p]: where p is in saveAuth, the inode it holds, its session
  saves,       \* calls of saveAuth so far
  paired,      \* the latest generation the phone has agreed to
  saved,       \* the latest generation whose pairing reported success (history)
  loggedOut,   \* generations the phone has logged out
  daemon,      \* "down", "starting", "import" or "loop"
  session,     \* the generation the daemon has loaded
  connected,   \* the long poll of its client runs
  callback,    \* the event its client's callback handles: "none", "refresh", ...
  fatal,       \* Pump.fatal: "none", "logged_out" or "listen"
  selecting,   \* serve's pumpFatal is not nil
  authExpired, \* Server.authExpired
  pairing,     \* runPairing: "off", "wait", "save" or "saved"
  shutdown,    \* Server.shutdown is closed
  auth,        \* gmcli auth: "off", "wait" or "save"
  faults,      \* faults so far
  fought       \* an old session was about while a new one was saved (history)

disk == <<content, file, tmp, saver, saves>>
phoneVars == <<paired, saved, loggedOut>>
loop == <<session, connected, callback, fatal, selecting, authExpired>>
vars == <<disk, phoneVars, daemon, loop, pairing, shutdown, auth, faults, fought>>

Torn == -1
Savers == {"callback", "pairing", "auth"}
Saving(p) == saver[p].at # "off"
NotSaving == [at |-> "off", inode |-> None, session |-> 0]
Up == daemon # "down"

\* While a new session is saved the old one is on the relay, or may still come there or
\* save itself; or two new ones are saved.
Fighting ==
  \/ /\ pairing = "save" \/ auth = "save"
     /\ daemon = "starting" \/ connected \/ callback # "none"
  \/ pairing = "save" /\ auth = "save"

Fault == faults < MaxFaults /\ faults' = faults + 1

-----------------------------------------------------------------------------
(***************************************************************************)
(* saveAuth                                                                *)
(***************************************************************************)

\* p calls saveAuth with session s.  Should it have to make a new temporary
\* file, that will be the inode with the number of this save.
SaveBegins(p, s) ==
  /\ saves < MaxSaves
  /\ saves' = saves + 1
  /\ saver' = [saver EXCEPT ![p] = [at |-> "open", inode |-> saves', session |-> s]]
  /\ UNCHANGED <<content, file, tmp>>

\* Mutant: session.json is written in place.
SaveOpenInPlace(p) ==
  /\ saver[p].at = "open"
  /\ content' = [content EXCEPT ![file] = Torn]
  /\ saver' = [saver EXCEPT ![p].at = "write", ![p].inode = file]
  /\ tmp' = file
  /\ UNCHANGED <<file, saves, phoneVars, daemon, loop, pairing, shutdown, auth, faults>>

\* O_CREATE|O_TRUNC: the temporary file there is, or a new one, is emptied.
SaveOpen(p) ==
  /\ saver[p].at = "open"
  /\ tmp' = IF tmp # None THEN tmp ELSE saver[p].inode
  /\ content' = [content EXCEPT ![tmp'] = Torn]
  /\ saver' = [saver EXCEPT ![p].at = "write", ![p].inode = tmp']
  /\ UNCHANGED <<file, saves, phoneVars, daemon, loop, pairing, shutdown, auth, faults>>

SaveWrite(p) ==
  /\ saver[p].at = "write"
  /\ content' = [content EXCEPT ![saver[p].inode] = saver[p].session]
  /\ saver' = [saver EXCEPT ![p].at = "rename"]
  /\ UNCHANGED <<file, tmp, saves, phoneVars, daemon, loop, pairing, shutdown, auth, faults>>

\* The end of saveAuth: what is at the temporary name now, whoever wrote it,
\* becomes session.json; the rename fails when there is nothing.
SaveEnds(p) ==
  /\ saver[p].at = "rename"
  /\ saver' = [saver EXCEPT ![p] = NotSaving]
  /\ file' = IF tmp = None THEN file ELSE tmp
  /\ tmp' = None
  /\ UNCHANGED <<content, saves>>

\* It fails, and removes the temporary file where it cannot write it: the callback goes
\* on, a pairing reports the error.
SaveFails(p) ==
  /\ Saving(p) /\ Fault
  /\ saver' = [saver EXCEPT ![p] = NotSaving]
  /\ tmp' = IF saver[p].at = "write" THEN None ELSE tmp
  /\ callback' = IF p = "callback" THEN "none" ELSE callback
  /\ pairing' = IF p = "pairing" THEN "off" ELSE pairing
  /\ auth' = IF p = "auth" THEN "off" ELSE auth
  /\ UNCHANGED <<content, file, saves, phoneVars, daemon, session, connected, fatal, selecting,
                 authExpired, shutdown>>

\* A process dies: so do its calls of saveAuth.
SaversDie(P) == saver' = [p \in Savers |-> IF p \in P THEN NotSaving ELSE saver[p]]

-----------------------------------------------------------------------------
(***************************************************************************)
(* The daemon                                                              *)
(***************************************************************************)

\* serve opens the session and accepts clients; a torn file is an error.  A
\* client may start a daemon in the middle of a `gmcli auth`.
Start ==
  /\ ~Up /\ content[file] # Torn
  /\ daemon' = "starting"
  /\ session' = content[file]
  /\ connected' = FALSE /\ callback' = "none" /\ fatal' = "none" /\ selecting' = TRUE
  /\ authExpired' = FALSE
  /\ pairing' = "off" /\ shutdown' = FALSE
  /\ UNCHANGED <<disk, phoneVars, auth, faults>>

\* client.Connect, whatever auth.pair has done to the client before.
Connect ==
  /\ daemon = "starting"
  /\ daemon' = "import"
  /\ connected' = TRUE
  /\ UNCHANGED <<disk, phoneVars, session, callback, fatal, selecting, authExpired,
                 pairing, shutdown, auth, faults>>

\* The initial import is over: the main loop begins to select.
Imported ==
  /\ daemon = "import"
  /\ daemon' = "loop"
  /\ UNCHANGED <<disk, phoneVars, loop, pairing, shutdown, auth, faults>>

\* The process ends, and with it everything that runs in it.
Exits ==
  /\ daemon' = "down"
  /\ connected' = FALSE /\ callback' = "none" /\ fatal' = "none" /\ authExpired' = FALSE
  /\ pairing' = "off"
  /\ SaversDie({"callback", "pairing"})
  /\ UNCHANGED <<content, file, tmp, saves, phoneVars, session, selecting, shutdown, auth>>

\* A signal, the idle timer (cut short here to any moment), an error of Connect,
\* or a crash.
Kill ==
  /\ Up /\ Fault /\ Exits

\* Mutant: the daemon goes on talking to the phone.
HandleFatalTalking ==
  /\ daemon = "loop" /\ selecting /\ fatal # "none"
  /\ IF fatal = "listen" THEN Exits
     ELSE /\ authExpired' = TRUE /\ selecting' = FALSE
          /\ fatal' = "none"
          /\ UNCHANGED <<disk, phoneVars, daemon, session, connected, callback, pairing, shutdown, auth>>
  /\ UNCHANGED faults

\* The main loop receives from Pump.Fatal: "stay up, stop talking to the phone".
HandleFatal ==
  /\ daemon = "loop" /\ selecting /\ fatal # "none"
  /\ IF fatal = "listen" THEN Exits
     ELSE /\ authExpired' = TRUE /\ selecting' = FALSE
          /\ fatal' = "none" /\ connected' = FALSE
          /\ UNCHANGED <<disk, phoneVars, daemon, session, callback, pairing, shutdown, auth>>
  /\ UNCHANGED faults

HandleShutdown ==
  /\ daemon = "loop" /\ shutdown
  /\ Exits /\ UNCHANGED faults

-----------------------------------------------------------------------------
(***************************************************************************)
(* The callback of the daemon's client: one event at a time, and only      *)
(* while it is connected                                                   *)
(***************************************************************************)

Handle(s) ==
  /\ callback' = s
  /\ UNCHANGED <<phoneVars, daemon, session, connected, pairing, shutdown, auth>>

\* A token is refreshed: dispatch saves the session first.
TokenRefreshed ==
  /\ connected /\ callback = "none"
  /\ SaveBegins("callback", session)
  /\ Handle("refresh")
  /\ UNCHANGED <<fatal, selecting, authExpired, faults>>

TokenSaved ==
  /\ SaveEnds("callback")
  /\ Handle("none")
  /\ UNCHANGED <<fatal, selecting, authExpired, faults>>

\* The connection is ready, at first or again: HandleGMEvent clears the flag,
\* whatever it has heard before.
ClientReady ==
  /\ connected /\ callback = "none" /\ authExpired
  /\ authExpired' = FALSE
  /\ Handle("none")
  /\ UNCHANGED <<disk, fatal, selecting, faults>>

\* GaiaLoggedOut, or ListenFatalError: the pump comes first.  Its channel has
\* room for one error.
FatalEvent ==
  /\ connected /\ callback = "none"
  /\ \E e \in {"logged_out", "listen"} :
       /\ e = "logged_out" => session \in loggedOut
       /\ e = "listen" => Fault
       /\ e = "logged_out" => UNCHANGED faults
       /\ fatal' = IF fatal = "none" THEN e ELSE fatal
       /\ Handle(e)
  /\ UNCHANGED <<disk, selecting, authExpired>>

\* Then HandleGMEvent, which knows nothing of listen errors.
FatalHandled ==
  /\ callback \in {"logged_out", "listen"}
  /\ authExpired' = (authExpired \/ callback = "logged_out")
  /\ Handle("none")
  /\ UNCHANGED <<disk, fatal, selecting, faults>>

-----------------------------------------------------------------------------
(***************************************************************************)
(* Pairing                                                                 *)
(***************************************************************************)

\* auth.pair, auth.pair.google: the old session is disconnected, if it has been connected
\* yet: clients are served before that.
StartPairing ==
  /\ Up /\ pairing = "off"
  /\ pairing' = "wait"
  /\ connected' = FALSE
  /\ UNCHANGED <<disk, phoneVars, daemon, session, callback, fatal, selecting, authExpired,
                 shutdown, auth, faults>>

\* The phone agrees, and the new session is saved, whatever callback was on its way at the
\* Disconnect.
PairingConfirmed ==
  /\ pairing = "wait" /\ paired < MaxPairings
  /\ paired' = paired + 1
  /\ SaveBegins("pairing", paired')
  /\ pairing' = "save"
  /\ UNCHANGED <<saved, loggedOut, daemon, loop, shutdown, auth, faults>>

\* It is refused, or times out: pair.error; the client stays disconnected.
PairingFails ==
  /\ pairing = "wait" /\ Fault
  /\ pairing' = "off"
  /\ UNCHANGED <<disk, phoneVars, daemon, loop, shutdown, auth>>

\* saveAuth returns: pair.success, unless its rename failed.
PairingSaved ==
  /\ pairing = "save" /\ SaveEnds("pairing")
  /\ IF tmp = None
       THEN pairing' = "off" /\ UNCHANGED <<saved, authExpired>>
       ELSE pairing' = "saved" /\ saved' = saver["pairing"].session /\ authExpired' = FALSE
  /\ UNCHANGED <<paired, loggedOut, daemon, session, connected, callback, fatal, selecting,
                 shutdown, auth, faults>>

\* Mutant: the daemon goes on with the session it has.
NoShutdown ==
  /\ pairing = "saved"
  /\ pairing' = "off"
  /\ UNCHANGED <<disk, phoneVars, daemon, loop, shutdown, auth, faults>>

\* Half a second later: requestShutdown, and the guard is released.
RequestShutdown ==
  /\ pairing = "saved"
  /\ pairing' = "off" /\ shutdown' = TRUE
  /\ UNCHANGED <<disk, phoneVars, daemon, loop, auth, faults>>

\* gmcli auth: stopRunningDaemon calls daemon.shutdown, and dials for 5 s until
\* nobody answers: a daemon that is still importing does not go in time, and a client may
\* start another at any time.
StopRunningDaemon ==
  /\ auth = "off" /\ paired < MaxPairings /\ Fault
  /\ auth' = "wait"
  /\ shutdown' = (shutdown \/ Up)
  /\ UNCHANGED <<disk, phoneVars, daemon, loop, pairing>>

AuthConfirmed ==
  /\ auth = "wait" /\ paired < MaxPairings
  /\ paired' = paired + 1
  /\ SaveBegins("auth", paired')
  /\ auth' = "save"
  /\ UNCHANGED <<saved, loggedOut, daemon, loop, pairing, shutdown, faults>>

\* Nobody confirms within PairTimeout, or the user stops it.
AuthFails ==
  /\ auth = "wait"
  /\ auth' = "off"
  /\ UNCHANGED <<disk, phoneVars, daemon, loop, pairing, shutdown, faults>>

AuthSaved ==
  /\ auth = "save" /\ SaveEnds("auth")
  /\ auth' = "off"
  /\ saved' = IF tmp = None THEN saved ELSE saver["auth"].session
  /\ UNCHANGED <<paired, loggedOut, daemon, loop, pairing, shutdown, faults>>

\* The phone's owner unpairs a session.
LogOut ==
  /\ Fault
  /\ loggedOut' = loggedOut \union {session}
  /\ UNCHANGED <<disk, paired, saved, daemon, loop, pairing, shutdown, auth>>

-----------------------------------------------------------------------------
Init ==
  /\ content = [n \in 0..MaxSaves |-> IF n = 0 THEN 0 ELSE None]
  /\ file = 0 /\ tmp = None
  /\ saver = [p \in Savers |-> NotSaving] /\ saves = 0
  /\ paired = 0 /\ saved = 0 /\ loggedOut = {}
  /\ daemon = "down" /\ session = 0 /\ connected = FALSE /\ callback = "none"
  /\ fatal = "none" /\ selecting = TRUE /\ authExpired = FALSE
  /\ pairing = "off" /\ shutdown = FALSE /\ auth = "off" /\ faults = 0 /\ fought = FALSE

SaveStep == \E p \in Savers : SaveOpen(p) \/ SaveWrite(p)
CallbackStep == TokenSaved \/ FatalHandled
PairingStep == PairingSaved \/ RequestShutdown
MainStep == Connect \/ Imported \/ HandleFatal \/ HandleShutdown

Step ==
  \/ Start \/ MainStep \/ Kill
  \/ SaveStep \/ (\E p \in Savers : SaveFails(p))
  \/ CallbackStep \/ TokenRefreshed \/ ClientReady \/ FatalEvent
  \/ StartPairing \/ PairingConfirmed \/ PairingFails \/ PairingStep
  \/ StopRunningDaemon \/ AuthConfirmed \/ AuthFails \/ AuthSaved
  \/ LogOut

\* A step with the history.
Does(A) == A /\ fought' = (fought \/ Fighting')

Next == Does(Step)

Spec == Init /\ [][Next]_vars

(***************************************************************************)
(* Goroutines run, and somebody wants the daemon: a client starts it       *)
(* again.  The phone's owner need not confirm, the phone need not report a *)
(* logout, and the calls to it of Connect and the import, which have no    *)
(* limit, need not return.                                                 *)
(***************************************************************************)
Fairness ==
  /\ WF_vars(Does(Start))
  /\ WF_vars(Does(HandleFatal)) /\ WF_vars(Does(HandleShutdown))
  /\ WF_vars(Does(SaveStep)) /\ WF_vars(Does(CallbackStep)) /\ WF_vars(Does(PairingStep))
  /\ WF_vars(Does(AuthFails)) /\ WF_vars(Does(AuthSaved))

FairSpec == Spec /\ Fairness

-----------------------------------------------------------------------------
(***************************************************************************)
(* Properties                                                              *)
(***************************************************************************)

Flags == {connected, selecting, authExpired, shutdown, fought} \subseteq BOOLEAN

\* Every variable has its type; who saves has an inode, a
\* pairing that saves is the one that pairs, and nothing of a daemon that is
\* down goes on.
TypeOK ==
  /\ content \in [0..MaxSaves -> 0..MaxPairings \union {Torn, None}]
  /\ file \in 0..MaxSaves /\ tmp \in 0..MaxSaves \union {None}
  /\ saver \in [Savers -> [at : {"off", "open", "write", "rename"},
                           inode : 0..MaxSaves \union {None}, session : 0..MaxPairings]]
  /\ saves \in 0..MaxSaves /\ faults \in 0..MaxFaults
  /\ \A p \in Savers : saver[p].inode # None <=> Saving(p)
  /\ paired \in 0..MaxPairings /\ saved \in 0..paired /\ loggedOut \subseteq 0..MaxPairings
  /\ daemon \in {"down", "starting", "import", "loop"} /\ session \in 0..MaxPairings
  /\ Flags
  /\ callback \in {"none", "refresh", "logged_out", "listen"}
  /\ fatal \in {"none", "logged_out", "listen"}
  /\ pairing \in {"off", "wait", "save", "saved"}
  /\ auth \in {"off", "wait", "save"}
  /\ pairing = "save" <=> Saving("pairing")
  /\ auth = "save" <=> Saving("auth")
  /\ ~Up => ~connected /\ callback = "none" /\ pairing = "off" /\ ~Saving("callback")

\* session.json is always whole, and never goes back behind a pairing that was reported as
\* successful, although the daemon may be killed, or a save fail, at any step, and the old
\* session saves itself at every refresh; unless the old session was about while a new one
\* was saved (saveAuth, "stop it from fighting over the relay").
SessionIsKept == ~fought => content[file] # Torn /\ content[file] >= saved

\* "Existing session.json (if any) is overwritten on success" (Pair): a pairing that is
\* reported as successful has put its session there.
OverwrittenOnSuccess == [][saved' # saved => content'[file'] = saved']_vars

\* What Connect and the import ask of the phone comes to an end, again and again.
PhoneAnswers == []<>(daemon \in {"down", "loop"})

\* "Stay up, stop talking to the phone, and serve the archive with an
\* auth_expired status until the user re-pairs" (serve.go): so does a daemon
\* that hears that it is logged out, even in the middle of an import that ends or of a
\* pairing, unless a listen error or a shutdown ends it first.
LoggedOutIsQuiet ==
  PhoneAnswers =>
    (callback = "logged_out" ~> ~Up \/ (~connected /\ (authExpired \/ saved > session)))

\* A daemon that gmcli auth has not told to stop runs while it pairs.
Beside == Up /\ auth # "off" /\ ~shutdown

Loads == \A s \in 1..MaxPairings : saved = s ~> Up /\ session >= s

\* "On success the daemon restarts to load the new session" (docs/rpc-protocol.md): in the
\* end a daemon runs with the latest pairing that was reported as successful, whatever it
\* was doing, if its calls to the phone end, and unless the old session was about.
NewSessionLoads == PhoneAnswers /\ []~(fought \/ Beside) => Loads

\* "stop it so the next client auto-starts a fresh daemon with the new pairing" (gmcli
\* auth): the same, whatever daemon a client has started meanwhile.
FreshDaemonNext == PhoneAnswers => Loads
=============================================================================
