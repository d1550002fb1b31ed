---------------------------- MODULE DaemonStart -----------------------------
(***************************************************************************)
(* How clients come to a daemon: the socket file of one store, the daemons *)
(* that take it over (rpc.Listen, `gmcli serve`), and the clients that     *)
(* start one on demand: Go clients by daemonctl.EnsureRunning, the TUI by  *)
(* its own autostart_daemon.                                               *)
(*                                                                         *)
(* Nothing but the file coordinates the processes.  Listen looks at it,    *)
(* dials it, removes it and binds it in separate system calls; a listener  *)
(* is closed by unlinking whatever has its name, and a daemon that returns *)
(* from serve may be gone before it gets to that.                          *)
(***************************************************************************)
EXTENDS Naturals

CONSTANTS
  Daemons,      \* daemon processes; one that is dead stands for a new one
  Clients,      \* client processes
  GoClients,    \* those that use daemonctl (the others are gmtui)
  None, Stale,  \* no file; a file nobody listens on any more
  MaxQuits      \* bound on the daemons that crash, are told to quit or are started by hand

ASSUME GoClientsAssumption == GoClients \subseteq Clients
ASSUME PathAssumption == {None, Stale} \cap Daemons = {} /\ None # Stale
ASSUME MaxQuitsAssumption == MaxQuits \in Nat

VARIABLES
  paired,    \* the store has a paired session
  path,      \* the file: None, Stale, or the daemon that bound it
  dpc,       \* dpc[d]: where daemon d is in serve and Listen
  cpc,       \* cpc[c]: where client c is
  child,     \* child[c]: the daemon c has started and waits for
  conn,      \* conn[c]: the daemon c is connected to
  met,       \* met[c]: gmtui c has been connected, and shows its screen
  quits,     \* daemons that crashed, were told to quit or were started by hand
  due,       \* daemons without clients whose idle period is all but over
  raced      \* a daemon bound the file between another's look and removal (history)

clientVars == <<cpc, child, conn, met>>
startVars == <<paired, path, dpc, clientVars, quits, due, raced>>

\* A bound socket refuses connections until listen(2).
Listening(d) == dpc[d] \in {"chmod", "serving", "leaving"}
Reachable == \E d \in Daemons : path = d /\ Listening(d)
Serving == {d \in Daemons : dpc[d] = "serving"}
Starting == {d \in Daemons : dpc[d] \notin {"dead", "serving", "leaving", "unlinked"}}

\* Listen has looked at the file, and has not yet removed what it took for stale, while
\* another daemon has bound its socket there and does not accept yet.
Racing == \E d, e \in Daemons : dpc[d] = "listen" /\ dpc[e] \in {"dial", "remove"}

\* Nobody runs a failed command again unless they want to, nor a gmtui that failed before
\* it had a screen (main.rs:202).
Dormant(c) == cpc[c] = "failed" /\ ~met[c]

DaemonGoes(d, s) ==
  /\ dpc' = [dpc EXCEPT ![d] = s]
  /\ UNCHANGED <<clientVars, quits, due>>

\* The process is gone: its file is stale, its connections are closed.
Dies(d) ==
  /\ dpc' = [dpc EXCEPT ![d] = "dead"]
  /\ path' = IF path = d THEN Stale ELSE path
  /\ conn' = [c \in Clients |-> IF conn[c] = d THEN None ELSE conn[c]]
  /\ cpc' = [c \in Clients |-> IF conn[c] = d THEN "failed" ELSE cpc[c]]
  /\ due' = due \ {d}
  /\ UNCHANGED <<child, met>>

-----------------------------------------------------------------------------
(***************************************************************************)
(* A daemon                                                                *)
(***************************************************************************)

\* Entries that stand for no process anybody remembers.
Free == {d \in Daemons : dpc[d] = "dead" /\ \A c \in Clients : child[c] # d}

\* A new process starts, with or without --offline.
Starts(d, off) ==
  /\ d \in Free /\ d = CHOOSE e \in Free : TRUE
  /\ dpc' = [dpc EXCEPT ![d] = IF off THEN "openOffline" ELSE "open"]
  /\ UNCHANGED <<path, conn, met, due>>

\* Somebody runs `gmcli serve`.
ServeByHand(d) ==
  /\ quits < MaxQuits
  /\ quits' = quits + 1
  /\ \E off \in BOOLEAN : Starts(d, off)
  /\ UNCHANGED <<cpc, child>>

\* serve opens the store and, unless offline, the paired session.
OpenSession(d) ==
  /\ dpc[d] \in {"open", "openOffline"}
  /\ DaemonGoes(d, IF paired \/ dpc[d] = "openOffline" THEN "stat" ELSE "dead")
  /\ UNCHANGED path

Stat(d) ==
  /\ dpc[d] = "stat"
  /\ DaemonGoes(d, IF path = None THEN "bind" ELSE "dial")
  /\ UNCHANGED path

\* Mutant: the file is removed without asking whether somebody listens.
DialNobody(d) ==
  /\ dpc[d] = "dial"
  /\ DaemonGoes(d, "remove")
  /\ UNCHANGED path

\* "another gmcli daemon is already listening", or the file looks stale.
Dial(d) ==
  /\ dpc[d] = "dial"
  /\ DaemonGoes(d, IF Reachable THEN "dead" ELSE "remove")
  /\ UNCHANGED path

\* Mutant: a stale file is left to net.Listen.
RemoveNothing(d) ==
  /\ dpc[d] = "remove"
  /\ DaemonGoes(d, "bind")
  /\ UNCHANGED path

\* os.Remove fails when the file has gone meanwhile.
Remove(d) ==
  /\ dpc[d] = "remove"
  /\ DaemonGoes(d, IF path = None THEN "dead" ELSE "bind")
  /\ path' = None

Bind(d) ==
  /\ dpc[d] = "bind"
  /\ DaemonGoes(d, IF path = None THEN "listen" ELSE "dead")
  /\ path' = IF path = None THEN d ELSE path

ListenOn(d) ==
  /\ dpc[d] = "listen"
  /\ DaemonGoes(d, "chmod")
  /\ UNCHANGED path

\* os.Chmod goes by the name of the file; the daemon is up.
Chmod(d) ==
  /\ dpc[d] = "chmod"
  /\ DaemonGoes(d, IF path = None THEN "dead" ELSE "serving")
  /\ UNCHANGED path

\* Minutes pass, which is longer than a client is on its way (30 s for a daemon to come up,
\* 15 s between gmtui's attempts).
MinutesPass ==
  /\ \A c \in Clients : cpc[c] \in {"away", "connected"} \/ Dormant(c)
  /\ due' = {d \in Serving : \A c \in Clients : conn[c] # d}
  /\ UNCHANGED <<path, dpc, clientVars, quits>>

\* The idle signal: a client that is on its way may come too late.
Retire(d) ==
  /\ dpc[d] = "serving" /\ d \in due
  /\ DaemonGoes(d, "leaving")
  /\ UNCHANGED path

\* A signal, daemon.shutdown, or an error of client.Connect.
Quit(d) ==
  /\ dpc[d] = "serving" /\ quits < MaxQuits
  /\ quits' = quits + 1
  /\ dpc' = [dpc EXCEPT ![d] = "leaving"]
  /\ UNCHANGED <<path, clientVars, due>>

\* ln.Close: unlinks the name, then closes the socket.
Unlink(d) ==
  /\ dpc[d] = "leaving"
  /\ path' = None
  /\ DaemonGoes(d, "unlinked")

\* The process ends, whether or not ln.Close has run.
ProcessExit(d) ==
  /\ dpc[d] \in {"leaving", "unlinked"}
  /\ Dies(d)
  /\ UNCHANGED quits

Crash(d) ==
  /\ dpc[d] # "dead" /\ quits < MaxQuits
  /\ quits' = quits + 1
  /\ Dies(d)

DaemonStep(d) ==
  OpenSession(d) \/ Stat(d) \/ Dial(d) \/ Remove(d) \/ Bind(d) \/ ListenOn(d)
    \/ Chmod(d) \/ ProcessExit(d)

-----------------------------------------------------------------------------
(***************************************************************************)
(* A client                                                                *)
(***************************************************************************)

ClientGoes(c, s) ==
  /\ cpc' = [cpc EXCEPT ![c] = s]
  /\ UNCHANGED <<path, dpc, conn, met, quits, due>>

Arrive(c) ==
  /\ cpc[c] = "away"
  /\ ClientGoes(c, "probe")
  /\ UNCHANGED child

Probe(c) ==
  /\ cpc[c] = "probe"
  /\ ClientGoes(c, IF Reachable THEN "connect" ELSE "spawn")
  /\ UNCHANGED child

\* Only daemonctl looks for a session; gmtui passes what it was told.
Autostart(c, d) ==
  /\ cpc[c] = "spawn"
  /\ Starts(d, c \in GoClients /\ ~paired)
  /\ UNCHANGED quits
  /\ child' = [child EXCEPT ![c] = d]
  /\ cpc' = [cpc EXCEPT ![c] = "poll"]

\* At the bound of the processes: the one c would start finds the socket live and exits,
\* before or after c looks whether it has.
Outrun(c) ==
  /\ cpc[c] = "spawn" /\ Free = {} /\ Reachable
  /\ ClientGoes(c, "connect") \/ (c \in GoClients /\ ClientGoes(c, "failed"))
  /\ UNCHANGED child

Poll(c) ==
  /\ cpc[c] = "poll"
  /\ \/ Reachable /\ ClientGoes(c, "connect") /\ child' = [child EXCEPT ![c] = None]
     \/ ~Reachable /\ c \in GoClients /\ ClientGoes(c, "check") /\ UNCHANGED child

\* cmd.ProcessState: "gmcli daemon exited during startup".
CheckExited(c) ==
  /\ cpc[c] = "check"
  /\ IF dpc[child[c]] = "dead"
       THEN ClientGoes(c, "failed") /\ child' = [child EXCEPT ![c] = None]
       ELSE ClientGoes(c, "poll") /\ UNCHANGED child

\* "daemon did not come up within 30s": far beyond the time a daemon needs, so
\* the client's own has come up, or died, or lost its file.
Deadline(c) ==
  /\ cpc[c] = "poll" /\ ~Reachable
  /\ child[c] \notin Starting
  /\ ClientGoes(c, "failed")
  /\ child' = [child EXCEPT ![c] = None]

\* Mutant: a client whose connection is refused dials again and again.
ConnectForEver(c) ==
  /\ cpc[c] = "connect"
  /\ cpc' = [cpc EXCEPT ![c] = IF Reachable THEN "connected" ELSE @]
  /\ conn' = [conn EXCEPT ![c] = IF Reachable THEN path ELSE None]
  /\ met' = [met EXCEPT ![c] = @ \/ (Reachable /\ c \notin GoClients)]
  /\ due' = IF Reachable THEN due \ {path} ELSE due
  /\ UNCHANGED <<path, dpc, child, quits>>

Connect(c) ==
  /\ cpc[c] = "connect"
  /\ cpc' = [cpc EXCEPT ![c] = IF Reachable THEN "connected" ELSE "failed"]
  /\ conn' = [conn EXCEPT ![c] = IF Reachable THEN path ELSE None]
  /\ met' = [met EXCEPT ![c] = @ \/ (Reachable /\ c \notin GoClients)]
  /\ due' = IF Reachable THEN due \ {path} ELSE due
  /\ UNCHANGED <<path, dpc, child, quits>>

\* gmtui's reconnect loop, once it has been connected; somebody runs the command again.
Retry(c) ==
  /\ cpc[c] = "failed"
  /\ ClientGoes(c, "probe")
  /\ UNCHANGED child

Disconnect(c) ==
  /\ cpc[c] = "connected"
  /\ cpc' = [cpc EXCEPT ![c] = "away"]
  /\ conn' = [conn EXCEPT ![c] = None]
  /\ met' = [met EXCEPT ![c] = FALSE]
  /\ UNCHANGED <<path, dpc, child, quits, due>>

ClientStep(c) ==
  Probe(c) \/ Outrun(c) \/ Poll(c) \/ CheckExited(c) \/ Deadline(c) \/ Connect(c)

-----------------------------------------------------------------------------
StartInit ==
  /\ paired \in BOOLEAN
  /\ path \in {None, Stale}
  /\ dpc = [d \in Daemons |-> "dead"]
  /\ cpc = [c \in Clients |-> "away"]
  /\ child = [c \in Clients |-> None]
  /\ conn = [c \in Clients |-> None]
  /\ met = [c \in Clients |-> FALSE]
  /\ quits = 0 /\ due = {} /\ raced = FALSE

StartStep ==
  \/ \E d \in Daemons :
       DaemonStep(d) \/ ServeByHand(d) \/ Retire(d) \/ Quit(d) \/ Unlink(d) \/ Crash(d)
  \/ \E c \in Clients :
       \/ Arrive(c) \/ ClientStep(c) \/ Retry(c) \/ Disconnect(c)
       \/ \E d \in Daemons : Autostart(c, d)
  \/ MinutesPass

StartNext == StartStep /\ UNCHANGED paired /\ raced' = (raced \/ Racing')

StartSpec == StartInit /\ [][StartNext]_startVars

\* A step with the history.
Does(A) == A /\ UNCHANGED paired /\ raced' = (raced \/ Racing')

(***************************************************************************)
(* Processes run, a daemon nobody uses retires, and a gmtui that has been  *)
(* connected keeps trying.  EnsureRunning's loop comes by its deadline     *)
(* again and again, and there is always another process.                   *)
(***************************************************************************)
Fairness ==
  /\ WF_startVars(Does(MinutesPass))
  /\ \A d \in Daemons : WF_startVars(Does(DaemonStep(d))) /\ WF_startVars(Does(Retire(d)))
  /\ \A c \in Clients :
       /\ WF_startVars(Does(ClientStep(c))) /\ SF_startVars(Does(Deadline(c)))
       /\ SF_startVars(Does(\E d \in Daemons : Autostart(c, d)))
       /\ WF_startVars(Does(met[c] /\ Retry(c)))

FairSpec == StartSpec /\ Fairness

-----------------------------------------------------------------------------
(***************************************************************************)
(* Properties                                                              *)
(***************************************************************************)

\* Every variable has its type; a client waits for a daemon only while it polls,
\* and has a connection only while it is connected.
StartTypeOK ==
  /\ paired \in BOOLEAN /\ raced \in BOOLEAN /\ due \in SUBSET Daemons
  /\ met \in [Clients -> BOOLEAN]
  /\ path \in Daemons \union {None, Stale}
  /\ dpc \in [Daemons -> {"dead", "open", "openOffline", "stat", "dial", "remove", "bind", "listen",
                          "chmod", "serving", "leaving", "unlinked"}]
  /\ cpc \in [Clients -> {"away", "probe", "spawn", "poll", "check", "connect",
                          "connected", "failed"}]
  /\ child \in [Clients -> Daemons \union {None}]
  /\ conn \in [Clients -> Daemons \union {None}]
  /\ quits \in 0..MaxQuits
  /\ \A c \in Clients : child[c] # None <=> cpc[c] \in {"poll", "check"}
  /\ \A c \in Clients : conn[c] # None <=> cpc[c] = "connected"

\* "A live one aborts with an error so two daemons never fight over one store" (Listen,
\* server.go:137), and "two clients racing to auto-start is safe" (docs/rpc-protocol.md:151).
OneDaemon == \A d, e \in Serving : d = e

\* Two daemons serve one store only if once one has bound the socket while another was
\* between its stat of the file and its removal: however starts overlap otherwise, whatever
\* daemons die and leave behind, and whoever unlinks what (Listen, Serve).
OneDaemonUnlessRaced == ~raced => OneDaemon

\* A gmtui that has had a daemon, and loses it, gets to one again as long as there is a
\* session, whatever the last daemon left at the socket's path, although daemons crash at any
\* step, and whatever races for the file there were, if only they do not recur for ever
\* (Listen, autostart_daemon, spawn_reconnect).
Served ==
  paired /\ <>[]~Racing =>
    \A t \in Clients \ GoClients : met[t] ~> (cpc[t] = "connected" \/ ~met[t])

\* A client of daemonctl, which does not retry, gets to a daemon or is told that
\* there is none: EnsureRunning always returns.
ServedOrTold ==
  \A c \in GoClients : cpc[c] # "away" ~> cpc[c] \in {"connected", "failed"}
=============================================================================
