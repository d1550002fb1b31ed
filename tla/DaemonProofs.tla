---------------------------- MODULE DaemonProofs ----------------------------
(***************************************************************************)
(* The life of the daemon, for any number of clients, tools and daemons.   *)
(* IdleExit and Mcp: a daemon without clients never forgets to retire.     *)
(* DaemonStart: however the daemons start and crash, two of them serve one *)
(* store only after a race in one window of Listen.                        *)
(***************************************************************************)
EXTENDS Mcp, DaemonStart, FiniteSetTheorems, TLAPS

(***************************************************************************)
(* The timer                                                               *)
(***************************************************************************)

TimerInv == TypeOK /\ RetirementPending

\* The timer of a daemon that has just started runs.
LEMMA InitTimerInv == Init => TimerInv
<1> SUFFICES ASSUME Init PROVE TimerInv
  OBVIOUS
<1>1. idleFired \in BOOLEAN /\ exited \in BOOLEAN
  BY Zenon DEF Init
<1> QED
  BY <1>1, PeriodAssumption, OffAssumption, MaxCallbacksAssumption
  DEF Init, TimerInv, TypeOK, RetirementPending

\* Whoever empties conns leaves something behind that will look again, and
\* whatever is used up is used up by a look.
LEMMA NextTimerInv == TimerInv /\ [Next]_vars => TimerInv'
<1> SUFFICES ASSUME TimerInv, [Next]_vars PROVE TimerInv'
  OBVIOUS
<1> USE PeriodAssumption, OffAssumption, MaxCallbacksAssumption
        DEF TimerInv, TypeOK, RetirementPending
<1>1. ASSUME NEW c \in Conns, Accept(c) PROVE TimerInv'
  BY <1>1 DEF Accept
<1>2. ASSUME NEW c \in Conns, Drop(c) PROVE TimerInv'
  BY <1>2 DEF Drop
<1>3. ASSUME NEW c \in Conns, Arm(c) PROVE TimerInv'
  BY <1>3 DEF Arm
<1>4. CASE Fire
  BY <1>4 DEF Fire
<1>5. CASE Callback
  <2>1. idleFired' \in BOOLEAN /\ exited' \in BOOLEAN
    BY <1>5, Zenon DEF Callback
  <2>2. callbacks' \in 0..MaxCallbacks
    BY <1>5 DEF Callback
  <2>3. conns' = {} => idleFired'
    BY <1>5, Zenon DEF Callback
  <2>4. UNCHANGED <<conns, arming, timer>>
    BY <1>5 DEF Callback
  <2> QED
    BY <2>1, <2>2, <2>3, <2>4
<1>6. CASE Exit
  BY <1>6 DEF Exit
<1>7. CASE Tick
  BY <1>7 DEF Tick
<1>8. CASE UNCHANGED vars
  BY <1>8 DEF vars
<1> QED
  BY <1>1, <1>2, <1>3, <1>4, <1>5, <1>6, <1>7, <1>8 DEF Next

\* The variables have their types in every reachable state.
THEOREM IdleTypeCorrect == Spec => []TypeOK
  BY InitTimerInv, NextTimerInv, PTL DEF Spec, TimerInv

\* Without clients, the daemon always has a timer, a callback or a dropConn
\* that will retire it.
THEOREM NeverForgetsToRetire == Spec => []RetirementPending
  BY InitTimerInv, NextTimerInv, PTL DEF Spec, TimerInv

-----------------------------------------------------------------------------
(***************************************************************************)
(* With the MCP server                                                     *)
(***************************************************************************)

\* McpTypeOK without the timer's part.
ToolsTyped ==
  /\ tool \in [Tools -> {"idle", "ping", "pinged", "dial", "call", "answered"}]
  /\ patience \in [Tools -> 0..Patience] /\ calls \in 0..MaxCalls

HandlersTyped ==
  /\ work \in [Tools -> {"none", "queued", "live"}]
  /\ \A t, u \in Tools : work[t] = "live" /\ work[u] = "live" => t = u

McpInv == TimerInv /\ ToolsTyped /\ HandlersTyped

LEMMA InitMcpInv == McpInit => McpInv
<1> SUFFICES ASSUME McpInit PROVE McpInv
  OBVIOUS
<1>1. TimerInv
  BY InitTimerInv DEF McpInit
<1> QED
  BY <1>1, TimesAssumption DEF McpInit, McpInv, ToolsTyped, HandlersTyped

\* A tool's step is a step of the timer's module, or starts a daemon anew.
LEMMA ToolKeepsTimer ==
  ASSUME TimerInv, NEW t \in Tools,
         \/ Begin(t) \/ Ping(t) \/ Pong(t) \/ Spawn(t) \/ NotStarted(t)
         \/ DialAndCall(t) \/ Lost(t) \/ Leave(t) \/ StartWork(t) \/ EndWork(t)
  PROVE  TimerInv'
<1>1. CASE Spawn(t)
  <2>1. idleFired' = FALSE /\ exited' = FALSE
    BY <1>1, Zenon DEF Spawn
  <2>2. idleFired' \in BOOLEAN /\ exited' \in BOOLEAN
    BY <2>1, Zenon
  <2>3. conns' = {} /\ arming' = {} /\ timer' = Period /\ callbacks' = 0
    BY <1>1 DEF Spawn
  <2> QED
    BY <2>2, <2>3, PeriodAssumption, OffAssumption, MaxCallbacksAssumption
    DEF TimerInv, TypeOK, RetirementPending
<1>2. CASE ~Spawn(t)
  <2>1. Next \/ UNCHANGED vars
    BY <1>2, ConnsAssumption
    DEF Begin, Ping, Pong, NotStarted, DialAndCall, Lost, Leave, StartWork, EndWork, Next
  <2> QED
    BY <2>1, NextTimerInv
<1> QED
  BY <1>1, <1>2

LEMMA ToolKeepsTypes ==
  ASSUME McpInv, NEW t \in Tools,
         \/ Begin(t) \/ Ping(t) \/ Pong(t) \/ Spawn(t) \/ NotStarted(t)
         \/ DialAndCall(t) \/ Lost(t) \/ Leave(t) \/ StartWork(t) \/ EndWork(t)
  PROVE  ToolsTyped' /\ HandlersTyped'
<1> USE TimesAssumption DEF McpInv, ToolsTyped, HandlersTyped, Goes, toolVars
<1>1. CASE Begin(t) \/ Ping(t) \/ Pong(t) \/ NotStarted(t) \/ Lost(t) \/ Leave(t)
  BY <1>1 DEF Begin, Ping, Pong, NotStarted, Lost, Leave
<1>2. CASE Spawn(t)
  BY <1>2 DEF Spawn
<1>3. CASE DialAndCall(t)
  BY <1>3 DEF DialAndCall
<1>4. CASE StartWork(t)
  BY <1>4 DEF StartWork
<1>5. CASE EndWork(t)
  BY <1>5 DEF EndWork
<1> QED
  BY <1>1, <1>2, <1>3, <1>4, <1>5

LEMMA NextMcpInv == McpInv /\ [McpNext]_mcpVars => McpInv'
<1> SUFFICES ASSUME McpInv, [McpNext]_mcpVars PROVE McpInv'
  OBVIOUS
<1> USE TimesAssumption DEF McpInv
<1>1. ASSUME NEW t \in Tools,
             \/ Begin(t) \/ Ping(t) \/ Pong(t) \/ Spawn(t) \/ NotStarted(t)
             \/ DialAndCall(t) \/ Lost(t) \/ Leave(t) \/ StartWork(t) \/ EndWork(t)
      PROVE  McpInv'
  BY <1>1, ToolKeepsTimer, ToolKeepsTypes
<1>2. CASE ExitNow
  <2>1. TimerInv'
    BY <1>2, NextTimerInv DEF ExitNow, Next
  <2> QED
    BY <1>2, <2>1 DEF ExitNow, ToolsTyped, HandlersTyped, toolVars
<1>3. CASE Tock
  <2>1. TimerInv'
    BY <1>3, NextTimerInv DEF Tock, Next
  <2> QED
    BY <1>3, <2>1 DEF Tock, ToolsTyped, HandlersTyped
<1>4. CASE TimerStep
  <2>1. TimerInv'
    BY <1>4, NextTimerInv DEF TimerStep, Next, Others
  <2> QED
    BY <1>4, <2>1 DEF TimerStep, ToolsTyped, HandlersTyped, toolVars
<1>5. CASE UNCHANGED mcpVars
  <2>1. TimerInv'
    BY <1>5, NextTimerInv DEF mcpVars
  <2> QED
    BY <1>5, <2>1 DEF mcpVars, ToolsTyped, HandlersTyped, toolVars
<1> QED
  BY <1>1, <1>2, <1>3, <1>4, <1>5 DEF McpNext

\* Under any number of tools that start daemons, ping, call and leave, the daemon
\* that nobody is connected to always has its retirement on the way.
THEOREM McpForgetsNoDaemon == McpSpec => []RetirementPending
<1>1. McpInv => RetirementPending
  BY DEF McpInv, TimerInv
<1> QED
  BY InitMcpInv, NextMcpInv, <1>1, PTL DEF McpSpec

\* The variables have their types, and liveMu has one holder at a time.
THEOREM McpTypeCorrect == McpSpec => []McpTypeOK
<1>1. McpInv => McpTypeOK
  BY DEF McpInv, TimerInv, McpTypeOK, ToolsTyped, HandlersTyped
<1> QED
  BY InitMcpInv, NextMcpInv, <1>1, PTL DEF McpSpec

-----------------------------------------------------------------------------
(***************************************************************************)
(* Who starts                                                              *)
(***************************************************************************)

\* Daemon d has bound the socket and not closed it.
Bound(d) == dpc[d] \in {"listen", "chmod", "serving", "leaving"}

\* While no race for the file has happened: only a daemon that has bound the file owns it
\* and is not displaced, nobody is between its look and its removal while another does not
\* accept yet, and a daemon about to remove the file takes it from nobody.
FileIsOwned == \A d \in Daemons : path = d <=> Bound(d)
RemovesOnlyStale == \A d \in Daemons : dpc[d] = "remove" => path \in {None, Stale}
FileInv == ~raced => ~Racing /\ FileIsOwned /\ RemovesOnlyStale

StartInv == StartTypeOK /\ FileInv

\* StartInv holds at the start: no daemon runs, and the file is stale or missing.
LEMMA InitStartInv == StartInit => StartInv
<1> SUFFICES ASSUME StartInit PROVE StartInv
  OBVIOUS
<1>1. paired \in BOOLEAN /\ raced \in BOOLEAN /\ met \in [Clients -> BOOLEAN]
  BY Zenon DEF StartInit
<1>2. StartTypeOK
  <2>1. /\ path \in Daemons \union {None, Stale} /\ due \in SUBSET Daemons
        /\ dpc \in [Daemons -> {"dead", "open", "openOffline", "stat", "dial", "remove", "bind",
                                "listen", "chmod", "serving", "leaving", "unlinked"}]
        /\ cpc \in [Clients -> {"away", "probe", "spawn", "poll", "check", "connect",
                                "connected", "failed"}]
        /\ child \in [Clients -> Daemons \union {None}]
        /\ conn \in [Clients -> Daemons \union {None}]
        /\ quits \in 0..MaxQuits
        /\ \A c \in Clients : child[c] # None <=> cpc[c] \in {"poll", "check"}
        /\ \A c \in Clients : conn[c] # None <=> cpc[c] = "connected"
    BY PathAssumption, MaxQuitsAssumption DEF StartInit
  <2> QED
    BY <1>1, <2>1, Zenon DEF StartTypeOK
<1>3. FileInv
  BY PathAssumption DEF StartInit, FileInv, Racing, FileIsOwned, Bound, RemovesOnlyStale
<1> QED
  BY <1>2, <1>3 DEF StartInv

\* The types are kept by every step.
LEMMA StartTypeStep == StartTypeOK /\ [StartNext]_startVars => StartTypeOK'
<1> SUFFICES ASSUME StartTypeOK, [StartNext]_startVars PROVE StartTypeOK'
  OBVIOUS
<1> DEFINE Rest == /\ path \in Daemons \union {None, Stale} /\ due \in SUBSET Daemons
                   /\ dpc \in [Daemons -> {"dead", "open", "openOffline", "stat", "dial", "remove", "bind",
                                           "listen", "chmod", "serving", "leaving", "unlinked"}]
                   /\ cpc \in [Clients -> {"away", "probe", "spawn", "poll", "check", "connect",
                                           "connected", "failed"}]
                   /\ child \in [Clients -> Daemons \union {None}]
                   /\ conn \in [Clients -> Daemons \union {None}]
                   /\ quits \in 0..MaxQuits
                   /\ \A c \in Clients : child[c] # None <=> cpc[c] \in {"poll", "check"}
                   /\ \A c \in Clients : conn[c] # None <=> cpc[c] = "connected"
<1>a. Rest
  BY DEF StartTypeOK
<1>b. paired' \in BOOLEAN /\ raced' \in BOOLEAN
  <2>1. CASE UNCHANGED startVars
    BY <2>1, Zenon DEF startVars, StartTypeOK
  <2>2. CASE StartNext
    BY <2>2, Zenon DEF StartNext, StartTypeOK
  <2> QED
    BY <2>1, <2>2
<1>c. met' \in [Clients -> BOOLEAN]
  <2>1. ASSUME NEW c \in Clients, NEW b \in BOOLEAN, met' = [met EXCEPT ![c] = b]
        PROVE  met' \in [Clients -> BOOLEAN]
    BY <2>1, Zenon DEF StartTypeOK
  <2>2. CASE met' = met
    BY <2>2, Zenon DEF StartTypeOK
  <2>3. CASE \E c \in Clients : Connect(c)
    BY <2>1, <2>3, Zenon DEF Connect, StartTypeOK
  <2>4. CASE \E c \in Clients : Disconnect(c)
    BY <2>1, <2>4, Zenon DEF Disconnect
  <2>5. \/ met' = met
        \/ \E c \in Clients : Connect(c) \/ Disconnect(c)
    BY Zenon DEF StartNext, StartStep, DaemonStep, ServeByHand, Retire, Quit, Unlink, Crash, OpenSession, Stat,
           Dial, Remove, Bind, ListenOn, Chmod, ProcessExit, Dies, DaemonGoes, Starts,
           Autostart, Arrive, ClientStep, Retry, Probe, Outrun, Poll, CheckExited, Deadline,
           ClientGoes, MinutesPass, startVars, clientVars
  <2> QED
    BY <2>2, <2>3, <2>4, <2>5
<1> USE <1>a, PathAssumption, MaxQuitsAssumption, GoClientsAssumption
<1>1. ASSUME NEW d \in Daemons, DaemonStep(d) PROVE Rest'
  BY <1>1 DEF DaemonStep, OpenSession, Stat, Dial, Remove, Bind, ListenOn,
              Chmod, ProcessExit, Dies, DaemonGoes, clientVars
<1>2. ASSUME NEW d \in Daemons, ServeByHand(d) PROVE Rest'
  BY <1>2 DEF ServeByHand, Starts
<1>3. ASSUME NEW d \in Daemons, Retire(d) \/ Unlink(d) PROVE Rest'
  BY <1>3 DEF Retire, Unlink, DaemonGoes, clientVars
<1>4. ASSUME NEW d \in Daemons, Quit(d) \/ Crash(d) PROVE Rest'
  BY <1>4 DEF Quit, Crash, Dies, clientVars
<1>5. ASSUME NEW c \in Clients, Arrive(c) \/ Retry(c) \/ Disconnect(c) PROVE Rest'
  BY <1>5 DEF Arrive, Retry, Disconnect, ClientGoes
<1>6. ASSUME NEW c \in Clients, ClientStep(c) PROVE Rest'
  BY <1>6 DEF ClientStep, Probe, Outrun, Poll, CheckExited, Deadline, Connect,
              ClientGoes, Reachable
<1>7. ASSUME NEW c \in Clients, NEW d \in Daemons, Autostart(c, d) PROVE Rest'
  BY <1>7 DEF Autostart, Starts
<1>8. ASSUME MinutesPass PROVE Rest'
  BY <1>8 DEF MinutesPass, Serving, clientVars
<1>9. ASSUME UNCHANGED startVars PROVE Rest'
  BY <1>9 DEF startVars, clientVars
<1>10. Rest'
  BY <1>1, <1>2, <1>3, <1>4, <1>5, <1>6, <1>7, <1>8, <1>9 DEF StartNext, StartStep
<1> HIDE DEF Rest
<1>11. StartTypeOK' <=> Rest' /\ paired' \in BOOLEAN /\ raced' \in BOOLEAN /\ met' \in [Clients -> BOOLEAN]
  BY Zenon DEF StartTypeOK, Rest
<1> QED
  BY <1>b, <1>c, <1>10, <1>11

\* Without a race, the file stays with the daemon that bound it.
LEMMA FileKept ==
  ASSUME StartInv, [StartNext]_startVars
  PROVE  FileInv'
<1> DEFINE Kept == FileIsOwned' /\ RemovesOnlyStale'
<1> SUFFICES ASSUME ~raced' PROVE ~Racing' /\ Kept
  BY DEF FileInv
<1>1. CASE UNCHANGED startVars
  BY <1>1 DEF startVars, StartInv, FileInv, Racing, FileIsOwned, Bound, RemovesOnlyStale
<1>2. CASE StartNext
  <2>1. ~raced /\ ~Racing' /\ ~Racing /\ FileIsOwned /\ RemovesOnlyStale /\ StartTypeOK
    BY <1>2 DEF StartNext, StartInv, FileInv
  <2> USE <2>1, PathAssumption DEF StartTypeOK, FileIsOwned, Bound, RemovesOnlyStale
  <2>2. ASSUME NEW d \in Daemons, \E off \in BOOLEAN : Starts(d, off)
        PROVE  Kept
    BY <2>2 DEF Starts, Free
  <2>3. ASSUME NEW d \in Daemons, OpenSession(d) \/ Stat(d)
        PROVE  Kept
    BY <2>3 DEF OpenSession, Stat, DaemonGoes
  <2>4. ASSUME NEW d \in Daemons, Dial(d)
        PROVE  Kept
    BY <2>4 DEF Dial, DaemonGoes, Reachable, Listening, Racing
  <2>5. ASSUME NEW d \in Daemons, Remove(d) \/ Chmod(d) \/ ListenOn(d)
        PROVE  Kept
    BY <2>5 DEF Remove, Chmod, ListenOn, DaemonGoes
  <2>6. ASSUME NEW d \in Daemons, Bind(d)
        PROVE  Kept
    BY <2>6 DEF Bind, DaemonGoes, Racing
  <2>7. ASSUME NEW d \in Daemons, Retire(d) \/ Quit(d) \/ Unlink(d)
        PROVE  Kept
    BY <2>7 DEF Retire, Quit, Unlink, DaemonGoes
  <2>8. ASSUME NEW d \in Daemons, ProcessExit(d) \/ Crash(d)
        PROVE  Kept
    BY <2>8 DEF ProcessExit, Crash, Dies
  <2>9. ASSUME UNCHANGED <<path, dpc>>
        PROVE  Kept
    BY <2>9
  <2>10. \/ UNCHANGED <<path, dpc>>
         \/ \E d \in Daemons : \/ \E off \in BOOLEAN : Starts(d, off)
                               \/ Retire(d) \/ Quit(d) \/ Unlink(d) \/ Crash(d)
                               \/ DaemonStep(d)
    <3>1. ASSUME NEW c \in Clients, NEW d \in Daemons, Autostart(c, d)
          PROVE  \E off \in BOOLEAN : Starts(d, off)
      BY <3>1, Zenon DEF Autostart
    <3> QED
      BY <1>2, <3>1 DEF StartNext, StartStep, ServeByHand, Arrive, ClientStep, Retry, Disconnect, Probe,
         Outrun, Poll, CheckExited, Deadline, Connect, ClientGoes, MinutesPass
  <2> HIDE DEF Kept
  <2> QED
    BY <2>2, <2>3, <2>4, <2>5, <2>6, <2>7, <2>8, <2>9, <2>10 DEF DaemonStep
<1> QED
  BY <1>1, <1>2

\* The variables have their types in every reachable state, whatever overlaps.
THEOREM StartTypeCorrect == StartSpec => []StartTypeOK
<1>1. StartInit => StartTypeOK
  BY InitStartInv DEF StartInv
<1> QED
  BY <1>1, StartTypeStep, PTL DEF StartSpec

\* However many daemons start at once, by however many clients and after whatever crashes,
\* two serve one store only if one has bound the socket while another was between its look
\* at the file and its removal: that is the one window in Listen.
THEOREM NeverTwoDaemons == StartSpec => []OneDaemonUnlessRaced
<1>1. StartInv /\ [StartNext]_startVars => StartInv'
  BY StartTypeStep, FileKept DEF StartInv
<1>2. StartInv => OneDaemonUnlessRaced
  BY DEF StartInv, FileInv, FileIsOwned, Bound, OneDaemonUnlessRaced, OneDaemon, Serving
<1> QED
  BY <1>1, <1>2, InitStartInv, PTL DEF StartSpec
=============================================================================
