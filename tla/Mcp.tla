-------------------------------- MODULE Mcp ---------------------------------
(***************************************************************************)
(* The MCP server's live tools (internal/cmd/mcp.go) over the on-demand    *)
(* daemon, composed with the timer that retires it (IdleExit).             *)
(*                                                                         *)
(* A tool makes sure that a daemon runs, over a connection of its own,     *)
(* then dials, calls, and closes, with five minutes of patience.  The      *)
(* daemon knows connections and not work: a handler goes on when its       *)
(* client has left, one at a time under liveMu and for as long as libgm    *)
(* likes, and the daemon may retire under it.  A tick is minutes; whatever *)
(* does not wait takes no tick.                                            *)
(***************************************************************************)
EXTENDS IdleExit

CONSTANTS
  Tools,      \* tool calls that can be under way at a time
  PingOf,     \* PingOf[t]: the connection over which t pings the daemon
  CallOf,     \* CallOf[t]: the connection of its call
  Patience,   \* mcpLiveTimeout
  MaxCalls    \* bound on the tool calls

ASSUME ConnsAssumption == /\ PingOf \in [Tools -> Conns] /\ CallOf \in [Tools -> Conns]
                          /\ \A t, u \in Tools : PingOf[t] # CallOf[u]
                          /\ \A t, u \in Tools : t # u => /\ PingOf[t] # PingOf[u]
                                                          /\ CallOf[t] # CallOf[u]
ASSUME TimesAssumption == {Patience, MaxCalls} \subseteq Nat \ {0}

VARIABLES
  tool,      \* tool[t]: "idle", "ping", "pinged", "dial", "call" or "answered"
  patience,  \* patience[t]: ticks until t gives up its call
  work,      \* work[t]: the handler of t's call: "none", "queued" or "live"
  calls

toolVars == <<tool, patience, calls>>
mcpVars == <<vars, toolVars, work>>

Goes(t, s) == tool' = [tool EXCEPT ![t] = s] /\ UNCHANGED <<patience, calls>>

\* Connections of clients that are no tools.
Others == Conns \ {f[t] : f \in {PingOf, CallOf}, t \in Tools}

-----------------------------------------------------------------------------
(***************************************************************************)
(* A tool: EnsureRunning, Dial, Call, Close                                *)
(***************************************************************************)

\* A call whose handler is still at work keeps its place.
Begin(t) ==
  /\ tool[t] = "idle" /\ work[t] = "none" /\ calls < MaxCalls
  /\ calls' = calls + 1
  /\ tool' = [tool EXCEPT ![t] = "ping"]
  /\ UNCHANGED <<vars, patience, work>>

\* alive: a connection of its own.
Ping(t) ==
  /\ tool[t] = "ping"
  /\ Accept(PingOf[t])
  /\ Goes(t, "pinged")
  /\ UNCHANGED work

Pong(t) ==
  /\ tool[t] = "pinged" /\ ~exited
  /\ Drop(PingOf[t])
  /\ Goes(t, "dial")
  /\ UNCHANGED work

\* Nobody answers: a daemon is started, with a timer that runs.  Which of several
\* gets the socket is DaemonStart's matter.
Spawn(t) ==
  /\ tool[t] \in {"ping", "pinged"} /\ exited
  /\ exited' = FALSE
  /\ conns' = {} /\ arming' = {} /\ timer' = Period
  /\ callbacks' = 0 /\ idleFired' = FALSE
  /\ tool' = [u \in Tools |-> IF tool[u] = "pinged" THEN "ping" ELSE tool[u]]
  /\ UNCHANGED <<patience, calls, work>>

\* The daemon does not come up in time.
NotStarted(t) ==
  /\ tool[t] \in {"ping", "pinged"} /\ exited
  /\ Goes(t, "idle")
  /\ UNCHANGED <<vars, work>>

\* dialServe's Dial, and the call; its handler answers at once, or has to do with the
\* phone.
DialAndCall(t) ==
  /\ tool[t] = "dial"
  /\ Accept(CallOf[t])
  /\ \/ /\ tool' = [tool EXCEPT ![t] = "answered"]
        /\ UNCHANGED <<patience, calls, work>>
     \/ /\ tool' = [tool EXCEPT ![t] = "call"]
        /\ patience' = [patience EXCEPT ![t] = Patience]
        /\ work' = [work EXCEPT ![t] = "queued"]
        /\ UNCHANGED calls

\* The connection has gone with the daemon, or cannot be made: an error.
Lost(t) ==
  /\ \/ tool[t] \in {"dial", "call", "answered"} /\ exited
     \/ tool[t] \in {"call", "answered"} /\ CallOf[t] \notin conns
  /\ Goes(t, "idle")
  /\ UNCHANGED <<vars, work>>

\* Mutant: the call is waited for without a context of its own.
LeaveAnswered(t) ==
  /\ tool[t] = "answered"
  /\ Drop(CallOf[t])
  /\ Goes(t, "idle")
  /\ UNCHANGED work

\* The answer is there, the patience is at its end, or the MCP server is killed.
\* Nobody tells the handler.
Leave(t) ==
  /\ tool[t] \in {"call", "answered"}
  /\ Drop(CallOf[t])
  /\ Goes(t, "idle")
  /\ UNCHANGED work

-----------------------------------------------------------------------------
(***************************************************************************)
(* The daemon                                                              *)
(***************************************************************************)

\* liveMu.Lock.
StartWork(t) ==
  /\ work[t] = "queued" /\ \A u \in Tools : work[u] # "live"
  /\ work' = [work EXCEPT ![t] = "live"]
  /\ UNCHANGED <<vars, toolVars>>

\* The handler returns; its reply is written if the connection is still there.
EndWork(t) ==
  /\ work[t] = "live"
  /\ work' = [work EXCEPT ![t] = "none"]
  /\ tool' = [tool EXCEPT ![t] = IF @ = "call" THEN "answered" ELSE @]
  /\ UNCHANGED <<vars, patience, calls>>

\* serve returns: its handlers and connections are gone.
ExitNow ==
  /\ Exit
  /\ work' = [t \in Tools |-> "none"]
  /\ UNCHANGED toolVars

\* Time passes: for the timer and the tools.
Tock ==
  /\ callbacks = 0
  /\ \A t \in Tools :
       /\ tool[t] \in {"idle", "call"}
       /\ tool[t] = "call" => patience[t] > 0
       /\ work[t] = "queued" => \E u \in Tools : work[u] = "live"
  /\ Tick
  /\ patience' = [t \in Tools |-> IF tool[t] = "call" THEN patience[t] - 1 ELSE patience[t]]
  /\ UNCHANGED <<tool, calls, work>>

TimerStep ==
  /\ \/ \E c \in Others : Accept(c) \/ Drop(c)
     \/ \E c \in Conns : Arm(c)
     \/ Fire \/ Callback
  /\ UNCHANGED <<toolVars, work>>

-----------------------------------------------------------------------------
McpInit ==
  /\ Init
  /\ tool = [t \in Tools |-> "idle"]
  /\ patience = [t \in Tools |-> 0]
  /\ work = [t \in Tools |-> "none"]
  /\ calls = 0

McpNext ==
  \/ \E t \in Tools :
       \/ Begin(t) \/ Ping(t) \/ Pong(t) \/ Spawn(t) \/ NotStarted(t)
       \/ DialAndCall(t) \/ Lost(t) \/ Leave(t)
       \/ StartWork(t) \/ EndWork(t)
  \/ ExitNow \/ Tock \/ TimerStep

McpSpec == McpInit /\ [][McpNext]_mcpVars

(***************************************************************************)
(* Time passes, and what is not waiting for it goes on.  No handler has to *)
(* end, since the calls of libgm take no context, and no tool has to leave *)
(* before its answer or its patience make it.                              *)
(***************************************************************************)
McpFairness ==
  /\ WF_mcpVars(Tock) /\ WF_mcpVars(ExitNow)
  /\ WF_mcpVars(Fire /\ UNCHANGED <<toolVars, work>>)
  /\ WF_mcpVars(Callback /\ UNCHANGED <<toolVars, work>>)
  /\ \A c \in Conns : WF_mcpVars(Arm(c) /\ UNCHANGED <<toolVars, work>>)
  /\ \A t \in Tools :
       /\ WF_mcpVars(Ping(t)) /\ WF_mcpVars(Pong(t)) /\ WF_mcpVars(Spawn(t))
       /\ WF_mcpVars(DialAndCall(t)) /\ WF_mcpVars(Lost(t))
       /\ WF_mcpVars((tool[t] = "answered" \/ patience[t] = 0) /\ Leave(t))
       /\ WF_mcpVars(StartWork(t))

McpFairSpec == McpSpec /\ McpFairness

-----------------------------------------------------------------------------
(***************************************************************************)
(* Properties                                                              *)
(***************************************************************************)

\* Every variable has its type; one handler at a time has to do with the phone.
McpTypeOK ==
  /\ TypeOK
  /\ tool \in [Tools -> {"idle", "ping", "pinged", "dial", "call", "answered"}]
  /\ patience \in [Tools -> 0..Patience]
  /\ work \in [Tools -> {"none", "queued", "live"}]
  /\ \A t, u \in Tools : work[t] = "live" /\ work[u] = "live" => t = u
  /\ calls \in 0..MaxCalls

\* A tool always returns, with an answer or an error: whatever hangs in the daemon, however
\* long another's handler has liveMu, and although the daemon may retire between the ping
\* and the dial or under the call (dialServe; "mcpLiveTimeout bounds one daemon-proxied call").
ToolReturns == \A t \in Tools : tool[t] # "idle" ~> tool[t] = "idle"

\* "Auto-started daemons retire themselves after an idle period" (daemonctl): when
\* everybody has left for good, the last of them does.
Retires == <>[](conns = {}) => <>[]exited
=============================================================================
