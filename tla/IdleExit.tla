------------------------------ MODULE IdleExit ------------------------------
(***************************************************************************)
(* How an auto-started daemon retires (internal/rpc/server.go): a timer of *)
(* Deps.IdleExit is armed at start and whenever the last client leaves,    *)
(* and stopped when a client is accepted.                                  *)
(*                                                                         *)
(* Three things run against each other under Server.mu: the accept loop,   *)
(* dropConn, which unlocks between removing the connection and arming the  *)
(* timer, and the timer's callback, a goroutine of its own that Stop can   *)
(* no longer recall once it was started.                                   *)
(***************************************************************************)
EXTENDS Naturals, FiniteSets

CONSTANTS
  Conns,         \* connections
  Period,        \* Deps.IdleExit, in ticks
  Off,           \* the timer is not running
  MaxCallbacks   \* bound on the callbacks that wait for mu at once

ASSUME PeriodAssumption == Period \in Nat \ {0}
ASSUME OffAssumption == Off \notin Nat
ASSUME MaxCallbacksAssumption == MaxCallbacks \in Nat \ {0}

VARIABLES
  conns,       \* Server.conns
  arming,      \* connections in dropConn between Unlock and armIdleTimer
  timer,       \* ticks until the timer fires, or Off
  callbacks,   \* callbacks that have fired and wait for mu
  idleFired,   \* Server.idleFired: the idle channel is closed
  exited       \* serve has returned

vars == <<conns, arming, timer, callbacks, idleFired, exited>>

-----------------------------------------------------------------------------
\* Serve accepts connection c.
Accept(c) ==
  /\ ~exited
  /\ c \notin conns \union arming
  /\ conns' = conns \union {c}
  /\ timer' = Off
  /\ UNCHANGED <<arming, callbacks, idleFired, exited>>

\* Mutant: the last to go still counts itself.
DropCountsItself(c) ==
  /\ c \in conns
  /\ conns' = conns \ {c}
  /\ arming' = IF conns = {} THEN arming \union {c} ELSE arming
  /\ UNCHANGED <<timer, callbacks, idleFired, exited>>

\* dropConn's critical section: c goes, and only the last to go will arm.
Drop(c) ==
  /\ c \in conns
  /\ conns' = conns \ {c}
  /\ arming' = IF conns' = {} THEN arming \union {c} ELSE arming
  /\ UNCHANGED <<timer, callbacks, idleFired, exited>>

\* Mutant: a running timer is stopped, and not started again.
ArmStopsOnly(c) ==
  /\ c \in arming
  /\ arming' = arming \ {c}
  /\ timer' = IF timer = Off THEN Period ELSE Off
  /\ UNCHANGED <<conns, callbacks, idleFired, exited>>

\* armIdleTimer: whatever runs is stopped, and a full period starts.
Arm(c) ==
  /\ c \in arming
  /\ arming' = arming \ {c}
  /\ timer' = Period
  /\ UNCHANGED <<conns, callbacks, idleFired, exited>>

\* The runtime starts the callback's goroutine.
Fire ==
  /\ timer = 0 /\ callbacks < MaxCallbacks
  /\ timer' = Off
  /\ callbacks' = callbacks + 1
  /\ UNCHANGED <<conns, arming, idleFired, exited>>

\* The callback gets mu and looks again.
Callback ==
  /\ callbacks > 0
  /\ callbacks' = callbacks - 1
  /\ idleFired' = (idleFired \/ conns = {})
  /\ UNCHANGED <<conns, arming, timer, exited>>

\* serve's main loop receives from Idle() and returns.
Exit ==
  /\ idleFired /\ ~exited
  /\ exited' = TRUE
  /\ UNCHANGED <<conns, arming, timer, callbacks, idleFired>>

\* A tick of the clock; a timer that is due fires before the next one.
Tick ==
  /\ timer # 0 /\ ~exited
  /\ timer' = IF timer = Off THEN Off ELSE timer - 1
  /\ UNCHANGED <<conns, arming, callbacks, idleFired, exited>>

Init ==
  /\ conns = {} /\ arming = {}
  /\ timer = Period
  /\ callbacks = 0
  /\ idleFired = FALSE /\ exited = FALSE

Next ==
  \/ \E c \in Conns : Accept(c) \/ Drop(c) \/ Arm(c)
  \/ Fire \/ Callback \/ Exit \/ Tick

Spec == Init /\ [][Next]_vars

-----------------------------------------------------------------------------
(***************************************************************************)
(* Properties                                                              *)
(***************************************************************************)

\* Every variable has its type.
TypeOK ==
  /\ conns \in SUBSET Conns /\ arming \in SUBSET Conns
  /\ timer \in 0..Period \union {Off}
  /\ callbacks \in 0..MaxCallbacks
  /\ idleFired \in BOOLEAN /\ exited \in BOOLEAN

\* A daemon nobody is connected to never forgets to retire: the timer runs,
\* or its callback waits for mu, or some dropConn is about to arm it.
RetirementPending ==
  conns = {} /\ ~idleFired => timer # Off \/ callbacks > 0 \/ arming # {}
=============================================================================
