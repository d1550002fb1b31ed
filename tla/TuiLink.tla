------------------------------ MODULE TuiLink -------------------------------
(***************************************************************************)
(* The connection of gmtui to its daemon, across daemons that go away      *)
(* (gmtui/src: rpc.rs, event.rs, main.rs).                                 *)
(*                                                                         *)
(* A link is one RpcClient: a reader task that answers calls and, at the   *)
(* end of the stream, fails those in flight; a writer task that stops at   *)
(* the first line it cannot write; and a forwarder task that tells the     *)
(* main loop when the stream of events has ended.  The main loop reads one *)
(* channel, and starts the reconnect task when it hears of a loss.         *)
(***************************************************************************)
EXTENDS Naturals, Sequences

CONSTANTS
  MaxDeaths,  \* bound on the daemons that go away
  Calls,      \* calls in flight at once
  Subscribe   \* the one the reconnect task makes

ASSUME MaxDeathsAssumption == MaxDeaths \in Nat
ASSUME SubscribeAssumption == Subscribe \in Calls

Links == 1..MaxDeaths + 1

VARIABLES
  link,         \* link[k]: "unused", "open" or "closed" by the daemon's end
  drained,      \* links whose reader has failed the calls in flight and ended
  deaf,         \* links whose writer has ended
  forwarder,    \* forwarder[k]: "none", "on" or "done"
  call,         \* call[c]: "none", "inserted" into pending, or "waiting"
  on,           \* on[c]: the link of call c
  task,         \* where the reconnect task is
  fresh,        \* the link the reconnect task has dialled
  queue,        \* the main channel: losses and links to adopt
  rpc,          \* App.rpc
  daemonLost,   \* App.daemon_lost
  reconnecting, \* App.reconnecting
  deaths

wires == <<link, drained, deaf, forwarder>>
app == <<rpc, daemonLost, reconnecting>>
vars == <<wires, call, on, task, fresh, queue, app, deaths>>

Lost == 0        \* the message DaemonLost; a link k stands for Reconnected(k)

Pending(k) == {c \in Calls : on[c] = k /\ call[c] \in {"inserted", "waiting"}}

-----------------------------------------------------------------------------
(***************************************************************************)
(* Calls                                                                   *)
(***************************************************************************)

\* RpcClient::call on link k: the request is entered in pending.
Insert(c, k) ==
  /\ call[c] = "none"
  /\ call' = [call EXCEPT ![c] = "inserted"]
  /\ on' = [on EXCEPT ![c] = k]

\* The calls cs end; the reconnect task goes on with the outcome of its own.
End(cs, s) ==
  /\ call' = [c \in Calls |-> IF c \in cs THEN "none" ELSE call[c]]
  /\ task' = IF Subscribe \in cs THEN s ELSE task
  /\ UNCHANGED on

AppCall(c) ==
  /\ c # Subscribe
  /\ Insert(c, rpc)
  /\ UNCHANGED <<wires, task, fresh, queue, app, deaths>>

\* out_tx.send: an error once the writer is gone, else the line is written,
\* or fails to be and ends the writer.
Send(c) ==
  /\ call[c] = "inserted"
  /\ IF on[c] \in deaf
       THEN End({c}, "sleep")
       ELSE call' = [call EXCEPT ![c] = "waiting"] /\ UNCHANGED <<on, task>>
  /\ deaf' = IF link[on[c]] = "closed" THEN deaf \union {on[c]} ELSE deaf
  /\ UNCHANGED <<link, drained, forwarder, fresh, queue, app, deaths>>

\* The reader routes the daemon's response.
Reply(c) ==
  /\ call[c] = "waiting" /\ link[on[c]] = "open"
  /\ End({c}, "attach")
  /\ UNCHANGED <<wires, fresh, queue, app, deaths>>

\* Mutant: the reader ends without looking at pending.
DrainNothing(k) ==
  /\ link[k] = "closed" /\ k \notin drained
  /\ drained' = drained \union {k}
  /\ UNCHANGED <<link, deaf, forwarder, call, on, task, fresh, queue, app, deaths>>

\* "Socket gone: fail everything still in flight."
Drain(k) ==
  /\ link[k] = "closed" /\ k \notin drained
  /\ drained' = drained \union {k}
  /\ End(Pending(k), "sleep")
  /\ UNCHANGED <<link, deaf, forwarder, fresh, queue, app, deaths>>

-----------------------------------------------------------------------------
(***************************************************************************)
(* The reconnect task                                                      *)
(***************************************************************************)

TaskGoes(s) == task' = s /\ UNCHANGED <<app, deaths>>

\* connect_daemon: a daemon is there or is started, and the client is made.
Dial ==
  /\ task = "dial"
  /\ \E k \in Links :
       /\ link[k] = "unused" /\ \A l \in Links : l < k => link[l] # "unused"
       /\ link' = [link EXCEPT ![k] = "open"]
       /\ fresh' = k
  /\ TaskGoes("subscribe")
  /\ UNCHANGED <<drained, deaf, forwarder, call, on, queue>>

DialFails ==
  /\ task = "dial"
  /\ TaskGoes("sleep")
  /\ UNCHANGED <<wires, call, on, fresh, queue>>

CallSubscribe ==
  /\ task = "subscribe"
  /\ Insert(Subscribe, fresh)
  /\ TaskGoes("subscribing")
  /\ UNCHANGED <<wires, fresh, queue>>

Wake ==
  /\ task = "sleep"
  /\ TaskGoes("dial")
  /\ UNCHANGED <<wires, call, on, fresh, queue>>

\* Mutant: the new stream of events is not attached.
AttachNothing ==
  /\ task = "attach"
  /\ TaskGoes("announce")
  /\ UNCHANGED <<wires, call, on, fresh, queue>>

\* attach_server_events spawns the forwarder ...
Attach ==
  /\ task = "attach"
  /\ forwarder' = [forwarder EXCEPT ![fresh] = "on"]
  /\ TaskGoes("announce")
  /\ UNCHANGED <<link, drained, deaf, call, on, fresh, queue>>

\* ... and only then is Reconnected sent.
Announce ==
  /\ task = "announce"
  /\ queue' = Append(queue, fresh)
  /\ TaskGoes("off")
  /\ UNCHANGED <<wires, call, on, fresh>>

-----------------------------------------------------------------------------
\* Mutant: the forwarder ends without a word.
ForwardNothing(k) ==
  /\ forwarder[k] = "on" /\ k \in drained
  /\ forwarder' = [forwarder EXCEPT ![k] = "done"]
  /\ UNCHANGED <<link, drained, deaf, call, on, task, fresh, queue, app, deaths>>

\* The event stream of link k ends with its reader.
Forward(k) ==
  /\ forwarder[k] = "on" /\ k \in drained
  /\ forwarder' = [forwarder EXCEPT ![k] = "done"]
  /\ queue' = Append(queue, Lost)
  /\ UNCHANGED <<link, drained, deaf, call, on, task, fresh, app, deaths>>

\* The main loop: AppEvent::DaemonLost, and what it does about it.
HearLoss ==
  /\ queue # <<>> /\ Head(queue) = Lost
  /\ queue' = Tail(queue)
  /\ daemonLost' = TRUE /\ reconnecting' = TRUE
  /\ task' = IF reconnecting THEN task ELSE "dial"
  /\ UNCHANGED <<wires, call, on, fresh, rpc, deaths>>

\* Mutant: adopt_rpc leaves the flag of the reconnect task up.
AdoptKeepsFlag ==
  /\ queue # <<>> /\ Head(queue) \in Links
  /\ queue' = Tail(queue)
  /\ rpc' = Head(queue)
  /\ daemonLost' = FALSE
  /\ UNCHANGED <<wires, call, on, task, fresh, deaths, reconnecting>>

\* Event::Reconnected: adopt_rpc.
Adopt ==
  /\ queue # <<>> /\ Head(queue) \in Links
  /\ queue' = Tail(queue)
  /\ rpc' = Head(queue)
  /\ daemonLost' = FALSE /\ reconnecting' = FALSE
  /\ UNCHANGED <<wires, call, on, task, fresh, deaths>>

\* The daemon exits (idle, crash, upgrade): its end of every link is closed.
Die ==
  /\ deaths < MaxDeaths
  /\ deaths' = deaths + 1
  /\ link' = [k \in Links |-> IF link[k] = "open" THEN "closed" ELSE link[k]]
  /\ UNCHANGED <<drained, deaf, forwarder, call, on, task, fresh, queue, app>>

-----------------------------------------------------------------------------
Init ==
  /\ link = [k \in Links |-> IF k = 1 THEN "open" ELSE "unused"]
  /\ drained = {} /\ deaf = {}
  /\ forwarder = [k \in Links |-> IF k = 1 THEN "on" ELSE "none"]
  /\ call = [c \in Calls |-> "none"]
  /\ on = [c \in Calls |-> 1]
  /\ task = "off"
  /\ fresh = 1
  /\ queue = <<>>
  /\ rpc = 1
  /\ daemonLost = FALSE /\ reconnecting = FALSE
  /\ deaths = 0

Task == DialFails \/ CallSubscribe \/ Wake \/ Attach \/ Announce

Next ==
  \/ \E c \in Calls : AppCall(c) \/ Send(c) \/ Reply(c)
  \/ \E k \in Links : Drain(k) \/ Forward(k)
  \/ Dial \/ Task
  \/ HearLoss \/ Adopt
  \/ Die

Spec == Init /\ [][Next]_vars

(***************************************************************************)
(* Tasks and the main loop run, the daemon answers while it lives, and the *)
(* dial that is tried again and again succeeds at last.                    *)
(***************************************************************************)
Fairness ==
  /\ \A c \in Calls : WF_vars(Send(c)) /\ WF_vars(Reply(c))
  /\ \A k \in Links : WF_vars(Drain(k)) /\ WF_vars(Forward(k))
  /\ WF_vars(Task) /\ SF_vars(Dial)
  /\ WF_vars(HearLoss) /\ WF_vars(Adopt)

FairSpec == Spec /\ Fairness

-----------------------------------------------------------------------------
(***************************************************************************)
(* Properties                                                              *)
(***************************************************************************)

\* Every variable has its type.
TypeOK ==
  /\ link \in [Links -> {"unused", "open", "closed"}]
  /\ drained \subseteq Links /\ deaf \subseteq Links
  /\ forwarder \in [Links -> {"none", "on", "done"}]
  /\ call \in [Calls -> {"none", "inserted", "waiting"}]
  /\ on \in [Calls -> Links]
  /\ task \in {"off", "dial", "subscribe", "subscribing", "attach", "announce", "sleep"}
  /\ fresh \in Links
  /\ queue \in Seq({Lost} \union Links)
  /\ rpc \in Links /\ daemonLost \in BOOLEAN /\ reconnecting \in BOOLEAN
  /\ deaths \in 0..MaxDeaths

\* The flag reconnecting is up exactly while the reconnect task runs or its
\* result waits in the channel: never two reconnect loops, never none behind
\* the flag (main.rs, run).
OneReconnect ==
  reconnecting <=> (task # "off" \/ \E n \in DOMAIN queue : queue[n] \in Links)

\* The end of the link in use is known, or gmtui is about to hear of it.
LossIsNoticed ==
  ~daemonLost /\ link[rpc] = "closed" =>
    forwarder[rpc] = "on" \/ \E n \in DOMAIN queue : queue[n] = Lost

\* Only one thing makes gmtui forget that its link has ended: the adoption of a link whose
\* end it has heard of before (handle_app_event, adopt_rpc).  A loss while a link is in use,
\* or after its successor was announced, is heard, whenever daemons go away.
OnlyLateAdoptionForgets ==
  [][LossIsNoticed /\ ~LossIsNoticed' => Adopt /\ forwarder[Head(queue)] = "done"]_vars

\* "bring it back without the user doing anything" (main.rs, run): in the end
\* the TUI uses a link whose daemon lives.
BroughtBack == <>[](link[rpc] = "open" /\ ~daemonLost)

\* The daemon of a link has gone before gmtui uses the link.
LostInReconnect ==
  \/ task \in {"subscribe", "subscribing", "attach", "announce"} /\ link[fresh] = "closed"
  \/ \E n \in DOMAIN queue : queue[n] \in Links /\ link[queue[n]] = "closed"

\* The same, whenever daemons go away, unless one does while gmtui reconnects to it
\* (spawn_reconnect, adopt_rpc): any other loss is heard, and brings the link back.
BroughtBackIfSettled == []~LostInReconnect => BroughtBack

\* A call in flight when the socket goes is failed, and every other call that is
\* made while the reader reads is answered.
InFlightEnds == \A c \in Calls :
  (call[c] = "waiting" /\ on[c] \notin drained) ~> call[c] = "none"
=============================================================================
