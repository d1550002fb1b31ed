------------------------------ MODULE RpcLink -------------------------------
(***************************************************************************)
(* The connections between the daemon and its Go clients: serverConn.run,  *)
(* write and Broadcast (internal/rpc/server.go) on one side, Call and      *)
(* readLoop (internal/rpc/client.go) on the other.                         *)
(*                                                                         *)
(* A request has a goroutine on both sides.  Whoever writes to a           *)
(* connection, be it a reply or an event, holds its writeMu until the line *)
(* is out; a line that cannot be written within 10 s ends the connection.  *)
(* A Broadcast writes to one subscriber after the other.                   *)
(***************************************************************************)
EXTENDS Integers, SequencesExt

CONSTANTS
  Clients,       \* one connection each
  Broadcasters,  \* goroutines that broadcast: the gm callback, handlers, serve
  MaxCalls,      \* bound on the calls of a client; the first is subscribe
  MaxEvents,     \* bound on the events broadcast
  SocketCap,     \* lines the socket buffers towards the client
  QueueCap,      \* Client.events, 256
  None

ASSUME CapAssumption == {SocketCap, QueueCap, MaxCalls} \subseteq Nat \ {0} /\ MaxEvents \in Nat
ASSUME NoneAssumption == None \notin Broadcasters \union Nat
ASSUME WriterAssumption == Broadcasters \cap (1..MaxCalls) = {}

VARIABLES
  conns,       \* Server.conns
  open,        \* connections neither side has closed
  subscribed,  \* serverConn.subscribed
  requests,    \* requests[c]: calls written, and not yet read by the server
  handler,     \* handler[c][i]: "none", "run", or "reply" when it wants to write
  writeMu,     \* writeMu[c]: who writes to c
  wire,        \* wire[c]: lines on their way to c, calls and <<"event", n>>
  bcast,       \* bcast[b]: the event b broadcasts and the connections left
  made,        \* number of events broadcast
  call,        \* call[c][i]: what became of call i of client c
  nextID,      \* nextID[c]: calls made
  pending,     \* pending[c]: Client.pending
  closed,      \* Client.closed
  reading,     \* clients whose readLoop runs
  events,      \* events[c]: Client.events
  owed,        \* owed[c]: events begun after c had its subscribe reply (history)
  seen         \* seen[c]: events readLoop has read (history)

server == <<conns, subscribed, handler, writeMu, bcast, made>>
client == <<call, nextID, pending, closed, reading, events>>
vars == <<server, client, open, requests, wire, owed, seen>>

Calls == 1..MaxCalls
Quiet == [event |-> 0, left |-> {}]

-----------------------------------------------------------------------------
(***************************************************************************)
(* Writing to a connection                                                 *)
(***************************************************************************)

\* Mutant: a failed write drops the line and keeps the connection.
DropLine(c, line) ==
  /\ \/ Len(wire[c]) < SocketCap /\ wire' = [wire EXCEPT ![c] = Append(@, line)]
     \/ UNCHANGED wire
  /\ writeMu' = [writeMu EXCEPT ![c] = None]
  /\ UNCHANGED open

\* Mutant: no write deadline.
WriteForEver(c, line) ==
  /\ \/ /\ c \in open /\ Len(wire[c]) < SocketCap
        /\ wire' = [wire EXCEPT ![c] = Append(@, line)]
     \/ c \notin open /\ UNCHANGED wire
  /\ writeMu' = [writeMu EXCEPT ![c] = None]
  /\ UNCHANGED open

\* The end of serverConn.write: the line is out; or the write fails, because
\* the connection is closed or its buffer stayed full to the deadline, and the
\* connection is closed.
Write(c, line) ==
  /\ \/ /\ c \in open /\ Len(wire[c]) < SocketCap
        /\ wire' = [wire EXCEPT ![c] = Append(@, line)]
        /\ UNCHANGED open
     \/ /\ c \notin open \/ Len(wire[c]) = SocketCap
        /\ open' = open \ {c}
        /\ UNCHANGED wire
  /\ writeMu' = [writeMu EXCEPT ![c] = None]

Lock(c, w) ==
  /\ writeMu[c] = None
  /\ writeMu' = [writeMu EXCEPT ![c] = w]

-----------------------------------------------------------------------------
(***************************************************************************)
(* The server                                                              *)
(***************************************************************************)

\* serverConn.run reads a request and starts its goroutine.
ReadRequest(c, i) ==
  /\ c \in conns /\ i \in requests[c]
  /\ requests' = [requests EXCEPT ![c] = @ \ {i}]
  /\ handler' = [handler EXCEPT ![c][i] = "run"]
  /\ UNCHANGED <<conns, subscribed, writeMu, bcast, made, client, open, wire, owed, seen>>

\* dispatch: subscribe is for the connection, the others are for the store or
\* the phone.
Dispatch(c, i) ==
  /\ handler[c][i] = "run"
  /\ handler' = [handler EXCEPT ![c][i] = "reply"]
  /\ subscribed' = IF i = 1 THEN subscribed \union {c} ELSE subscribed
  /\ UNCHANGED <<conns, writeMu, bcast, made, client, open, requests, wire, owed, seen>>

LockReply(c, i) ==
  /\ handler[c][i] = "reply" /\ Lock(c, i)
  /\ UNCHANGED <<conns, subscribed, handler, bcast, made, client, open, requests, wire, owed, seen>>

WriteReply(c, i) ==
  /\ writeMu[c] = i
  /\ Write(c, <<"reply", i>>)
  /\ handler' = [handler EXCEPT ![c][i] = "none"]
  /\ UNCHANGED <<conns, subscribed, bcast, made, client, requests, owed, seen>>

\* The read side notices that the connection is closed: dropConn.
DropConn(c) ==
  /\ c \in conns \ open
  /\ conns' = conns \ {c}
  /\ requests' = [requests EXCEPT ![c] = {}]
  /\ UNCHANGED <<subscribed, handler, writeMu, bcast, made, client, open, wire, owed, seen>>

\* Broadcast copies the connections.
Broadcast(b) ==
  /\ bcast[b] = Quiet /\ made < MaxEvents
  /\ made' = made + 1
  /\ bcast' = [bcast EXCEPT ![b] = [event |-> made', left |-> conns]]
  /\ owed' = [c \in Clients |-> IF call[c][1] = "ok" THEN owed[c] \union {made'} ELSE owed[c]]
  /\ UNCHANGED <<conns, subscribed, handler, writeMu, client, open, requests, wire, seen>>

\* Its loop passes a connection by that has not subscribed.
Skip(b, c) ==
  /\ c \in bcast[b].left \ subscribed
  /\ \A d \in Clients : writeMu[d] # b
  /\ bcast' = [bcast EXCEPT ![b].left = @ \ {c}]
  /\ UNCHANGED <<conns, subscribed, handler, writeMu, made, client, open, requests, wire, owed, seen>>

LockEvent(b, c) ==
  /\ c \in bcast[b].left \cap subscribed
  /\ \A d \in Clients : writeMu[d] # b
  /\ Lock(c, b)
  /\ UNCHANGED <<conns, subscribed, handler, bcast, made, client, open, requests, wire, owed, seen>>

WriteEvent(b, c) ==
  /\ writeMu[c] = b
  /\ Write(c, <<"event", bcast[b].event>>)
  /\ bcast' = [bcast EXCEPT ![b].left = @ \ {c}]
  /\ UNCHANGED <<conns, subscribed, handler, made, client, requests, owed, seen>>

EndBroadcast(b) ==
  /\ bcast[b] # Quiet /\ bcast[b].left = {}
  /\ bcast' = [bcast EXCEPT ![b] = Quiet]
  /\ UNCHANGED <<conns, subscribed, handler, writeMu, made, client, open, requests, wire, owed, seen>>

-----------------------------------------------------------------------------
(***************************************************************************)
(* A client                                                                *)
(***************************************************************************)

\* Mutant: Call does not ask whether the client is closed.
CallUnchecked(c) ==
  /\ nextID[c] < MaxCalls
  /\ nextID' = [nextID EXCEPT ![c] = @ + 1]
  /\ call' = [call EXCEPT ![c][nextID'[c]] = "entered"]
  /\ pending' = [pending EXCEPT ![c] = @ \union {nextID'[c]}]
  /\ UNCHANGED <<server, closed, reading, events, open, requests, wire, owed, seen>>

\* Call enters itself in pending, unless "client is closed".
Call(c) ==
  /\ nextID[c] < MaxCalls
  /\ nextID' = [nextID EXCEPT ![c] = @ + 1]
  /\ call' = [call EXCEPT ![c][nextID'[c]] = IF c \in closed THEN "failed" ELSE "entered"]
  /\ pending' = [pending EXCEPT ![c] = IF c \in closed THEN @ ELSE @ \union {nextID'[c]}]
  /\ UNCHANGED <<server, closed, reading, events, open, requests, wire, owed, seen>>

Returns(c, i, s) ==
  /\ call' = [call EXCEPT ![c][i] = s]
  /\ pending' = [pending EXCEPT ![c] = @ \ {i}]

\* The request is written; or the write fails and Call returns.
WriteRequest(c, i) ==
  /\ call[c][i] = "entered"
  /\ IF c \in open
       THEN /\ requests' = [requests EXCEPT ![c] = @ \union {i}]
            /\ call' = [call EXCEPT ![c][i] = "waiting"]
            /\ UNCHANGED pending
       ELSE Returns(c, i, "failed") /\ UNCHANGED requests
  /\ UNCHANGED <<server, nextID, closed, reading, events, open, wire, owed, seen>>

\* ctx is done.
GiveUp(c, i) ==
  /\ call[c][i] = "waiting"
  /\ Returns(c, i, "failed")
  /\ UNCHANGED <<server, nextID, closed, reading, events, open, requests, wire, owed, seen>>

\* The channel of the call was closed under it.
Orphaned(c, i) ==
  /\ call[c][i] = "waiting" /\ i \notin pending[c]
  /\ Returns(c, i, "failed")
  /\ UNCHANGED <<server, nextID, closed, reading, events, open, requests, wire, owed, seen>>

\* readLoop reads a reply; nobody may wait for it any more.
ReadReply(c) ==
  /\ c \in reading /\ wire[c] # <<>> /\ Head(wire[c])[1] = "reply"
  /\ wire' = [wire EXCEPT ![c] = Tail(@)]
  /\ LET i == Head(wire[c])[2]
     IN  IF i \in pending[c] THEN Returns(c, i, "ok") ELSE UNCHANGED <<call, pending>>
  /\ UNCHANGED <<server, nextID, closed, reading, events, open, requests, owed, seen>>

\* readLoop reads an event, and drops it when the consumer is behind.
ReadEvent(c) ==
  /\ c \in reading /\ wire[c] # <<>> /\ Head(wire[c])[1] = "event"
  /\ wire' = [wire EXCEPT ![c] = Tail(@)]
  /\ seen' = [seen EXCEPT ![c] = @ \union {Head(wire[c])[2]}]
  /\ events' = IF Len(events[c]) < QueueCap
                 THEN [events EXCEPT ![c] = Append(@, Head(wire[c])[2])] ELSE events
  /\ UNCHANGED <<server, call, nextID, pending, closed, reading, open, requests, owed>>

Consume(c) ==
  /\ events[c] # <<>>
  /\ events' = [events EXCEPT ![c] = Tail(@)]
  /\ UNCHANGED <<server, call, nextID, pending, closed, reading, open, requests, wire, owed, seen>>

\* readLoop ends, at the end of the stream or at a line beyond maxLineBytes,
\* and closes the channels of all pending calls; it leaves the connection open.
EndReading(c) ==
  /\ c \in reading
  /\ \/ c \notin open /\ wire[c] = <<>>
     \/ wire[c] # <<>> /\ Head(wire[c])[1] = "reply"
  /\ reading' = reading \ {c}
  /\ closed' = closed \union {c}
  /\ pending' = [pending EXCEPT ![c] = {}]
  /\ UNCHANGED <<server, call, nextID, events, open, requests, wire, owed, seen>>

\* Close; what was on its way is not read any more.
Close(c) ==
  /\ c \in open
  /\ open' = open \ {c}
  /\ closed' = closed \union {c}
  /\ wire' = [wire EXCEPT ![c] = <<>>]
  /\ UNCHANGED <<server, call, nextID, pending, reading, events, requests, owed, seen>>

-----------------------------------------------------------------------------
Init ==
  /\ conns = Clients /\ open = Clients /\ subscribed = {}
  /\ requests = [c \in Clients |-> {}]
  /\ handler = [c \in Clients |-> [i \in Calls |-> "none"]]
  /\ writeMu = [c \in Clients |-> None]
  /\ wire = [c \in Clients |-> <<>>]
  /\ bcast = [b \in Broadcasters |-> Quiet] /\ made = 0
  /\ call = [c \in Clients |-> [i \in Calls |-> "none"]]
  /\ nextID = [c \in Clients |-> 0]
  /\ pending = [c \in Clients |-> {}]
  /\ closed = {} /\ reading = Clients
  /\ events = [c \in Clients |-> <<>>]
  /\ owed = [c \in Clients |-> {}] /\ seen = [c \in Clients |-> {}]

HandlerStep(c, i) ==
  ReadRequest(c, i) \/ Dispatch(c, i) \/ WriteReply(c, i)

BroadcastStep(b) ==
  EndBroadcast(b) \/ \E c \in Clients : Skip(b, c) \/ WriteEvent(b, c)

CallStep(c, i) == WriteRequest(c, i) \/ Orphaned(c, i)

ReadStep(c) == ReadReply(c) \/ ReadEvent(c) \/ EndReading(c)

Next ==
  \/ \E c \in Clients :
       \/ Call(c) \/ ReadStep(c) \/ Consume(c) \/ Close(c) \/ DropConn(c)
       \/ \E i \in Calls :
            HandlerStep(c, i) \/ LockReply(c, i) \/ CallStep(c, i) \/ GiveUp(c, i)
  \/ \E b \in Broadcasters :
       Broadcast(b) \/ BroadcastStep(b) \/ \E c \in Clients : LockEvent(b, c)

Spec == Init /\ [][Next]_vars

(***************************************************************************)
(* Goroutines run, a write returns by its deadline, and a Go mutex is fair *)
(* to whoever waits for it.  Nobody is obliged to consume its events, to   *)
(* call, or to close.                                                      *)
(***************************************************************************)
Fairness ==
  /\ \A c \in Clients :
       /\ WF_vars(ReadStep(c)) /\ WF_vars(DropConn(c))
       /\ \A i \in Calls :
            WF_vars(HandlerStep(c, i)) /\ SF_vars(LockReply(c, i)) /\ WF_vars(CallStep(c, i))
  /\ \A b \in Broadcasters :
       WF_vars(BroadcastStep(b)) /\ \A c \in Clients : SF_vars(LockEvent(b, c))

FairSpec == Spec /\ Fairness

-----------------------------------------------------------------------------
(***************************************************************************)
(* Properties                                                              *)
(***************************************************************************)

\* Every variable has its type, and the buffers keep to their capacity.
TypeOK ==
  /\ conns \subseteq Clients /\ open \subseteq Clients /\ subscribed \subseteq Clients
  /\ closed \subseteq Clients /\ reading \subseteq Clients
  /\ requests \in [Clients -> SUBSET Calls] /\ pending \in [Clients -> SUBSET Calls]
  /\ handler \in [Clients -> [Calls -> {"none", "run", "reply"}]]
  /\ call \in [Clients -> [Calls -> {"none", "entered", "waiting", "ok", "failed"}]]
  /\ writeMu \in [Clients -> Broadcasters \union Calls \union {None}]
  /\ made \in 0..MaxEvents /\ nextID \in [Clients -> 0..MaxCalls]
  /\ bcast \in [Broadcasters -> [event : 0..MaxEvents, left : SUBSET Clients]]
  /\ \A c \in Clients : Len(wire[c]) <= SocketCap /\ Len(events[c]) <= QueueCap
  /\ owed \in [Clients -> SUBSET (1..MaxEvents)] /\ seen \in [Clients -> SUBSET (1..MaxEvents)]

\* The daemon leaves no gap in a connection's events: whatever is broadcast
\* after the subscribe reply is read, or on the wire, or about to be written,
\* as long as the connection lives and is read.
NoSilentGap ==
  \A c \in open \cap reading : \A n \in owed[c] :
    \/ n \in seen[c]
    \/ <<"event", n>> \in ToSet(wire[c])
    \/ \E b \in Broadcasters : bcast[b].event = n /\ c \in bcast[b].left

\* A subscriber that stops reading cannot hold up a broadcast for ever, and
\* with it the callback of libgm or a handler (the write deadline).
BroadcastEnds == \A b \in Broadcasters : bcast[b] # Quiet ~> bcast[b] = Quiet

\* Every call returns, with or without a deadline of its own, whenever the
\* connection is lost: no call enters pending after readLoop has emptied it.
CallsEnd == \A c \in Clients, i \in Calls :
  call[c][i] \in {"entered", "waiting"} ~> call[c][i] \in {"ok", "failed"}
=============================================================================
