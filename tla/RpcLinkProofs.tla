---------------------------- MODULE RpcLinkProofs ---------------------------
(***************************************************************************)
(* For any number of clients, calls, broadcasters and events, and buffers  *)
(* of any size: the daemon leaves no gap in the events of a connection.    *)
(***************************************************************************)
EXTENDS RpcLink, TLAPS

Lines == ({"reply"} \X Calls) \union ({"event"} \X (1..MaxEvents))

\* What is queued is a line; whoever holds writeMu has a line to write.
Shape ==
  /\ wire \in [Clients -> Seq(Lines)]
  /\ events \in [Clients -> Seq(1..MaxEvents)]
  /\ \A b \in Broadcasters : bcast[b].event = 0 => bcast[b].left = {}
  /\ \A c \in Clients, b \in Broadcasters : writeMu[c] = b => c \in bcast[b].left

\* A connection is registered for as long as it is open.
Registered == open \subseteq conns

\* The subscribe call succeeds only after the connection has been marked.
MarkedFirst == \A c \in Clients :
  (\/ handler[c][1] = "reply" \/ writeMu[c] = 1
   \/ <<"reply", 1>> \in ToSet(wire[c]) \/ call[c][1] = "ok")
  => c \in subscribed

\* Only subscribers are owed events.
OwedMarked == \A c \in Clients : owed[c] # {} => c \in subscribed

IInv == TypeOK /\ Shape /\ Registered /\ MarkedFirst /\ OwedMarked /\ NoSilentGap

-----------------------------------------------------------------------------
\* Appending a line adds that line and no other.
LEMMA AppendLine ==
  ASSUME NEW S, NEW q \in Seq(S), NEW e \in S
  PROVE  /\ Append(q, e) \in Seq(S)
         /\ Len(Append(q, e)) = Len(q) + 1
         /\ ToSet(Append(q, e)) = ToSet(q) \union {e}
<1>1. /\ Append(q, e) \in Seq(S) /\ Len(Append(q, e)) = Len(q) + 1
      /\ Len(q) \in Nat /\ DOMAIN q = 1..Len(q) /\ DOMAIN Append(q, e) = 1..(Len(q) + 1)
      /\ Append(q, e)[Len(q) + 1] = e
      /\ \A n \in 1..Len(q) : Append(q, e)[n] = q[n]
  OBVIOUS
<1>2. 1..(Len(q) + 1) = (1..Len(q)) \union {Len(q) + 1}
  BY <1>1
<1> QED
  BY <1>1, <1>2 DEF ToSet

\* Reading a line takes away that line at most.
LEMMA TailLine ==
  ASSUME NEW S, NEW q \in Seq(S), q # <<>>
  PROVE  /\ Tail(q) \in Seq(S) /\ Head(q) \in S
         /\ Len(Tail(q)) \in Nat /\ Len(q) \in Nat /\ Len(Tail(q)) <= Len(q)
         /\ Head(q) \in ToSet(q)
         /\ ToSet(Tail(q)) \subseteq ToSet(q)
         /\ ToSet(q) \subseteq ToSet(Tail(q)) \union {Head(q)}
<1>1. /\ Tail(q) \in Seq(S) /\ DOMAIN q = 1..Len(q) /\ DOMAIN Tail(q) = 1..(Len(q) - 1)
      /\ Len(q) \in Nat /\ Len(q) >= 1 /\ Len(Tail(q)) = Len(q) - 1
      /\ Head(q) = q[1] /\ Head(q) \in S
  OBVIOUS
<1>2. \A n \in 1..(Len(q) - 1) : Tail(q)[n] = q[n + 1]
  OBVIOUS
<1>3. ToSet(Tail(q)) \subseteq ToSet(q) /\ Head(q) \in ToSet(q)
  BY <1>1, <1>2 DEF ToSet
<1>4. ASSUME NEW n \in 1..Len(q) PROVE q[n] \in ToSet(Tail(q)) \union {Head(q)}
  <2>1. CASE n = 1
    BY <1>1, <2>1
  <2>2. CASE n # 1
    <3>1. n - 1 \in 1..(Len(q) - 1) /\ (n - 1) + 1 = n
      BY <1>1, <2>2
    <3> QED
      BY <1>1, <1>2, <3>1 DEF ToSet
  <2> QED
    BY <2>1, <2>2
<1> QED
  BY <1>1, <1>3, <1>4 DEF ToSet

\* At first every connection is registered and nothing is on its way.
LEMMA InitIInv == Init => IInv
<1> SUFFICES ASSUME Init PROVE IInv
  OBVIOUS
<1>0. MaxCalls \in Nat /\ MaxCalls >= 1 /\ MaxEvents \in Nat /\ 1 \in Calls
      /\ QueueCap \in Nat /\ SocketCap \in Nat
  BY CapAssumption DEF Calls
<1>1. TypeOK
  BY <1>0 DEF Init, TypeOK, Quiet
<1>2. Shape
  <2>1. <<>> \in Seq(Lines) /\ <<>> \in Seq(1..MaxEvents)
    OBVIOUS
  <2> QED
    BY <2>1, NoneAssumption DEF Init, Shape, Quiet
<1>3. Registered /\ OwedMarked /\ NoSilentGap
  BY DEF Init, Registered, OwedMarked, NoSilentGap
<1>4. MarkedFirst
  BY <1>0, NoneAssumption DEF Init, MarkedFirst, ToSet
<1> QED
  BY <1>1, <1>2, <1>3, <1>4 DEF IInv

\* What the assumptions say of the constants.
Facts == /\ MaxCalls \in Nat /\ MaxCalls >= 1 /\ MaxEvents \in Nat
         /\ SocketCap \in Nat /\ QueueCap \in Nat
         /\ None \notin Broadcasters /\ None \notin Nat /\ Broadcasters \cap Calls = {}
         /\ 1 \in Calls /\ Calls \subseteq Nat

LEMMA ConstantFacts == Facts
BY CapAssumption, NoneAssumption, WriterAssumption DEF Calls, Facts

\* The steps of Next by what they touch: nothing that is written or broadcast, a
\* broadcast, the line that is written, or the line that is read.
Silent(c) ==
  \/ Call(c) \/ EndReading(c) \/ Consume(c) \/ DropConn(c)
  \/ \E i \in Calls : \/ ReadRequest(c, i) \/ Dispatch(c, i) \/ LockReply(c, i)
                      \/ WriteRequest(c, i) \/ Orphaned(c, i) \/ GiveUp(c, i)
Broadcasting(b) ==
  Broadcast(b) \/ EndBroadcast(b) \/ \E c \in Clients : Skip(b, c) \/ LockEvent(b, c)
Writing(c) == (\E i \in Calls : WriteReply(c, i)) \/ (\E b \in Broadcasters : WriteEvent(b, c))
Reading(c) == ReadReply(c) \/ ReadEvent(c) \/ Close(c)

\* Next is those, and nothing else.
LEMMA StepKinds ==
  ASSUME [Next]_vars
  PROVE  \/ \E c \in Clients : Silent(c) \/ Writing(c) \/ Reading(c)
         \/ \E b \in Broadcasters : Broadcasting(b)
         \/ UNCHANGED vars
BY DEF Next, Silent, Broadcasting, Writing, Reading, HandlerStep, CallStep, ReadStep, BroadcastStep

-----------------------------------------------------------------------------
\* Silent steps move calls, requests and handlers.
LEMMA SilentType ==
  ASSUME IInv, NEW c \in Clients, Silent(c)
  PROVE  TypeOK'
<1> USE ConstantFacts DEF Facts, server, client, Lock, Returns
<1>1. ASSUME Call(c) PROVE TypeOK'
  <2>1. nextID'[c] \in Calls /\ nextID' \in [Clients -> 0..MaxCalls]
    BY <1>1 DEF IInv, TypeOK, Call, Calls
  <2>2. call'[c][nextID'[c]] \in {"entered", "failed"} /\ pending' \in [Clients -> SUBSET Calls]
    BY <1>1, <2>1 DEF IInv, TypeOK, Call
  <2>3. call' \in [Clients -> [Calls -> {"none", "entered", "waiting", "ok", "failed"}]]
    BY <1>1, <2>1 DEF IInv, TypeOK, Call
  <2> QED
    BY <1>1, <2>1, <2>2, <2>3 DEF IInv, TypeOK, Call
<1>2. ASSUME EndReading(c) PROVE TypeOK'
  BY <1>2 DEF IInv, TypeOK, EndReading
<1>3. ASSUME Consume(c) PROVE TypeOK'
  <2>1. events[c] \in Seq(1..MaxEvents) /\ events[c] # <<>>
    BY <1>3 DEF IInv, Shape, Consume
  <2>2. Len(Tail(events[c])) <= QueueCap
    BY <2>1, TailLine DEF IInv, TypeOK
  <2> QED
    BY <1>3, <2>2 DEF IInv, Shape, TypeOK, Consume
<1>4. ASSUME DropConn(c) PROVE TypeOK'
  BY <1>4 DEF IInv, TypeOK, DropConn
<1>5. ASSUME NEW i \in Calls, ReadRequest(c, i) PROVE TypeOK'
  BY <1>5 DEF IInv, TypeOK, ReadRequest
<1>6. ASSUME NEW i \in Calls, Dispatch(c, i) PROVE TypeOK'
  BY <1>6 DEF IInv, TypeOK, Dispatch
<1>7. ASSUME NEW i \in Calls, LockReply(c, i) PROVE TypeOK'
  BY <1>7 DEF IInv, TypeOK, LockReply
<1>8. ASSUME NEW i \in Calls, WriteRequest(c, i) PROVE TypeOK'
  <2>1. /\ requests' = requests \/ requests' = [requests EXCEPT ![c] = @ \union {i}]
        /\ pending' = pending \/ pending' = [pending EXCEPT ![c] = @ \ {i}]
        /\ \E s \in {"waiting", "failed"} : call' = [call EXCEPT ![c][i] = s]
    BY <1>8, Zenon DEF WriteRequest
  <2>2. UNCHANGED <<conns, subscribed, handler, writeMu, bcast, made, nextID, closed, reading,
                    events, open, wire, owed, seen>>
    BY <1>8 DEF WriteRequest
  <2>3. requests' \in [Clients -> SUBSET Calls]
    <3>1. CASE requests' = [requests EXCEPT ![c] = @ \union {i}]
      BY <1>8, <3>1 DEF IInv, TypeOK
    <3> QED
      BY <2>1, <3>1 DEF IInv, TypeOK
  <2>5. pending' \in [Clients -> SUBSET Calls]
    <3>1. CASE pending' = [pending EXCEPT ![c] = @ \ {i}]
      BY <1>8, <3>1 DEF IInv, TypeOK
    <3> QED
      BY <2>1, <3>1 DEF IInv, TypeOK
  <2>4. call' \in [Clients -> [Calls -> {"none", "entered", "waiting", "ok", "failed"}]]
    BY <1>8, <2>1 DEF IInv, TypeOK
  <2> QED
    BY <2>2, <2>3, <2>4, <2>5 DEF IInv, TypeOK
<1>9. ASSUME NEW i \in Calls, Orphaned(c, i) PROVE TypeOK'
  BY <1>9 DEF IInv, TypeOK, Orphaned
<1>10. ASSUME NEW i \in Calls, GiveUp(c, i) PROVE TypeOK'
  BY <1>10 DEF IInv, TypeOK, GiveUp
<1> QED
  BY <1>1, <1>2, <1>3, <1>4, <1>5, <1>6, <1>7, <1>8, <1>9, <1>10 DEF Silent

\* The one silent step that touches a buffer empties it.
LEMMA SilentShape ==
  ASSUME IInv, NEW c \in Clients, Silent(c)
  PROVE  Shape'
<1> USE ConstantFacts DEF Facts, server, client, Lock, Returns
<1>1. ASSUME Consume(c) PROVE Shape'
  <2>1. events[c] \in Seq(1..MaxEvents) /\ events[c] # <<>>
    BY <1>1 DEF IInv, Shape, Consume
  <2>2. Tail(events[c]) \in Seq(1..MaxEvents)
    BY <2>1, TailLine
  <2> QED
    BY <1>1, <2>2 DEF IInv, Shape, Consume
<1>2. ASSUME NEW i \in Calls, LockReply(c, i) PROVE Shape'
  BY <1>2 DEF IInv, TypeOK, Shape, LockReply
<1>3. ASSUME UNCHANGED <<writeMu, wire, bcast, events>> PROVE Shape'
  BY <1>3 DEF IInv, Shape
<1>4. ASSUME Silent(c) PROVE \/ Consume(c) \/ \E i \in Calls : LockReply(c, i)
                            \/ UNCHANGED <<writeMu, wire, bcast, events>>
  BY <1>4 DEF Silent, Call, EndReading, DropConn, ReadRequest, Dispatch, WriteRequest,
              Orphaned, GiveUp
<1> QED
  BY <1>1, <1>2, <1>3, <1>4

\* None writes a line, touches a broadcast, or drops a connection that is open.
LEMMA SilentOwed ==
  ASSUME IInv, NEW c \in Clients, Silent(c)
  PROVE  Registered' /\ OwedMarked' /\ NoSilentGap'
<1> USE DEF server, client, Lock, Returns
<1>1. /\ UNCHANGED <<wire, owed, seen, bcast, open>>
      /\ reading' \subseteq reading /\ subscribed \subseteq subscribed'
      /\ conns' = conns \/ (c \notin open /\ conns' = conns \ {c})
  BY DEF Silent, Call, EndReading, Consume, DropConn, ReadRequest, Dispatch, LockReply,
         WriteRequest, Orphaned, GiveUp
<1> QED
  BY <1>1 DEF IInv, Registered, OwedMarked, NoSilentGap

\* dispatch marks the connection in the step in which it gets its reply.
LEMMA SilentMarked ==
  ASSUME IInv, NEW c \in Clients, Silent(c)
  PROVE  MarkedFirst'
<1> USE ConstantFacts DEF Facts, server, client, Lock, Returns
<1>1. UNCHANGED wire /\ subscribed \subseteq subscribed'
  BY DEF Silent, Call, EndReading, Consume, DropConn, ReadRequest, Dispatch, LockReply,
         WriteRequest, Orphaned, GiveUp
<1>2. ASSUME \A d \in Clients :
               /\ handler'[d][1] = "reply" => handler[d][1] = "reply" \/ d \in subscribed'
               /\ writeMu'[d] = 1 => writeMu[d] = 1 \/ handler[d][1] = "reply"
               /\ call'[d][1] = "ok" => call[d][1] = "ok"
      PROVE  MarkedFirst'
  <2>1. ASSUME NEW d \in Clients,
               (\/ handler[d][1] = "reply" \/ writeMu[d] = 1
                \/ <<"reply", 1>> \in ToSet(wire[d]) \/ call[d][1] = "ok")'
        PROVE  d \in subscribed'
    BY <1>1, <1>2, <2>1 DEF IInv, MarkedFirst
  <2> QED
    BY <2>1 DEF MarkedFirst
<1> DEFINE Keeps == \A d \in Clients :
               /\ handler'[d][1] = "reply" => handler[d][1] = "reply" \/ d \in subscribed'
               /\ writeMu'[d] = 1 => writeMu[d] = 1 \/ handler[d][1] = "reply"
               /\ call'[d][1] = "ok" => call[d][1] = "ok"
<1>3. ASSUME Call(c) PROVE Keeps
  BY <1>3 DEF IInv, TypeOK, Call, Calls
<1>4. ASSUME EndReading(c) PROVE Keeps
  BY <1>4 DEF IInv, TypeOK, EndReading
<1>5. ASSUME Consume(c) PROVE Keeps
  BY <1>5 DEF IInv, TypeOK, Consume
<1>6. ASSUME DropConn(c) PROVE Keeps
  BY <1>6 DEF IInv, TypeOK, DropConn
<1>7. ASSUME NEW i \in Calls, ReadRequest(c, i) PROVE Keeps
  BY <1>7 DEF IInv, TypeOK, ReadRequest
<1>8. ASSUME NEW i \in Calls, Dispatch(c, i) PROVE Keeps
  BY <1>8 DEF IInv, TypeOK, Dispatch
<1>9. ASSUME NEW i \in Calls, LockReply(c, i) PROVE Keeps
  BY <1>9 DEF IInv, TypeOK, LockReply
<1>10. ASSUME NEW i \in Calls, WriteRequest(c, i) PROVE Keeps
  <2>1. \E s \in {"waiting", "failed"} : call' = [call EXCEPT ![c][i] = s]
    BY <1>10, Zenon DEF WriteRequest
  <2> QED
    BY <1>10, <2>1 DEF IInv, TypeOK, WriteRequest
<1>11. ASSUME NEW i \in Calls, Orphaned(c, i) PROVE Keeps
  BY <1>11 DEF IInv, TypeOK, Orphaned
<1>12. ASSUME NEW i \in Calls, GiveUp(c, i) PROVE Keeps
  BY <1>12 DEF IInv, TypeOK, GiveUp
<1> QED
  BY <1>2, <1>3, <1>4, <1>5, <1>6, <1>7, <1>8, <1>9, <1>10, <1>11, <1>12 DEF Silent

-----------------------------------------------------------------------------
\* A broadcast that is done with a connection is a broadcast.
LEMMA LeftShrinks ==
  ASSUME NEW E, NEW C, NEW r \in [event : E, left : SUBSET C], NEW c
  PROVE  [r EXCEPT !.left = r.left \ {c}] \in [event : E, left : SUBSET C]
OBVIOUS

\* A broadcast that visits whoever is owed something leaves no gap.
LEMMA GapKept ==
  ASSUME IInv, UNCHANGED <<open, reading, wire, owed, seen>>,
         \A a \in Broadcasters, d \in Clients :
           owed[d] # {} /\ d \in bcast[a].left =>
             bcast'[a].event = bcast[a].event /\ d \in bcast'[a].left
  PROVE  NoSilentGap'
<1>1. ASSUME NEW d \in open \cap reading, NEW n \in owed[d],
             NEW a \in Broadcasters, bcast[a].event = n, d \in bcast[a].left
      PROVE  bcast'[a].event = n /\ d \in bcast'[a].left
  BY <1>1 DEF IInv, TypeOK
<1>2. \A d \in open \cap reading : \A n \in owed[d] :
        \/ n \in seen[d] \/ <<"event", n>> \in ToSet(wire[d])
        \/ \E a \in Broadcasters : bcast[a].event = n /\ d \in bcast[a].left
  BY DEF IInv, NoSilentGap
<1>3. \A d \in open \cap reading : \A n \in owed[d] :
        \/ n \in seen[d] \/ <<"event", n>> \in ToSet(wire[d])
        \/ \E a \in Broadcasters : bcast'[a].event = n /\ d \in bcast'[a].left
  <2> SUFFICES ASSUME NEW d \in open \cap reading, NEW n \in owed[d],
                      n \notin seen[d], <<"event", n>> \notin ToSet(wire[d])
               PROVE  \E a \in Broadcasters : bcast'[a].event = n /\ d \in bcast'[a].left
    BY Zenon
  <2>1. PICK a \in Broadcasters : bcast[a].event = n /\ d \in bcast[a].left
    BY <1>2, Zenon
  <2> QED
    BY <1>1, <2>1, Zenon
<1>4. SUFFICES ASSUME NEW c \in (open \cap reading)', NEW n \in (owed[c])'
                 PROVE  (\/ n \in seen[c]
                         \/ <<"event", n>> \in ToSet(wire[c])
                         \/ \E b \in Broadcasters : bcast[b].event = n /\ c \in bcast[b].left)'
  BY Zenon DEF NoSilentGap
<1>5. c \in open \cap reading /\ n \in owed[c]
  BY <1>4
<1> QED
  BY <1>3, <1>5

\* It begins with every connection, and passes by only those that are owed
\* nothing.
LEMMA BroadcastingIInv ==
  ASSUME IInv, NEW b \in Broadcasters, Broadcasting(b)
  PROVE  IInv'
<1> USE ConstantFacts DEF Facts, server, client, Lock, Quiet
<1>1. ASSUME Broadcast(b) PROVE IInv'
  <2>1. /\ made' \in 1..MaxEvents
        /\ UNCHANGED <<conns, subscribed, handler, writeMu, call, open, reading, wire, seen>>
    BY <1>1 DEF IInv, TypeOK, Broadcast
  <2>2. /\ bcast' = [bcast EXCEPT ![b] = [event |-> made', left |-> conns]]
        /\ bcast[b].event = 0 /\ bcast[b].left = {}
    BY <1>1 DEF Broadcast
  <2>3. owed' = [d \in Clients |-> IF call[d][1] = "ok" THEN owed[d] \union {made'} ELSE owed[d]]
    BY <1>1 DEF Broadcast
  <2>4. /\ bcast' \in [Broadcasters -> [event : 0..MaxEvents, left : SUBSET Clients]]
        /\ owed' \in [Clients -> SUBSET (1..MaxEvents)]
    BY <2>1, <2>2, <2>3 DEF IInv, TypeOK
  <2>5. TypeOK'
    BY <1>1, <2>1, <2>4 DEF IInv, TypeOK, Broadcast
  <2>6. Shape'
    BY <1>1 DEF IInv, TypeOK, Shape, Broadcast
  <2>7. Registered' /\ MarkedFirst'
    BY <2>1 DEF IInv, Registered, MarkedFirst
  <2>8. OwedMarked'
    <3> SUFFICES ASSUME NEW d \in Clients, owed'[d] # {} PROVE d \in subscribed
      BY <2>1 DEF OwedMarked
    <3>1. call[d][1] = "ok" \/ owed[d] # {}
      BY <2>3
    <3> QED
      BY <3>1 DEF IInv, MarkedFirst, OwedMarked
  <2>9. NoSilentGap'
    <3> SUFFICES ASSUME NEW d \in open \cap reading, NEW n \in owed'[d]
                 PROVE  (\/ n \in seen[d] \/ <<"event", n>> \in ToSet(wire[d])
                         \/ \E a \in Broadcasters : bcast[a].event = n /\ d \in bcast[a].left)'
      BY <2>1 DEF NoSilentGap
    <3>1. d \in Clients /\ d \in conns /\ (n \in owed[d] \/ n = made')
      BY <2>3 DEF IInv, TypeOK, Registered
    <3>2. CASE n = made'
      BY <2>2, <3>1, <3>2 DEF IInv, TypeOK
    <3>3. CASE n \in owed[d]
      <4>1. \A a \in Broadcasters : d \in bcast[a].left => bcast'[a] = bcast[a]
        BY <2>2 DEF IInv, TypeOK
      <4> QED
        BY <2>1, <3>3, <4>1 DEF IInv, NoSilentGap
    <3> QED
      BY <3>1, <3>2, <3>3
  <2> QED
    BY <2>5, <2>6, <2>7, <2>8, <2>9 DEF IInv
<1>2. ASSUME EndBroadcast(b) PROVE IInv'
  <2>1. bcast' \in [Broadcasters -> [event : 0..MaxEvents, left : SUBSET Clients]]
    BY <1>2 DEF IInv, TypeOK, EndBroadcast
  <2>2. TypeOK'
    BY <1>2, <2>1 DEF IInv, TypeOK, EndBroadcast
  <2>3. Shape'
    BY <1>2 DEF IInv, TypeOK, Shape, EndBroadcast
  <2>4. Registered' /\ OwedMarked'
    BY <1>2 DEF IInv, Registered, OwedMarked, EndBroadcast
  <2>5. MarkedFirst'
    BY <1>2 DEF IInv, TypeOK, MarkedFirst, EndBroadcast
  <2>6. \A a \in Broadcasters, d \in Clients :
          owed[d] # {} /\ d \in bcast[a].left =>
            bcast'[a].event = bcast[a].event /\ d \in bcast'[a].left
    BY <1>2 DEF IInv, TypeOK, OwedMarked, EndBroadcast
  <2>7. NoSilentGap'
    BY <1>2, <2>6, GapKept DEF EndBroadcast
  <2> QED
    BY <2>2, <2>3, <2>4, <2>5, <2>7 DEF IInv
<1>3. ASSUME NEW c \in Clients, Skip(b, c) PROVE IInv'
  <2>1. bcast' \in [Broadcasters -> [event : 0..MaxEvents, left : SUBSET Clients]]
    <3>2. bcast' = [bcast EXCEPT ![b] = [bcast[b] EXCEPT !.left = bcast[b].left \ {c}]]
      BY <1>3 DEF Skip
    <3>1. bcast[b] \in [event : 0..MaxEvents, left : SUBSET Clients]
      BY DEF IInv, TypeOK
    <3>3. [bcast[b] EXCEPT !.left = bcast[b].left \ {c}]
            \in [event : 0..MaxEvents, left : SUBSET Clients]
      BY <3>1, LeftShrinks
    <3> QED
      BY <3>2, <3>3 DEF IInv, TypeOK
  <2>2. TypeOK'
    BY <1>3, <2>1 DEF IInv, TypeOK, Skip
  <2>3. Shape'
    BY <1>3 DEF IInv, TypeOK, Shape, Skip
  <2>4. Registered' /\ OwedMarked'
    BY <1>3 DEF IInv, Registered, OwedMarked, Skip
  <2>5. MarkedFirst'
    BY <1>3 DEF IInv, TypeOK, MarkedFirst, Skip
  <2>6. \A a \in Broadcasters, d \in Clients :
          owed[d] # {} /\ d \in bcast[a].left =>
            bcast'[a].event = bcast[a].event /\ d \in bcast'[a].left
    BY <1>3 DEF IInv, TypeOK, OwedMarked, Skip
  <2>7. NoSilentGap'
    BY <1>3, <2>6, GapKept DEF Skip
  <2> QED
    BY <2>2, <2>3, <2>4, <2>5, <2>7 DEF IInv
<1>4. ASSUME NEW c \in Clients, LockEvent(b, c) PROVE IInv'
  <2>1. bcast' \in [Broadcasters -> [event : 0..MaxEvents, left : SUBSET Clients]]
    BY <1>4 DEF IInv, TypeOK, LockEvent
  <2>2. TypeOK'
    BY <1>4, <2>1 DEF IInv, TypeOK, LockEvent
  <2>3. Shape'
    BY <1>4 DEF IInv, TypeOK, Shape, LockEvent
  <2>4. Registered' /\ OwedMarked'
    BY <1>4 DEF IInv, Registered, OwedMarked, LockEvent
  <2>5. MarkedFirst'
    BY <1>4 DEF IInv, TypeOK, MarkedFirst, LockEvent
  <2>6. \A a \in Broadcasters, d \in Clients :
          owed[d] # {} /\ d \in bcast[a].left =>
            bcast'[a].event = bcast[a].event /\ d \in bcast'[a].left
    BY <1>4 DEF IInv, TypeOK, OwedMarked, LockEvent
  <2>7. NoSilentGap'
    BY <1>4, <2>6, GapKept DEF LockEvent
  <2> QED
    BY <2>2, <2>3, <2>4, <2>5, <2>7 DEF IInv
<1> QED
  BY <1>1, <1>2, <1>3, <1>4 DEF Broadcasting

-----------------------------------------------------------------------------
\* A line that is written is on the wire, or the connection is closed.
LEMMA WriteOutcome ==
  ASSUME IInv, NEW c \in Clients, NEW line \in Lines, Write(c, line)
  PROVE  /\ wire' \in [Clients -> Seq(Lines)]
         /\ \A d \in Clients : Len(wire'[d]) <= SocketCap
         /\ open' \subseteq open
         /\ \A d \in Clients : ToSet(wire[d]) \subseteq ToSet(wire'[d])
         /\ \A d \in Clients : ToSet(wire'[d]) \subseteq ToSet(wire[d]) \union {line}
         /\ c \in open' => line \in ToSet(wire'[c])
<1>1. wire[c] \in Seq(Lines)
  BY DEF IInv, Shape
<1>2. /\ Append(wire[c], line) \in Seq(Lines)
      /\ Len(Append(wire[c], line)) = Len(wire[c]) + 1
      /\ ToSet(Append(wire[c], line)) = ToSet(wire[c]) \union {line}
  BY <1>1, AppendLine
<1>3. CASE /\ c \in open /\ Len(wire[c]) < SocketCap
           /\ wire' = [wire EXCEPT ![c] = Append(@, line)]
           /\ UNCHANGED open
  <2>1. Len(wire[c]) + 1 <= SocketCap
    BY <1>1, <1>3, CapAssumption
  <2> QED
    BY <1>2, <1>3, <2>1 DEF IInv, TypeOK, Shape
<1>4. CASE open' = open \ {c} /\ UNCHANGED wire
  BY <1>4 DEF IInv, TypeOK, Shape
<1> QED
  BY <1>3, <1>4 DEF Write

\* There is no gap as long as what leaves the wire is seen.
LEMMA GapMoves ==
  ASSUME IInv, UNCHANGED <<bcast, owed>>,
         open' \cap reading' \subseteq open \cap reading,
         \A d \in Clients : seen[d] \subseteq seen'[d],
         \A d \in open' \cap reading', n \in 1..MaxEvents :
           <<"event", n>> \in ToSet(wire[d]) => n \in seen'[d] \/ <<"event", n>> \in ToSet(wire'[d])
  PROVE  NoSilentGap'
<1> SUFFICES ASSUME NEW d \in open' \cap reading', NEW n \in owed[d]
             PROVE  (\/ n \in seen[d] \/ <<"event", n>> \in ToSet(wire[d])
                     \/ \E a \in Broadcasters : bcast[a].event = n /\ d \in bcast[a].left)'
  BY Zenon DEF NoSilentGap
<1>1. d \in Clients /\ d \in open \cap reading /\ n \in 1..MaxEvents
  BY DEF IInv, TypeOK
<1>2. \/ n \in seen[d] \/ <<"event", n>> \in ToSet(wire[d])
      \/ \E a \in Broadcasters : bcast[a].event = n /\ d \in bcast[a].left
  BY <1>1 DEF IInv, NoSilentGap
<1> QED
  BY <1>1, <1>2

\* A reply or an event goes from its writer to the wire.
LEMMA WritingIInv ==
  ASSUME IInv, NEW c \in Clients, Writing(c)
  PROVE  IInv'
<1> USE ConstantFacts DEF Facts, server, client
<1>1. ASSUME NEW i \in Calls, WriteReply(c, i) PROVE IInv'
  <2>1. <<"reply", i>> \in Lines /\ Write(c, <<"reply", i>>)
    BY <1>1 DEF WriteReply, Lines
  <2>2. /\ wire' \in [Clients -> Seq(Lines)]
        /\ \A d \in Clients : Len(wire'[d]) <= SocketCap
        /\ open' \subseteq open
        /\ \A d \in Clients : ToSet(wire[d]) \subseteq ToSet(wire'[d])
        /\ \A d \in Clients : ToSet(wire'[d]) \subseteq ToSet(wire[d]) \union {<<"reply", i>>}
        /\ ToSet(wire'[c]) \subseteq ToSet(wire[c]) \union {<<"reply", i>>}
    BY <2>1, WriteOutcome
  <2>3. /\ writeMu[c] = i /\ writeMu' = [writeMu EXCEPT ![c] = None]
        /\ handler' = [handler EXCEPT ![c][i] = "none"]
        /\ \A d \in Clients : d # c => wire'[d] = wire[d]
    BY <1>1 DEF WriteReply, Write, IInv, Shape
  <2>4. UNCHANGED <<conns, subscribed, bcast, made, call, nextID, pending, closed, reading,
                    events, requests, owed, seen>>
    BY <1>1 DEF WriteReply
  <2>5. TypeOK'
    BY <1>1, <2>2, <2>3, <2>4 DEF IInv, TypeOK
  <2>6. Shape'
    BY <2>2, <2>3, <2>4 DEF IInv, TypeOK, Shape
  <2>7. Registered' /\ OwedMarked'
    BY <2>2, <2>4 DEF IInv, Registered, OwedMarked
  <2>8. MarkedFirst'
    <3> SUFFICES ASSUME NEW d \in Clients,
                   (\/ handler[d][1] = "reply" \/ writeMu[d] = 1
                    \/ <<"reply", 1>> \in ToSet(wire[d]) \/ call[d][1] = "ok")'
                 PROVE  d \in subscribed
      BY <2>4 DEF MarkedFirst
    <3>1. \/ handler[d][1] = "reply" \/ writeMu[d] = 1
          \/ <<"reply", 1>> \in ToSet(wire[d]) \/ call[d][1] = "ok"
      <4>1. CASE handler'[d][1] = "reply"
        BY <1>1, <2>3, <4>1 DEF IInv, TypeOK
      <4>2. CASE writeMu'[d] = 1
        BY <2>3, <4>2 DEF IInv, TypeOK
      <4>3. CASE <<"reply", 1>> \in ToSet(wire'[d])
        <5>1. <<"reply", 1>> \in ToSet(wire[d]) \/ (d = c /\ i = 1)
          BY <2>2, <2>3, <4>3
        <5> QED
          BY <2>3, <5>1
      <4>4. CASE call'[d][1] = "ok"
        BY <2>4, <4>4
      <4> QED
        BY <4>1, <4>2, <4>3, <4>4
    <3> QED
      BY <3>1 DEF IInv, MarkedFirst
  <2>9. NoSilentGap'
    <3>1. open \subseteq Clients
      BY DEF IInv, TypeOK
    <3> QED
      BY <2>2, <2>4, <3>1, GapMoves
  <2> QED
    BY <2>5, <2>6, <2>7, <2>8, <2>9 DEF IInv
<1>2. ASSUME NEW b \in Broadcasters, WriteEvent(b, c) PROVE IInv'
  <2> DEFINE line == <<"event", bcast[b].event>>
  <2>1. writeMu[c] = b /\ c \in bcast[b].left /\ bcast[b].event \in 1..MaxEvents
    BY <1>2 DEF WriteEvent, IInv, TypeOK, Shape
  <2>2. line \in Lines /\ Write(c, line)
    BY <1>2, <2>1 DEF WriteEvent, Lines
  <2>3. /\ wire' \in [Clients -> Seq(Lines)]
        /\ \A d \in Clients : Len(wire'[d]) <= SocketCap
        /\ open' \subseteq open
        /\ \A d \in Clients : ToSet(wire[d]) \subseteq ToSet(wire'[d])
        /\ \A d \in Clients : ToSet(wire'[d]) \subseteq ToSet(wire[d]) \union {line}
        /\ c \in open' => line \in ToSet(wire'[c])
    BY <2>2, WriteOutcome
  <2>4. /\ writeMu' = [writeMu EXCEPT ![c] = None]
        /\ bcast' = [bcast EXCEPT ![b] = [bcast[b] EXCEPT !.left = bcast[b].left \ {c}]]
    BY <1>2 DEF WriteEvent, Write
  <2>5. UNCHANGED <<conns, subscribed, handler, made, call, nextID, pending, closed, reading,
                    events, requests, owed, seen>>
    BY <1>2 DEF WriteEvent
  <2>6. bcast' \in [Broadcasters -> [event : 0..MaxEvents, left : SUBSET Clients]]
    <3>1. bcast[b] \in [event : 0..MaxEvents, left : SUBSET Clients]
      BY DEF IInv, TypeOK
    <3>2. [bcast[b] EXCEPT !.left = bcast[b].left \ {c}]
            \in [event : 0..MaxEvents, left : SUBSET Clients]
      BY <3>1, LeftShrinks
    <3> QED
      BY <2>4, <3>2 DEF IInv, TypeOK
  <2>7. \A a \in Broadcasters, d \in Clients :
          /\ bcast'[a].event = bcast[a].event
          /\ d \in bcast'[a].left <=> d \in bcast[a].left /\ ~(a = b /\ d = c)
    BY <2>4 DEF IInv, TypeOK
  <2>8. TypeOK'
    BY <2>3, <2>4, <2>5, <2>6 DEF IInv, TypeOK
  <2>9. Shape'
    BY <2>1, <2>3, <2>4, <2>5, <2>6, <2>7 DEF IInv, TypeOK, Shape
  <2>10. Registered' /\ OwedMarked'
    BY <2>3, <2>5 DEF IInv, Registered, OwedMarked
  <2>11. MarkedFirst'
    <3> SUFFICES ASSUME NEW d \in Clients,
                   (\/ handler[d][1] = "reply" \/ writeMu[d] = 1
                    \/ <<"reply", 1>> \in ToSet(wire[d]) \/ call[d][1] = "ok")'
                 PROVE  d \in subscribed
      BY <2>5 DEF MarkedFirst
    <3>1. <<"reply", 1>> # line
      OBVIOUS
    <3>2. \/ handler[d][1] = "reply" \/ writeMu[d] = 1
          \/ <<"reply", 1>> \in ToSet(wire[d]) \/ call[d][1] = "ok"
      BY <2>3, <2>4, <2>5, <3>1 DEF IInv, TypeOK
    <3> QED
      BY <3>2 DEF IInv, MarkedFirst
  <2>12. NoSilentGap'
    <3> SUFFICES ASSUME NEW d \in open' \cap reading, NEW n \in owed[d]
                 PROVE  (\/ n \in seen[d] \/ <<"event", n>> \in ToSet(wire[d])
                         \/ \E a \in Broadcasters : bcast[a].event = n /\ d \in bcast[a].left)'
      BY <2>5 DEF NoSilentGap
    <3>1. d \in Clients /\ d \in open \cap reading
      BY <2>3 DEF IInv, TypeOK
    <3>2. \/ n \in seen[d] \/ <<"event", n>> \in ToSet(wire[d])
          \/ \E a \in Broadcasters : bcast[a].event = n /\ d \in bcast[a].left
      BY <3>1 DEF IInv, NoSilentGap
    <3>3. CASE n \in seen[d] \/ <<"event", n>> \in ToSet(wire[d])
      BY <2>3, <2>5, <3>1, <3>3
    <3>4. ASSUME NEW a \in Broadcasters, bcast[a].event = n, d \in bcast[a].left
          PROVE  \/ <<"event", n>> \in ToSet(wire'[d])
                 \/ bcast'[a].event = n /\ d \in bcast'[a].left
      BY <2>3, <2>7, <3>1, <3>4
    <3> QED
      BY <3>2, <3>3, <3>4
  <2> QED
    BY <2>8, <2>9, <2>10, <2>11, <2>12 DEF IInv
<1> QED
  BY <1>1, <1>2 DEF Writing

-----------------------------------------------------------------------------
\* A call succeeds by a reply that was on the wire.
LEMMA ReadingMarked ==
  ASSUME IInv, UNCHANGED <<subscribed, handler, writeMu>>,
         \A d \in Clients : ToSet(wire'[d]) \subseteq ToSet(wire[d]),
         \A d \in Clients : call'[d][1] = "ok" =>
           call[d][1] = "ok" \/ <<"reply", 1>> \in ToSet(wire[d])
  PROVE  MarkedFirst'
<1> SUFFICES ASSUME NEW d \in Clients,
               (\/ handler[d][1] = "reply" \/ writeMu[d] = 1
                \/ <<"reply", 1>> \in ToSet(wire[d]) \/ call[d][1] = "ok")'
             PROVE  d \in subscribed
  BY DEF MarkedFirst
<1>1. \/ handler[d][1] = "reply" \/ writeMu[d] = 1
      \/ <<"reply", 1>> \in ToSet(wire[d]) \/ call[d][1] = "ok"
  OBVIOUS
<1> QED
  BY <1>1 DEF IInv, MarkedFirst

\* readLoop answers a call with a reply, and has seen an event; what Close leaves
\* unread belongs to no open connection.
LEMMA ReadingIInv ==
  ASSUME IInv, NEW c \in Clients, Reading(c)
  PROVE  IInv'
<1> USE ConstantFacts DEF Facts, server, client, Returns
<1>1. ASSUME wire[c] # <<>>, wire' = [wire EXCEPT ![c] = Tail(@)]
      PROVE  /\ wire' \in [Clients -> Seq(Lines)] /\ Head(wire[c]) \in Lines
             /\ \A d \in Clients : Len(wire'[d]) <= SocketCap
             /\ Head(wire[c]) \in ToSet(wire[c])
             /\ \A d \in Clients : ToSet(wire'[d]) \subseteq ToSet(wire[d])
             /\ \A d \in Clients : ToSet(wire[d]) \subseteq ToSet(wire'[d]) \union {Head(wire[c])}
             /\ \A d \in Clients : d # c => wire'[d] = wire[d]
  <2>1. wire[c] \in Seq(Lines)
    BY DEF IInv, Shape
  <2>2. /\ Tail(wire[c]) \in Seq(Lines) /\ Head(wire[c]) \in Lines
        /\ Len(Tail(wire[c])) \in Nat /\ Len(wire[c]) \in Nat /\ Len(Tail(wire[c])) <= Len(wire[c])
        /\ Head(wire[c]) \in ToSet(wire[c])
        /\ ToSet(Tail(wire[c])) \subseteq ToSet(wire[c])
        /\ ToSet(wire[c]) \subseteq ToSet(Tail(wire[c])) \union {Head(wire[c])}
    BY <1>1, <2>1, TailLine
  <2>3. Len(Tail(wire[c])) <= SocketCap
    BY <2>2 DEF IInv, TypeOK
  <2> QED
    BY <1>1, <2>2, <2>3 DEF IInv, TypeOK, Shape
<1>2. CASE ReadReply(c)
  <2> DEFINE i == Head(wire[c])[2]
  <2>1. /\ wire' \in [Clients -> Seq(Lines)] /\ Head(wire[c]) \in Lines
        /\ \A d \in Clients : Len(wire'[d]) <= SocketCap
        /\ Head(wire[c]) \in ToSet(wire[c])
        /\ \A d \in Clients : ToSet(wire'[d]) \subseteq ToSet(wire[d])
        /\ \A d \in Clients : ToSet(wire[d]) \subseteq ToSet(wire'[d]) \union {Head(wire[c])}
    BY <1>1, <1>2 DEF ReadReply
  <2>2. i \in Calls /\ Head(wire[c]) = <<"reply", i>>
    BY <1>2, <2>1 DEF ReadReply, Lines
  <2>3. UNCHANGED <<conns, subscribed, handler, writeMu, bcast, made, nextID, closed, reading,
                    events, open, requests, owed, seen>>
    BY <1>2 DEF ReadReply
  <2>4. \/ call' = [call EXCEPT ![c][i] = "ok"] /\ pending' = [pending EXCEPT ![c] = @ \ {i}]
        \/ UNCHANGED <<call, pending>>
    BY <1>2 DEF ReadReply
  <2>5. /\ call' \in [Clients -> [Calls -> {"none", "entered", "waiting", "ok", "failed"}]]
        /\ pending' \in [Clients -> SUBSET Calls]
    <3>1. CASE call' = [call EXCEPT ![c][i] = "ok"] /\ pending' = [pending EXCEPT ![c] = @ \ {i}]
      BY <2>2, <3>1 DEF IInv, TypeOK
    <3>2. CASE UNCHANGED <<call, pending>>
      BY <3>2 DEF IInv, TypeOK
    <3> QED
      BY <2>4, <3>1, <3>2
  <2>6. TypeOK'
    BY <2>1, <2>3, <2>5 DEF IInv, TypeOK
  <2>7. Shape' /\ Registered' /\ OwedMarked'
    BY <2>1, <2>3 DEF IInv, Shape, Registered, OwedMarked
  <2>8. \A d \in Clients : call'[d][1] = "ok" => call[d][1] = "ok" \/ <<"reply", 1>> \in ToSet(wire[d])
    <3>1. CASE call' = [call EXCEPT ![c][i] = "ok"]
      <4>1. \A d \in Clients : call'[d][1] # call[d][1] => d = c /\ i = 1
        BY <2>2, <3>1 DEF IInv, TypeOK
      <4> QED
        BY <2>1, <2>2, <4>1
    <3>2. CASE UNCHANGED call
      BY <3>2
    <3> QED
      BY <2>4, <3>1, <3>2
  <2>9. MarkedFirst'
    BY <2>1, <2>3, <2>8, ReadingMarked
  <2>10. \A d \in Clients, n \in 1..MaxEvents :
           <<"event", n>> \in ToSet(wire[d]) => <<"event", n>> \in ToSet(wire'[d])
    <3>1. \A n \in 1..MaxEvents : <<"event", n>> # Head(wire[c])
      BY <2>2
    <3> QED
      BY <2>1, <3>1
  <2>11. open \subseteq Clients
    BY DEF IInv, TypeOK
  <2>12. NoSilentGap'
    BY <2>3, <2>10, <2>11, GapMoves
  <2> QED
    BY <2>6, <2>7, <2>9, <2>12 DEF IInv
<1>3. CASE ReadEvent(c)
  <2> DEFINE m == Head(wire[c])[2]
  <2>1. /\ wire' \in [Clients -> Seq(Lines)] /\ Head(wire[c]) \in Lines
        /\ \A d \in Clients : Len(wire'[d]) <= SocketCap
        /\ \A d \in Clients : ToSet(wire'[d]) \subseteq ToSet(wire[d])
        /\ \A d \in Clients : ToSet(wire[d]) \subseteq ToSet(wire'[d]) \union {Head(wire[c])}
        /\ \A d \in Clients : d # c => wire'[d] = wire[d]
    BY <1>1, <1>3 DEF ReadEvent
  <2>2. m \in 1..MaxEvents /\ Head(wire[c]) = <<"event", m>>
    BY <1>3, <2>1 DEF ReadEvent, Lines
  <2>3. UNCHANGED <<conns, subscribed, handler, writeMu, bcast, made, call, nextID, pending,
                    closed, reading, open, requests, owed>>
    BY <1>3 DEF ReadEvent
  <2>4. /\ seen' = [seen EXCEPT ![c] = @ \union {m}]
        /\ seen' \in [Clients -> SUBSET (1..MaxEvents)]
        /\ \A d \in Clients : seen[d] \subseteq seen'[d]
    BY <1>3, <2>2 DEF ReadEvent, IInv, TypeOK
  <2>5. /\ events' \in [Clients -> Seq(1..MaxEvents)]
        /\ \A d \in Clients : Len(events'[d]) <= QueueCap
    <3>1. events[c] \in Seq(1..MaxEvents)
      BY DEF IInv, Shape
    <3>2. Append(events[c], m) \in Seq(1..MaxEvents) /\ Len(Append(events[c], m)) = Len(events[c]) + 1
      BY <2>2, <3>1, AppendLine
    <3>3. CASE Len(events[c]) < QueueCap /\ events' = [events EXCEPT ![c] = Append(@, m)]
      <4>1. Len(events[c]) + 1 <= QueueCap
        BY <3>1, <3>3
      <4> QED
        BY <3>2, <3>3, <4>1 DEF IInv, TypeOK, Shape
    <3>4. CASE events' = events
      BY <3>4 DEF IInv, TypeOK, Shape
    <3> QED
      BY <1>3, <3>3, <3>4 DEF ReadEvent
  <2>6. TypeOK'
    BY <2>1, <2>3, <2>4, <2>5 DEF IInv, TypeOK
  <2>7. Shape' /\ Registered' /\ OwedMarked'
    BY <2>1, <2>3, <2>5 DEF IInv, Shape, Registered, OwedMarked
  <2>8. MarkedFirst'
    BY <2>1, <2>3, ReadingMarked
  <2>9. \A d \in Clients, n \in 1..MaxEvents :
          <<"event", n>> \in ToSet(wire[d]) => n \in seen'[d] \/ <<"event", n>> \in ToSet(wire'[d])
    <3>1. m \in seen'[c]
      BY <2>4 DEF IInv, TypeOK
    <3>2. \A n \in 1..MaxEvents : <<"event", n>> = Head(wire[c]) => n = m
      BY <2>2
    <3> QED
      BY <2>1, <3>1, <3>2
  <2>10. open \subseteq Clients
    BY DEF IInv, TypeOK
  <2>11. NoSilentGap'
    BY <2>3, <2>4, <2>9, <2>10, GapMoves
  <2> QED
    BY <2>6, <2>7, <2>8, <2>11 DEF IInv
<1>4. CASE Close(c)
  <2>1. UNCHANGED <<conns, subscribed, handler, writeMu, bcast, made, call, nextID, pending,
                    reading, events, requests, owed, seen>>
    BY <1>4 DEF Close
  <2>2. /\ open' = open \ {c} /\ closed' = closed \union {c}
        /\ wire' = [wire EXCEPT ![c] = <<>>]
    BY <1>4 DEF Close
  <2>3. /\ wire' \in [Clients -> Seq(Lines)] /\ wire'[c] = <<>>
        /\ \A d \in Clients : d # c => wire'[d] = wire[d]
    BY <2>2 DEF IInv, Shape
  <2>4. /\ \A d \in Clients : Len(wire'[d]) <= SocketCap
        /\ \A d \in Clients : ToSet(wire'[d]) \subseteq ToSet(wire[d])
    <3>1. Len(<<>>) = 0 /\ ToSet(<<>>) = {}
      BY DEF ToSet
    <3>2. ASSUME NEW d \in Clients
          PROVE  Len(wire'[d]) <= SocketCap /\ ToSet(wire'[d]) \subseteq ToSet(wire[d])
      <4>1. CASE d = c
        BY <2>3, <3>1, <4>1
      <4>2. CASE d # c
        BY <2>3, <4>2 DEF IInv, TypeOK
      <4> QED
        BY <4>1, <4>2
    <3> QED
      BY <3>2
  <2>5. TypeOK'
    BY <2>1, <2>2, <2>4 DEF IInv, TypeOK
  <2>6. Shape' /\ Registered' /\ OwedMarked'
    BY <2>1, <2>2, <2>3 DEF IInv, Shape, Registered, OwedMarked
  <2>7. MarkedFirst'
    BY <2>1, <2>4, ReadingMarked
  <2>8. NoSilentGap'
    <3>1. \A d \in open' \cap reading' : d \in Clients /\ d # c /\ d \in open \cap reading
      BY <2>1, <2>2 DEF IInv, TypeOK
    <3> QED
      BY <2>1, <2>3, <3>1, GapMoves
  <2> QED
    BY <2>5, <2>6, <2>7, <2>8 DEF IInv
<1> QED
  BY <1>2, <1>3, <1>4 DEF Reading

\* The invariant is inductive.
LEMMA NextIInv == IInv /\ [Next]_vars => IInv'
<1> SUFFICES ASSUME IInv, [Next]_vars PROVE IInv'
  OBVIOUS
<1>1. ASSUME NEW c \in Clients, Silent(c) PROVE IInv'
  BY <1>1, SilentType, SilentShape, SilentOwed, SilentMarked DEF IInv
<1>2. CASE UNCHANGED vars
  <2>1. UNCHANGED <<conns, subscribed, handler, writeMu, bcast, made, call, nextID, pending,
                    closed, reading, events, open, requests, wire, owed, seen>>
    BY <1>2 DEF vars, server, client
  <2>2. TypeOK' /\ Shape' /\ Registered'
    BY <2>1 DEF IInv, TypeOK, Shape, Registered
  <2>3. MarkedFirst' /\ OwedMarked' /\ NoSilentGap'
    BY <2>1 DEF IInv, MarkedFirst, OwedMarked, NoSilentGap
  <2> QED
    BY <2>2, <2>3 DEF IInv
<1> QED
  BY <1>1, <1>2, StepKinds, BroadcastingIInv, WritingIInv, ReadingIInv

-----------------------------------------------------------------------------
\* Every variable keeps its type, and no buffer exceeds its capacity.
THEOREM LinkTypeCorrect == Spec => []TypeOK
<1>1. IInv => TypeOK
  BY DEF IInv
<1> QED
  BY <1>1, InitIInv, NextIInv, PTL DEF Spec

\* Broadcast leaves no gap in the events of a living connection after the
\* subscribe reply (serverConn.dispatch marks the connection before it replies).
THEOREM NoGap == Spec => []NoSilentGap
<1>1. IInv => NoSilentGap
  BY DEF IInv
<1> QED
  BY <1>1, InitIInv, NextIInv, PTL DEF Spec
=============================================================================
