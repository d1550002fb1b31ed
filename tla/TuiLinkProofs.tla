--------------------------- MODULE TuiLinkProofs ----------------------------
(***************************************************************************)
(* For any number of calls and of daemons that go away, at any moment:     *)
(* gmtui never runs two reconnect loops, forgets the loss of a link only   *)
(* when it adopts that link late, and the approvals it shows at rest are   *)
(* the right ones but for those that overtook a list or each other.        *)
(***************************************************************************)
EXTENDS TuiApprovals, FiniteSetTheorems, TLAPS

InQueue(m) == \E n \in DOMAIN queue : queue[n] = m

\* There is one bearer of the flag reconnecting: the task, or one link in the
\* queue.  The task waits for its own call only.
OneBearer ==
  /\ \A m, n \in DOMAIN queue : queue[m] \in Links /\ queue[n] \in Links => m = n
  /\ task # "off" => \A n \in DOMAIN queue : queue[n] \notin Links
  /\ call[Subscribe] # "none" => task = "subscribing"

LoopInv == TypeOK /\ OneReconnect /\ OneBearer

\* A new element is the last one, and all others stay where they were.
LEMMA AppendElements ==
  ASSUME NEW S, NEW q \in Seq(S), NEW e \in S
  PROVE  /\ Append(q, e) \in Seq(S)
         /\ DOMAIN Append(q, e) = DOMAIN q \union {Len(q) + 1}
         /\ Append(q, e)[Len(q) + 1] = e
         /\ \A n \in DOMAIN q : n # Len(q) + 1 /\ Append(q, e)[n] = q[n]
OBVIOUS

\* The elements of a tail are those of the sequence, one place earlier.
LEMMA TailElements ==
  ASSUME NEW S, NEW q \in Seq(S), q # <<>>
  PROVE  /\ Tail(q) \in Seq(S)
         /\ 1 \in DOMAIN q /\ Head(q) = q[1] /\ Head(q) \in S
         /\ \A n \in DOMAIN Tail(q) : n + 1 \in DOMAIN q /\ n + 1 # 1 /\ Tail(q)[n] = q[n + 1]
         /\ \A n \in DOMAIN q : n # 1 => \E k \in DOMAIN Tail(q) : n = k + 1 /\ Tail(q)[k] = q[n]
         /\ \A k, l \in DOMAIN Tail(q) : k + 1 = l + 1 => k = l
<1>1. /\ Tail(q) \in Seq(S) /\ DOMAIN q = 1..Len(q) /\ DOMAIN Tail(q) = 1..(Len(q) - 1)
      /\ Len(q) \in Nat /\ Len(q) >= 1
  OBVIOUS
<1>2. \A n \in 1..(Len(q) - 1) : Tail(q)[n] = q[n + 1]
  OBVIOUS
<1>3. Head(q) = q[1] /\ Head(q) \in S
  OBVIOUS
<1>4. ASSUME NEW n \in DOMAIN q, n # 1
      PROVE  \E k \in DOMAIN Tail(q) : n = k + 1 /\ Tail(q)[k] = q[n]
  <2>1. n - 1 \in 1..(Len(q) - 1) /\ n = (n - 1) + 1
    BY <1>1, <1>4
  <2> QED
    BY <1>1, <1>2, <2>1
<1> QED
  BY <1>1, <1>2, <1>3, <1>4

\* At first there is one link, no task and an empty queue.
LEMMA InitLoopInv == Init => LoopInv
<1> SUFFICES ASSUME Init PROVE LoopInv
  OBVIOUS
<1>1. daemonLost \in BOOLEAN /\ reconnecting \in BOOLEAN
  BY Zenon DEF Init
<1>2. queue \in Seq({Lost} \union Links) /\ DOMAIN queue = {}
  BY DEF Init
<1> QED
  BY <1>1, <1>2, MaxDeathsAssumption, SubscribeAssumption
  DEF Init, LoopInv, TypeOK, OneReconnect, OneBearer, Links

\* Calls and readers: only the end of the call to subscribe moves the task, and
\* it moves it on.
LEMMA CallsLoopInv ==
  ASSUME LoopInv,
         \/ \E c \in Calls : AppCall(c) \/ Send(c) \/ Reply(c)
         \/ \E k \in Links : Drain(k)
  PROVE  LoopInv'
<1> USE SubscribeAssumption DEF LoopInv, TypeOK, OneBearer, wires, app
<1>1. /\ UNCHANGED <<queue, rpc, fresh, deaths, link, forwarder>>
      /\ drained' \subseteq Links /\ deaf' \subseteq Links
  BY DEF AppCall, Send, Reply, Drain
<1>2. UNCHANGED reconnecting /\ UNCHANGED daemonLost
  BY DEF AppCall, Send, Reply, Drain
<1> DEFINE Moves ==
      /\ call' \in [Calls -> {"none", "inserted", "waiting"}] /\ on' \in [Calls -> Links]
      /\ \/ task' = task /\ (call'[Subscribe] # "none" => call[Subscribe] # "none")
         \/ /\ task = "subscribing" /\ task' \in {"sleep", "attach"}
            /\ call'[Subscribe] = "none"
<1>3. ASSUME NEW c \in Calls, AppCall(c) PROVE Moves
  BY <1>3 DEF AppCall, Insert
<1>4. ASSUME NEW c \in Calls, Send(c) PROVE Moves
  BY <1>4 DEF Send, End
<1>5. ASSUME NEW c \in Calls, Reply(c) PROVE Moves
  BY <1>5 DEF Reply, End
<1>6. ASSUME NEW k \in Links, Drain(k) PROVE Moves
  BY <1>6 DEF Drain, End, Pending
<1>7. Moves
  BY <1>3, <1>4, <1>5, <1>6
<1>8. TypeOK'
  BY <1>1, <1>2, <1>7
<1>9. OneReconnect' /\ OneBearer'
  BY <1>1, <1>2, <1>7 DEF OneReconnect
<1> QED
  BY <1>8, <1>9

\* The task hands the flag over to the queue in its last step.
LEMMA TaskLoopInv ==
  ASSUME LoopInv, Dial \/ Task
  PROVE  LoopInv'
<1> USE SubscribeAssumption DEF LoopInv, TypeOK, OneBearer, wires, app, TaskGoes
<1>1. CASE Announce
  <2>1. fresh \in {Lost} \union Links /\ queue \in Seq({Lost} \union Links)
    OBVIOUS
  <2>2. UNCHANGED reconnecting /\ UNCHANGED daemonLost /\ reconnecting
    BY <1>1 DEF Announce, OneReconnect
  <2>3. /\ queue' \in Seq({Lost} \union Links)
        /\ DOMAIN queue' = DOMAIN queue \union {Len(queue) + 1}
        /\ queue'[Len(queue) + 1] = fresh
        /\ \A n \in DOMAIN queue : n # Len(queue) + 1 /\ queue'[n] = queue[n]
    BY <1>1, <2>1, AppendElements DEF Announce
  <2>4. task = "announce" /\ task' = "off" /\ UNCHANGED <<wires, call, on, fresh, rpc, deaths>>
    BY <1>1 DEF Announce
  <2>5. TypeOK'
    BY <2>2, <2>3, <2>4
  <2>6. OneReconnect' /\ OneBearer'
    BY <2>2, <2>3, <2>4 DEF OneReconnect
  <2> QED
    BY <2>5, <2>6
<1>2. CASE Dial \/ DialFails \/ CallSubscribe \/ Wake \/ Attach
  <2>1. UNCHANGED reconnecting /\ UNCHANGED daemonLost
    BY <1>2 DEF Dial, DialFails, CallSubscribe, Wake, Attach
  <2>2. TypeOK'
    BY <1>2, <2>1 DEF Dial, DialFails, CallSubscribe, Wake, Attach, Insert
  <2>3. UNCHANGED queue /\ task # "off" /\ task' # "off"
        /\ (call'[Subscribe] # "none" => task' = "subscribing")
    BY <1>2 DEF Dial, DialFails, CallSubscribe, Wake, Attach, Insert
  <2>4. OneReconnect' /\ OneBearer'
    BY <2>1, <2>3 DEF OneReconnect
  <2> QED
    BY <2>2, <2>4
<1> QED
  BY <1>1, <1>2 DEF Task

\* The main loop takes the flag from what it hears, and the forwarder adds only
\* losses.
LEMMA QueueLoopInv ==
  ASSUME LoopInv, HearLoss \/ Adopt \/ \E k \in Links : Forward(k)
  PROVE  LoopInv'
<1> USE SubscribeAssumption DEF LoopInv, TypeOK, OneBearer, wires, app
<1> DEFINE Tailed ==
      /\ queue' \in Seq({Lost} \union Links)
      /\ 1 \in DOMAIN queue /\ Head(queue) = queue[1]
      /\ \A n \in DOMAIN queue' : n + 1 \in DOMAIN queue /\ n + 1 # 1 /\ queue'[n] = queue[n + 1]
      /\ \A n \in DOMAIN queue :
           n # 1 => \E k \in DOMAIN queue' : n = k + 1 /\ queue'[k] = queue[n]
      /\ \A k, l \in DOMAIN queue' : k + 1 = l + 1 => k = l
<1>1. ASSUME queue # <<>>, queue' = Tail(queue) PROVE Tailed
  <2>1. queue \in Seq({Lost} \union Links)
    OBVIOUS
  <2> QED
    BY <1>1, <2>1, TailElements
<1>2. CASE HearLoss
  <2>1. Tailed
    BY <1>1, <1>2 DEF HearLoss
  <2>2. daemonLost' \in BOOLEAN /\ reconnecting' \in BOOLEAN /\ reconnecting'
    BY <1>2, Zenon DEF HearLoss
  <2>3. /\ UNCHANGED <<wires, call, on, fresh, rpc, deaths>>
        /\ task' = IF reconnecting THEN task ELSE "dial"
        /\ Head(queue) = Lost
    BY <1>2 DEF HearLoss
  <2>4. TypeOK'
    BY <2>1, <2>2, <2>3
  <2>5. queue[1] \notin Links
    BY <2>1, <2>3, MaxDeathsAssumption DEF Links, Lost
  <2>6. (task' # "off" \/ \E n \in DOMAIN queue' : queue'[n] \in Links)
    <3>1. CASE ~reconnecting
      BY <2>3, <3>1
    <3>2. CASE task # "off"
      BY <2>3, <3>2
    <3>3. CASE \E n \in DOMAIN queue : queue[n] \in Links
      BY <2>1, <2>5, <3>3
    <3> QED
      BY <3>1, <3>2, <3>3 DEF OneReconnect
  <2>7. OneBearer'
    <3>1. \A m, n \in DOMAIN queue' : queue'[m] \in Links /\ queue'[n] \in Links => m = n
      BY <2>1
    <3>2. task' # "off" => \A n \in DOMAIN queue' : queue'[n] \notin Links
      BY <2>1, <2>3 DEF OneReconnect
    <3>3. call'[Subscribe] # "none" => task' = "subscribing"
      BY <2>3 DEF OneReconnect
    <3> QED
      BY <3>1, <3>2, <3>3
  <2> QED
    BY <2>2, <2>4, <2>6, <2>7 DEF OneReconnect
<1>3. CASE Adopt
  <2>1. Tailed
    BY <1>1, <1>3 DEF Adopt
  <2>2. daemonLost' \in BOOLEAN /\ reconnecting' \in BOOLEAN /\ ~reconnecting'
    BY <1>3, Zenon DEF Adopt
  <2>3. /\ UNCHANGED <<wires, call, on, fresh, task, deaths>>
        /\ rpc' = Head(queue) /\ queue[1] \in Links
    BY <1>3, <2>1 DEF Adopt
  <2>4. TypeOK'
    BY <2>1, <2>2, <2>3
  <2>5. task = "off" /\ \A n \in DOMAIN queue' : queue'[n] \notin Links
    BY <2>1, <2>3
  <2> QED
    BY <2>1, <2>2, <2>3, <2>4, <2>5 DEF OneReconnect
<1>4. ASSUME NEW k \in Links, Forward(k) PROVE LoopInv'
  <2>1. Lost \in {Lost} \union Links /\ queue \in Seq({Lost} \union Links) /\ Lost \notin Links
    BY MaxDeathsAssumption DEF Links, Lost
  <2>2. UNCHANGED reconnecting /\ UNCHANGED daemonLost
    BY <1>4 DEF Forward
  <2>3. /\ queue' \in Seq({Lost} \union Links)
        /\ DOMAIN queue' = DOMAIN queue \union {Len(queue) + 1}
        /\ queue'[Len(queue) + 1] = Lost
        /\ \A n \in DOMAIN queue : n # Len(queue) + 1 /\ queue'[n] = queue[n]
    BY <1>4, <2>1, AppendElements DEF Forward
  <2>4. /\ UNCHANGED <<link, drained, deaf, call, on, task, fresh, rpc, deaths>>
        /\ forwarder' \in [Links -> {"none", "on", "done"}]
    BY <1>4 DEF Forward
  <2>5. TypeOK'
    BY <2>2, <2>3, <2>4
  <2>6. OneReconnect' /\ OneBearer'
    BY <2>1, <2>2, <2>3, <2>4 DEF OneReconnect
  <2> QED
    BY <2>5, <2>6
<1> QED
  BY <1>2, <1>3, <1>4

LEMMA NextLoopInv == LoopInv /\ [Next]_vars => LoopInv'
<1> SUFFICES ASSUME LoopInv, [Next]_vars PROVE LoopInv'
  OBVIOUS
<1>1. CASE Die \/ UNCHANGED vars
  <2>1. UNCHANGED reconnecting /\ UNCHANGED daemonLost
    BY <1>1 DEF Die, vars, app
  <2>2. UNCHANGED <<queue, task, call, on, rpc, fresh, drained, deaf, forwarder>>
    BY <1>1 DEF Die, vars, app, wires
  <2>3. link' \in [Links -> {"unused", "open", "closed"}] /\ deaths' \in 0..MaxDeaths
    BY <1>1, MaxDeathsAssumption DEF Die, vars, wires, LoopInv, TypeOK
  <2>4. TypeOK'
    BY <2>1, <2>2, <2>3 DEF LoopInv, TypeOK
  <2> QED
    BY <2>1, <2>2, <2>4 DEF LoopInv, OneReconnect, OneBearer
<1> QED
  BY <1>1, CallsLoopInv, TaskLoopInv, QueueLoopInv DEF Next

LEMMA LoopInvariance == Spec => []LoopInv
BY InitLoopInv, NextLoopInv, PTL DEF Spec

-----------------------------------------------------------------------------
\* Every variable keeps its type.
THEOREM TuiTypeCorrect == Spec => []TypeOK
<1>1. LoopInv => TypeOK
  BY DEF LoopInv
<1> QED
  BY <1>1, LoopInvariance, PTL

\* Never two reconnect loops, and never the flag without one (main.rs, run),
\* even if daemons go away during the reconnect.
THEOREM OneLoop == Spec => []OneReconnect
<1>1. LoopInv => OneReconnect
  BY DEF LoopInv
<1> QED
  BY <1>1, LoopInvariance, PTL

-----------------------------------------------------------------------------
(***************************************************************************)
(* The loss of a link, whenever daemons go away: there is one forwarder at *)
(* work, that of the link in use, or of the one about to be.               *)
(***************************************************************************)
\* Reader, forwarder and link end in that order, and have begun in the other.
EndsInOrder ==
  /\ drained \subseteq {k \in Links : link[k] = "closed"}
  /\ \A k \in Links : forwarder[k] = "done" => link[k] = "closed"
  /\ \A k \in Links : forwarder[k] # "none" => link[k] # "unused"
  /\ task \in {"subscribe", "subscribing", "attach", "announce"} => link[fresh] # "unused"
  /\ call[Subscribe] # "none" => on[Subscribe] = fresh

\* What is in use, or announced, has had a forwarder.
Forwarded ==
  /\ forwarder[rpc] # "none"
  /\ task = "announce" => forwarder[fresh] # "none"
  /\ \A n \in DOMAIN queue : queue[n] \in Links => forwarder[queue[n]] # "none"

OneForwarder ==
  \A k \in Links : forwarder[k] = "on" =>
    (task = "announce" /\ k = fresh) \/ InQueue(k) \/ (k = rpc /\ ~reconnecting)

\* A loss that will be acted upon is that of the link in use, and one behind a link in
\* the channel is the loss of that link.
LossesAreTrue ==
  /\ ~reconnecting /\ InQueue(Lost) => forwarder[rpc] = "done"
  /\ \A m, n \in DOMAIN queue :
       m < n /\ queue[m] \in Links /\ queue[n] = Lost => forwarder[queue[m]] = "done"
  /\ reconnecting => link[rpc] = "closed"

LossInv == EndsInOrder /\ Forwarded /\ OneForwarder /\ LossesAreTrue
LinkInv == LoopInv /\ LossInv

LEMMA InitLossInv == Init => LossInv
<1> SUFFICES ASSUME Init PROVE LossInv
  OBVIOUS
<1>1. 1 \in Links /\ DOMAIN queue = {} /\ ~reconnecting
  BY MaxDeathsAssumption DEF Init, Links
<1> QED
  BY <1>1, SubscribeAssumption
  DEF Init, LossInv, EndsInOrder, Forwarded, OneForwarder, LossesAreTrue, InQueue

\* Neither calls nor readers touch a link or a forwarder.
LEMMA CallsLossInv ==
  ASSUME LinkInv,
         \/ \E c \in Calls : AppCall(c) \/ Send(c) \/ Reply(c)
         \/ \E k \in Links : Drain(k)
  PROVE  LossInv'
<1> USE SubscribeAssumption DEF LinkInv, LossInv
<1>1. /\ UNCHANGED <<queue, rpc, fresh, link, forwarder>>
      /\ \/ drained' = drained
         \/ \E k \in Links : link[k] = "closed" /\ drained' = drained \union {k}
  BY DEF AppCall, Send, Reply, Drain, wires, app
<1>2. UNCHANGED reconnecting
  BY DEF AppCall, Send, Reply, Drain, app
<1> DEFINE Moves ==
      /\ call'[Subscribe] # "none" => call[Subscribe] # "none" /\ on'[Subscribe] = on[Subscribe]
      /\ \/ task' = task
         \/ task = "subscribing" /\ task' \in {"sleep", "attach"}
<1>3. Moves
  <2> USE DEF LoopInv, TypeOK, OneBearer
  <2>1. ASSUME NEW c \in Calls, AppCall(c) PROVE Moves
    BY <2>1 DEF AppCall, Insert
  <2>2. ASSUME NEW c \in Calls, Send(c) PROVE Moves
    BY <2>2 DEF Send, End
  <2>3. ASSUME NEW c \in Calls, Reply(c) PROVE Moves
    BY <2>3 DEF Reply, End
  <2>4. ASSUME NEW k \in Links, Drain(k) PROVE Moves
    BY <2>4 DEF Drain, End, Pending
  <2> QED
    BY <2>1, <2>2, <2>3, <2>4
<1> HIDE DEF Moves
<1>4. EndsInOrder'
  BY <1>1, <1>3 DEF EndsInOrder, Moves
<1>5. Forwarded' /\ OneForwarder'
  BY <1>1, <1>2, <1>3 DEF Forwarded, OneForwarder, InQueue, Moves
<1>6. LossesAreTrue'
  BY <1>1, <1>2 DEF LossesAreTrue, InQueue
<1> QED
  BY <1>4, <1>5, <1>6

\* The task opens a link that nobody has used, and announces what it has attached.
LEMMA TaskLossInv ==
  ASSUME LinkInv, Dial \/ Task
  PROVE  LossInv'
<1> USE DEF LinkInv, LoopInv, TypeOK, LossInv, TaskGoes, wires
<1>1. UNCHANGED <<drained, rpc>> /\ task # "off" /\ \A n \in DOMAIN queue : queue[n] \notin Links
  BY DEF Dial, Task, DialFails, CallSubscribe, Wake, Attach, Announce, app, OneBearer
<1>2. reconnecting /\ UNCHANGED reconnecting
  BY <1>1 DEF Dial, Task, DialFails, CallSubscribe, Wake, Attach, Announce, app, OneReconnect
<1>3. CASE Announce
  <2>1. fresh \in {Lost} \union Links /\ queue \in Seq({Lost} \union Links) /\ Lost \notin Links
    BY MaxDeathsAssumption DEF Links, Lost
  <2>2. /\ DOMAIN queue' = DOMAIN queue \union {Len(queue) + 1}
        /\ queue'[Len(queue) + 1] = fresh
        /\ \A n \in DOMAIN queue : n < Len(queue) + 1 /\ queue'[n] = queue[n]
    <3>1. \A n \in DOMAIN queue : n < Len(queue) + 1
      BY <2>1
    <3> QED
      BY <1>3, <2>1, <3>1, AppendElements DEF Announce
  <2>3. UNCHANGED <<link, forwarder, fresh, call, on>> /\ task = "announce" /\ task' = "off"
    BY <1>3 DEF Announce
  <2>4. EndsInOrder' /\ Forwarded'
    BY <1>1, <2>2, <2>3 DEF EndsInOrder, Forwarded
  <2>5. OneForwarder'
    <3>1. \A k \in Links : forwarder[k] = "on" => k = fresh
      BY <1>1, <1>2 DEF OneForwarder, InQueue
    <3>2. InQueue(fresh)'
      BY <2>2, <2>3 DEF InQueue
    <3> QED
      BY <2>3, <3>1, <3>2 DEF OneForwarder, InQueue
  <2>6. LossesAreTrue'
    <3> SUFFICES ASSUME NEW m \in DOMAIN queue', NEW n \in DOMAIN queue', m < n,
                        queue'[m] \in Links, queue'[n] = Lost
                 PROVE  FALSE
      BY <1>1, <1>2, <2>3 DEF LossesAreTrue
    <3>1. m = Len(queue) + 1
      BY <1>1, <2>2
    <3>2. n \in DOMAIN queue /\ n < Len(queue) + 1
      BY <2>1, <2>2
    <3> QED
      BY <2>1, <3>1, <3>2
  <2> QED
    BY <2>4, <2>5, <2>6
<1>4. CASE Dial
  <2>1. PICK k \in Links : link[k] = "unused" /\ link' = [link EXCEPT ![k] = "open"] /\ fresh' = k
    BY <1>4 DEF Dial
  <2>2. task = "dial" /\ task' = "subscribe" /\ UNCHANGED <<forwarder, call, on, queue>>
    BY <1>4 DEF Dial
  <2>3. forwarder[k] = "none" /\ k # rpc /\ call[Subscribe] = "none"
    BY <2>1, <2>2, SubscribeAssumption DEF EndsInOrder, Forwarded, OneBearer
  <2>4. EndsInOrder' /\ Forwarded'
    BY <1>1, <2>1, <2>2, <2>3 DEF EndsInOrder, Forwarded
  <2>5. OneForwarder'
    BY <1>1, <1>2, <2>2 DEF OneForwarder, InQueue
  <2>6. LossesAreTrue'
    BY <1>1, <1>2, <2>1, <2>2, <2>3 DEF LossesAreTrue, InQueue
  <2> QED
    BY <2>4, <2>5, <2>6
<1>5. CASE Attach
  <2>1. /\ task = "attach" /\ task' = "announce" /\ UNCHANGED <<link, call, on, fresh, queue>>
        /\ forwarder' = [forwarder EXCEPT ![fresh] = "on"]
    BY <1>5 DEF Attach
  <2>2. EndsInOrder' /\ Forwarded'
    BY <1>1, <2>1 DEF EndsInOrder, Forwarded
  <2>3. OneForwarder'
    BY <1>1, <1>2, <2>1 DEF OneForwarder, InQueue
  <2>4. LossesAreTrue'
    BY <1>1, <1>2, <2>1 DEF LossesAreTrue, InQueue
  <2> QED
    BY <2>2, <2>3, <2>4
<1>6. CASE DialFails \/ CallSubscribe \/ Wake
  <2>1. /\ UNCHANGED <<link, forwarder, fresh, queue>> /\ task # "announce" /\ task' # "announce"
        /\ task' \in {"subscribe", "subscribing", "attach", "announce"} => task = "subscribe"
        /\ call'[Subscribe] # "none" => call[Subscribe] # "none" \/ on'[Subscribe] = fresh
        /\ call[Subscribe] # "none" => on'[Subscribe] = on[Subscribe]
    BY <1>6, SubscribeAssumption DEF DialFails, CallSubscribe, Wake, Insert
  <2>2. EndsInOrder' /\ Forwarded'
    BY <1>1, <2>1 DEF EndsInOrder, Forwarded
  <2>3. OneForwarder' /\ LossesAreTrue'
    BY <1>1, <1>2, <2>1 DEF OneForwarder, LossesAreTrue, InQueue
  <2> QED
    BY <2>2, <2>3
<1> QED
  BY <1>3, <1>4, <1>5, <1>6 DEF Task

\* The main loop hears one message after the other, and only a forwarder whose reader has
\* ended stops, and it says so.
LEMMA QueueLossInv ==
  ASSUME LinkInv, HearLoss \/ Adopt \/ \E k \in Links : Forward(k)
  PROVE  LossInv'
<1> USE DEF LinkInv, LoopInv, LossInv, wires, app
<1>1. /\ queue \in Seq({Lost} \union Links) /\ Lost \notin Links /\ rpc \in Links
      /\ forwarder \in [Links -> {"none", "on", "done"}]
  BY MaxDeathsAssumption DEF TypeOK, Links, Lost
<1> DEFINE Tailed ==
      /\ 1 \in DOMAIN queue /\ Head(queue) = queue[1]
      /\ \A n \in DOMAIN queue' :
           n + 1 \in DOMAIN queue /\ n + 1 # 1 /\ 1 < n + 1 /\ queue'[n] = queue[n + 1]
      /\ \A n \in DOMAIN queue :
           n # 1 => \E k \in DOMAIN queue' : n = k + 1 /\ queue'[k] = queue[n]
      /\ \A m, n \in DOMAIN queue' : m < n => m + 1 < n + 1
<1>2. ASSUME queue # <<>>, queue' = Tail(queue) PROVE Tailed
  <2>1. Tail(queue) \in Seq({Lost} \union Links)
    BY <1>1, <1>2, TailElements
  <2>2. DOMAIN queue' \subseteq Nat \ {0}
    BY <1>2, <2>1
  <2>3. \A n \in DOMAIN queue' : 1 < n + 1
    BY <2>2
  <2>4. \A m, n \in DOMAIN queue' : m < n => m + 1 < n + 1
    BY <2>2
  <2> QED
    BY <1>1, <1>2, <2>3, <2>4, TailElements
<1>3. CASE HearLoss
  <2>1. Tailed
    BY <1>2, <1>3 DEF HearLoss
  <2>2. /\ UNCHANGED <<link, drained, forwarder, fresh, rpc, call, on>>
        /\ task' = IF reconnecting THEN task ELSE "dial"
        /\ queue[1] = Lost
    BY <1>3, <2>1 DEF HearLoss
  <2>3. reconnecting' /\ (~reconnecting => forwarder[rpc] = "done" /\ task = "off")
    BY <1>3, <2>1, <2>2 DEF HearLoss, LossesAreTrue, InQueue, OneReconnect
  <2>4. EndsInOrder' /\ Forwarded'
    BY <2>1, <2>2, <2>3 DEF EndsInOrder, Forwarded
  <2>5. \A k \in Links : InQueue(k) => InQueue(k)'
    BY <1>1, <2>1, <2>2 DEF InQueue
  <2>6. OneForwarder'
    BY <2>2, <2>3, <2>5 DEF OneForwarder
  <2>7. LossesAreTrue'
    <3>1. link[rpc] = "closed"
      BY <1>1, <2>3 DEF LossesAreTrue, EndsInOrder
    <3>2. \A m, n \in DOMAIN queue' :
            m < n /\ queue'[m] \in Links /\ queue'[n] = Lost => forwarder[queue'[m]] = "done"
      BY <2>1 DEF LossesAreTrue
    <3> QED
      BY <2>2, <2>3, <3>1, <3>2 DEF LossesAreTrue
  <2> HIDE DEF Tailed
  <2> QED
    BY <2>4, <2>6, <2>7
<1>4. CASE Adopt
  <2>1. Tailed
    BY <1>2, <1>4 DEF Adopt
  <2>2. /\ UNCHANGED <<link, drained, forwarder, fresh, task, call, on>>
        /\ rpc' = queue[1] /\ queue[1] \in Links
    BY <1>4, <2>1 DEF Adopt
  <2>3. /\ ~reconnecting'
        /\ reconnecting /\ task = "off"
        /\ \A n \in DOMAIN queue : queue[n] \in Links => n = 1
    BY <1>4, <2>1, <2>2 DEF Adopt, OneReconnect, OneBearer
  <2>4. EndsInOrder' /\ Forwarded'
    BY <2>1, <2>2, <2>3 DEF EndsInOrder, Forwarded
  <2>5. OneForwarder'
    <3>1. \A k \in Links : forwarder[k] = "on" => k = queue[1]
      BY <2>2, <2>3 DEF OneForwarder, InQueue
    <3> QED
      BY <2>2, <2>3, <3>1 DEF OneForwarder
  <2>6. LossesAreTrue'
    <3>1. InQueue(Lost)' => forwarder[queue[1]] = "done"
      <4> SUFFICES ASSUME NEW n \in DOMAIN queue', queue'[n] = Lost'
                   PROVE  forwarder[queue[1]] = "done"
        BY DEF InQueue
      <4>1. n + 1 \in DOMAIN queue /\ 1 < n + 1 /\ queue[n + 1] = Lost
        BY <2>1 DEF Lost
      <4> QED
        BY <2>1, <2>2, <4>1 DEF LossesAreTrue
    <3>2. \A n \in DOMAIN queue' : queue'[n] \notin Links
      BY <2>1, <2>3
    <3> QED
      BY <2>2, <2>3, <3>1, <3>2 DEF LossesAreTrue
  <2> HIDE DEF Tailed
  <2> QED
    BY <2>4, <2>5, <2>6
<1>5. ASSUME NEW k \in Links, Forward(k) PROVE LossInv'
  <2>1. /\ DOMAIN queue' = DOMAIN queue \union {Len(queue) + 1}
        /\ queue'[Len(queue) + 1] = Lost
        /\ \A n \in DOMAIN queue : n # Len(queue) + 1 /\ queue'[n] = queue[n]
    BY <1>1, <1>5, AppendElements DEF Forward
  <2>2. /\ UNCHANGED <<link, drained, task, fresh, rpc, call, on>>
        /\ link[k] = "closed" /\ forwarder[k] = "on"
        /\ forwarder' = [forwarder EXCEPT ![k] = "done"]
    BY <1>5 DEF Forward, EndsInOrder
  <2>3. UNCHANGED reconnecting
    BY <1>5 DEF Forward
  <2>4. \A l \in Links : InQueue(l)' <=> InQueue(l)
    BY <1>1, <2>1 DEF InQueue
  <2>5. EndsInOrder'
    BY <1>1, <2>2 DEF EndsInOrder
  <2>6. Forwarded'
    BY <1>1, <2>1, <2>2 DEF Forwarded, TypeOK
  <2>7. OneForwarder'
    BY <1>1, <2>2, <2>3, <2>4 DEF OneForwarder
  <2>8. LossesAreTrue'
    <3>1. ~reconnecting => k = rpc
      BY <2>2 DEF OneForwarder, OneReconnect, InQueue
    <3>2. \A m \in DOMAIN queue : queue[m] \in Links => k = queue[m]
      BY <2>2 DEF OneForwarder, OneReconnect, OneBearer, InQueue
    <3>3. \A m, n \in DOMAIN queue' :
            m < n /\ queue'[m] \in Links /\ queue'[n] = Lost => forwarder'[queue'[m]] = "done"
      BY <1>1, <2>1, <2>2, <3>2
    <3> QED
      BY <1>1, <2>2, <2>3, <3>1, <3>3 DEF LossesAreTrue
  <2> QED
    BY <2>5, <2>6, <2>7, <2>8
<1> QED
  BY <1>3, <1>4, <1>5

\* A daemon that goes away closes links, and nobody has heard of it yet.
LEMMA DieLossInv ==
  ASSUME LinkInv, Die
  PROVE  LossInv'
<1>1. /\ UNCHANGED <<drained, forwarder, task, fresh, queue, rpc, call, on>>
      /\ \A k \in Links : link'[k] = IF link[k] = "open" THEN "closed" ELSE link[k]
      /\ rpc \in Links /\ fresh \in Links
  BY DEF Die, app, LinkInv, LoopInv, TypeOK
<1>2. UNCHANGED reconnecting
  BY DEF Die, app
<1>3. EndsInOrder' /\ Forwarded'
  BY <1>1 DEF LinkInv, LossInv, EndsInOrder, Forwarded
<1>4. OneForwarder' /\ LossesAreTrue'
  BY <1>1, <1>2 DEF LinkInv, LossInv, OneForwarder, LossesAreTrue, InQueue
<1> QED
  BY <1>3, <1>4 DEF LossInv

LEMMA NextLinkInv == LinkInv /\ [Next]_vars => LinkInv'
<1> SUFFICES ASSUME LinkInv, [Next]_vars PROVE LossInv'
  BY NextLoopInv DEF LinkInv
<1>1. CASE UNCHANGED vars
  <2>1. UNCHANGED <<queue, rpc, fresh, link, forwarder, drained, task, call, on>> /\ UNCHANGED reconnecting
    BY <1>1 DEF vars, app, wires
  <2> QED
    BY <2>1 DEF LinkInv, LossInv, EndsInOrder, Forwarded, OneForwarder, LossesAreTrue, InQueue
<1> QED
  BY <1>1, CallsLossInv, TaskLossInv, QueueLossInv, DieLossInv DEF Next

LEMMA LinkInvariance == Spec => []LinkInv
<1>1. Init => LinkInv
  BY InitLoopInv, InitLossInv DEF LinkInv
<1> QED
  BY <1>1, NextLinkInv, PTL DEF Spec

\* Whenever daemons go away, the end of a link is forgotten in one way only: gmtui adopts
\* the link when its forwarder has already told (adopt_rpc).  No loss of a link in use, and
\* none that comes after the link was announced, is.
THEOREM LossIsHeard == Spec => OnlyLateAdoptionForgets
<1>1. LinkInv /\ [Next]_vars =>
        [LossIsNoticed /\ ~LossIsNoticed' => Adopt /\ forwarder[Head(queue)] = "done"]_vars
  <2> SUFFICES ASSUME LinkInv, Next, LossIsNoticed,
                      ~daemonLost', link'[rpc'] = "closed", forwarder'[rpc'] # "on", ~InQueue(Lost)'
               PROVE  Adopt /\ forwarder[Head(queue)] = "done"
    BY DEF LossIsNoticed, InQueue
  <2> USE DEF LinkInv, LoopInv, TypeOK, LossInv, wires, app
  <2>1. queue \in Seq({Lost} \union Links) /\ Lost \in {Lost} \union Links
    OBVIOUS
  <2>2. forwarder[rpc] # "on" /\ link[rpc] = "open" => FALSE
    BY DEF EndsInOrder, Forwarded
  <2>3. ASSUME UNCHANGED <<queue, rpc, forwarder>>, UNCHANGED daemonLost,
               link'[rpc] = link[rpc] \/ link[rpc] # "closed"
        PROVE  FALSE
    <3>1. link[rpc] = "closed"
      BY <2>2, <2>3 DEF EndsInOrder, Forwarded
    <3> QED
      BY <2>3, <3>1 DEF LossIsNoticed, InQueue
  <2>4. CASE \/ \E c \in Calls : AppCall(c) \/ Send(c) \/ Reply(c)
             \/ \E k \in Links : Drain(k)
             \/ DialFails \/ CallSubscribe \/ Wake
    <3>1. UNCHANGED <<queue, rpc, forwarder, link>> /\ UNCHANGED daemonLost
      BY <2>4 DEF AppCall, Send, Reply, Drain, DialFails, CallSubscribe, Wake, TaskGoes
    <3> QED
      BY <2>3, <3>1
  <2>5. CASE Dial
    <3>1. UNCHANGED <<queue, rpc, forwarder>> /\ UNCHANGED daemonLost
          /\ (link'[rpc] = link[rpc] \/ link[rpc] = "unused")
      BY <2>5 DEF Dial, TaskGoes
    <3> QED
      BY <2>3, <3>1
  <2>6. CASE Die
    <3>1. UNCHANGED <<queue, rpc, forwarder>> /\ UNCHANGED daemonLost
          /\ (link'[rpc] = link[rpc] \/ link[rpc] = "open")
      BY <2>6 DEF Die
    <3> QED
      BY <2>3, <3>1
  <2>7. CASE Attach
    <3>1. /\ UNCHANGED <<queue, rpc, link>> /\ UNCHANGED daemonLost
          /\ forwarder' = [forwarder EXCEPT ![fresh] = "on"]
      BY <2>7 DEF Attach, TaskGoes
    <3>2. rpc # fresh /\ forwarder[rpc] # "on"
      BY <3>1
    <3> QED
      BY <3>1, <3>2 DEF LossIsNoticed, InQueue
  <2>8. CASE Announce
    <3>1. /\ UNCHANGED <<rpc, forwarder, link>> /\ UNCHANGED daemonLost
          /\ queue' = Append(queue, fresh)
      BY <2>8 DEF Announce, TaskGoes
    <3>2. InQueue(Lost) => InQueue(Lost)'
      BY <2>1, <3>1, AppendElements DEF InQueue, Lost
    <3> QED
      BY <3>1, <3>2 DEF LossIsNoticed, InQueue
  <2>9. ASSUME NEW k \in Links, Forward(k) PROVE FALSE
    <3>1. queue' = Append(queue, Lost)
      BY <2>9 DEF Forward
    <3> QED
      BY <2>1, <3>1, AppendElements DEF InQueue, Lost
  <2>10. CASE HearLoss
    BY <2>10, Zenon DEF HearLoss
  <2>11. CASE Adopt
    <3>1. /\ rpc' = Head(queue) /\ rpc' \in Links /\ UNCHANGED <<forwarder, link>>
          /\ 1 \in DOMAIN queue /\ Head(queue) = queue[1]
      BY <2>1, <2>11, TailElements DEF Adopt
    <3>2. forwarder[Head(queue)] # "none"
      BY <3>1 DEF Forwarded
    <3> QED
      BY <2>11, <3>1, <3>2
  <2> QED
    BY <2>4, <2>5, <2>6, <2>7, <2>8, <2>9, <2>10, <2>11 DEF Next, Task
<1> QED
  BY <1>1, LinkInvariance, PTL DEF Spec, OnlyLateAdoptionForgets

-----------------------------------------------------------------------------
(***************************************************************************)
(* The approvals gmtui shows (TuiApprovals)                                *)
(***************************************************************************)

\* Every step of the composition is a step of the link, or leaves it alone.
LEMMA ListsNextIsNext == [ListsNext]_allVars => [Next]_vars
<1> SUFFICES ASSUME [ListsNext]_allVars PROVE Next \/ UNCHANGED vars
  OBVIOUS
<1>1. ASSUME NEW a \in Ids, Create(a) \/ Resolve(a) PROVE UNCHANGED vars
  BY <1>1 DEF Create, Resolve
<1>2. ASSUME NEW e \in Events, Broadcast(e) \/ BroadcastFails(e) PROVE UNCHANGED vars
  BY <1>2 DEF Broadcast, BroadcastFails
<1>3. ASSUME NEW k \in Links, Serve(k) \/ ServeFails(k) \/ FetchFails(k) \/ Hear(k)
      PROVE  UNCHANGED vars
  BY <1>3 DEF Serve, ServeFails, FetchFails, Hear
<1>4. ASSUME NEW r \in answers, Apply(r) PROVE UNCHANGED vars
  BY <1>4 DEF Apply
<1>5. CASE Mark \/ FetchKey \/ Poll \/ UNCHANGED allVars
  BY <1>5 DEF Mark, FetchKey, Poll, allVars
<1>6. CASE \/ \E c \in Calls : ReplyTo(c)
           \/ \E k \in Links : ForwardEnd(k)
           \/ AdoptAndFetch \/ DieSilently \/ LinkStep
  BY <1>6 DEF ReplyTo, ForwardEnd, AdoptAndFetch, DieSilently, LinkStep, Next
<1> QED
  BY <1>1, <1>2, <1>3, <1>4, <1>5, <1>6 DEF ListsNext

\* TuiApprovals implements TuiLink: what holds of the link alone holds of it under
\* the lists.
THEOREM ListsAreOnALink == ListsSpec => Spec
<1>1. ListsInit => Init
  BY DEF ListsInit
<1> QED
  BY <1>1, ListsNextIsNext, PTL DEF ListsSpec, Spec

\* Never two reconnect loops under the lists, either.
THEOREM OneLoopUnderLists == ListsSpec => []OneReconnect
BY ListsAreOnALink, OneLoop, PTL

\* ListsTypeOK without the link's part.
ListsTyped ==
  /\ row \in [Ids -> {"none", "queued", "direct", "resolved"}]
  /\ owed \subseteq Events /\ subscribed \subseteq Links
  /\ pushed \in [Links -> Seq(Events)]
  /\ asked \subseteq Links
  /\ answers \subseteq Answers
  /\ list \subseteq Ids /\ count \in Nat /\ keys \in 0..MaxKeys
  /\ late \subseteq Ids /\ unsure \subseteq Ids

\* A list that is passed keeps its link and its rows.
LEMMA AnswerPassed ==
  ASSUME NEW r \in Answers, NEW U \in SUBSET Ids
  PROVE  LET s == [r EXCEPT !.passed = U]
         IN  s \in Answers /\ s.on = r.on /\ s.rows = r.rows /\ s.passed = U
BY DEF Answers

LEMMA PassingAnswers ==
  ASSUME answers \subseteq Answers, NEW a \in Ids
  PROVE  /\ Passing(a) \subseteq Answers
         /\ \A s \in Passing(a) : \E r \in answers :
              s.on = r.on /\ s.rows = r.rows /\ s.passed = r.passed \union {a}
         /\ \A r \in answers : \E s \in Passing(a) : s.on = r.on
<1>1. ASSUME NEW r \in answers
      PROVE  LET s == [r EXCEPT !.passed = @ \union {a}]
             IN  s \in Answers /\ s.on = r.on /\ s.rows = r.rows /\ s.passed = r.passed \union {a}
  <2>1. r \in Answers /\ r.passed \union {a} \in SUBSET Ids
    BY DEF Answers
  <2> QED
    BY <2>1, AnswerPassed
<1> QED
  BY <1>1 DEF Passing

LEMMA OvertakenAnswers ==
  ASSUME answers \subseteq Answers
  PROVE  /\ Overtaken(answers) \subseteq Answers
         /\ \A s \in Overtaken(answers) : \E r \in answers :
              s.on = r.on /\ s.rows = r.rows /\ s.passed = Ids
<1>1. ASSUME NEW r \in answers
      PROVE  LET s == [r EXCEPT !.passed = Ids]
             IN  s \in Answers /\ s.on = r.on /\ s.rows = r.rows /\ s.passed = Ids
  BY AnswerPassed
<1> QED
  BY <1>1 DEF Overtaken

LEMMA InitListsTyped == ListsInit => ListsTyped
<1> SUFFICES ASSUME ListsInit PROVE ListsTyped
  OBVIOUS
<1>1. 1 \in Links
  BY MaxDeathsAssumption DEF Links
<1> QED
  BY <1>1, MaxKeysAssumption DEF ListsInit, ListsTyped

LEMMA NextListsTyped == LoopInv /\ ListsTyped /\ [ListsNext]_allVars => ListsTyped'
<1> SUFFICES ASSUME LoopInv, ListsTyped, [ListsNext]_allVars PROVE ListsTyped'
  OBVIOUS
<1> USE MaxKeysAssumption DEF ListsTyped, table, fetching, shown, history, lists
<1>0. Overtaken(answers) \subseteq Answers /\ \A a \in Ids : Passing(a) \subseteq Answers
  BY PassingAnswers, OvertakenAnswers
<1>1. ASSUME NEW a \in Ids, Create(a) \/ Resolve(a) PROVE ListsTyped'
  BY <1>1 DEF Create, Resolve, Waiting, Events
<1>2. ASSUME NEW e \in Events, Broadcast(e) PROVE ListsTyped'
  <2>1. pushed' \in [Links -> Seq(Events)]
    BY <1>2 DEF Broadcast
  <2> QED
    BY <1>2, <2>1 DEF Broadcast
<1>14. ASSUME NEW e \in Events, BroadcastFails(e) PROVE ListsTyped'
  <2>1. e[2] \in Ids
    BY DEF Events
  <2> QED
    BY <1>0, <1>14, <2>1 DEF BroadcastFails
<1>3. CASE Mark
  BY <1>3, SubscribeAssumption DEF Mark, LoopInv, TypeOK
<1>4. ASSUME NEW k \in Links, Serve(k) PROVE ListsTyped'
  <2>1. PICK rows \in SUBSET Waiting :
             answers' = Overtaken(answers)
                          \union {[on |-> k, rows |-> rows, passed |-> Waiting \ rows]}
    BY <1>4 DEF Serve
  <2>2. [on |-> k, rows |-> rows, passed |-> Waiting \ rows] \in Answers
    BY DEF Answers, Waiting
  <2>3. answers' \subseteq Answers
    BY <1>0, <2>1, <2>2
  <2> QED
    BY <1>4, <2>3 DEF Serve
<1>15. ASSUME NEW k \in Links, ServeFails(k) PROVE ListsTyped'
  BY <1>0, <1>15 DEF ServeFails
<1>5. ASSUME NEW k \in Links, FetchFails(k) PROVE ListsTyped'
  BY <1>5 DEF FetchFails
<1>6. ASSUME NEW r \in answers, Apply(r) PROVE ListsTyped'
  BY <1>6 DEF Apply, Answers
<1>7. ASSUME NEW k \in Links, Hear(k) PROVE ListsTyped'
  <2>1. pushed[k] \in Seq(Events) /\ pushed[k] # <<>>
    BY <1>7 DEF Hear
  <2>2. Head(pushed[k])[2] \in Ids /\ Tail(pushed[k]) \in Seq(Events)
    BY <2>1, TailElements DEF Events
  <2>3. list' \subseteq Ids /\ unsure' \subseteq Ids /\ count' = Cardinality(list')
    BY <1>7, <2>2 DEF Hear
  <2>5. answers' \subseteq Answers
    BY <1>0, <1>7, <2>2 DEF Hear
  <2>4. count' \in Nat
    BY <2>3, IdsAssumption, FS_Subset, FS_CardinalityType
  <2> QED
    BY <1>7, <2>2, <2>3, <2>4, <2>5 DEF Hear
<1>8. CASE FetchKey
  BY <1>8 DEF FetchKey, LoopInv, TypeOK
<1>9. CASE Poll
  <2>1. Cardinality(Waiting) \in Nat
    BY IdsAssumption, FS_Subset, FS_CardinalityType DEF Waiting
  <2> QED
    BY <1>9, <2>1 DEF Poll
<1>10. CASE UNCHANGED lists
  BY <1>10
<1>11. CASE AdoptAndFetch
  BY <1>11 DEF AdoptAndFetch, Adopt
<1>12. CASE DieSilently
  BY <1>12 DEF DieSilently
<1>13. CASE \/ \E c \in Calls : ReplyTo(c)
            \/ \E k \in Links : ForwardEnd(k)
            \/ LinkStep \/ UNCHANGED allVars
  BY <1>10, <1>13 DEF ReplyTo, ForwardEnd, LinkStep, allVars
<1> QED
  BY <1>1, <1>2, <1>3, <1>4, <1>5, <1>6, <1>7, <1>8, <1>9, <1>11, <1>12, <1>13, <1>14, <1>15
  DEF ListsNext

\* Every variable of the link and of the lists keeps its type.
THEOREM ListsTypeCorrect == ListsSpec => []ListsTypeOK
<1>1. LoopInv /\ ListsTyped => ListsTypeOK
  BY DEF LoopInv, ListsTyped, ListsTypeOK
<1> QED
  BY <1>1, InitListsTyped, NextListsTyped, ListsAreOnALink, LoopInvariance, PTL DEF ListsSpec

-----------------------------------------------------------------------------
(***************************************************************************)
(* The list is right.  A list, whether shown or on its way, says of every  *)
(* approval that nothing has overtaken what the table says, but for what   *)
(* the handlers have yet to announce and gmtui has yet to hear.            *)
(***************************************************************************)
Requested(a) == <<"requested", a>>
Resolved(a) == <<"resolved", a>>

Said(k, e) == \E n \in DOMAIN pushed[k] : pushed[k][n] = e

\* What was announced is true, a resolution is announced once, and but for what is late
\* it comes after the request, and comes.
NewsInv ==
  /\ \A a \in Ids : Requested(a) \in owed => row[a] \in {"queued", "resolved"}
  /\ \A a \in Ids : Resolved(a) \in owed => row[a] = "resolved"
  /\ \A a \in Ids, k \in Links : Said(k, Requested(a)) => row[a] \in {"queued", "resolved"}
  /\ \A a \in Ids, k \in Links : Said(k, Resolved(a)) => row[a] = "resolved" /\ Resolved(a) \notin owed
  /\ \A a \in Ids \ late, k \in Links : \A m, n \in DOMAIN pushed[k] :
       pushed[k][m] = Requested(a) /\ pushed[k][n] = Resolved(a) => m < n
  /\ \A a \in Ids \ late, k \in Links :
       link[k] = "open" /\ row[a] = "resolved" /\ Said(k, Requested(a)) =>
         Resolved(a) \in owed \/ Said(k, Resolved(a))

\* Only subscribers are told, and a link that is used is one.
SubscribedInv ==
  /\ \A k \in Links : DOMAIN pushed[k] # {} => k \in subscribed
  /\ \A k \in subscribed : link[k] # "unused"
  /\ link[rpc] = "open" => rpc \in subscribed
  /\ task \in {"attach", "announce"} => fresh \in subscribed
  /\ \A n \in DOMAIN queue : queue[n] \in Links => queue[n] \in subscribed

\* Lists come over the link in use, or have come over one that has ended.
FetchInv ==
  /\ \A k \in asked : k = rpc \/ link[k] = "closed"
  /\ \A r \in answers : r.on = rpc \/ link[r.on] = "closed"
  /\ \A a \in list : row[a] # "none"
  /\ \A r \in answers : \A a \in r.rows : row[a] # "none"

\* The rows S are right about everything but the approvals U.
Right(S, U) ==
  \A a \in Ids \ U :
    /\ row[a] = "queued" => Requested(a) \in owed \/ Said(rpc, Requested(a)) \/ a \in S
    /\ row[a] = "resolved" /\ a \in S => Resolved(a) \in owed \/ Said(rpc, Resolved(a))

ShownInv ==
  link[rpc] = "open" /\ rpc \notin asked =>
    /\ \A r \in answers : Right(r.rows, r.passed)
    /\ Right(list, unsure) \/ \E r \in answers : r.on = rpc

ListInv == ListsTyped /\ NewsInv /\ SubscribedInv /\ FetchInv /\ ShownInv

\* The two kinds of news, and those of two approvals, are different.
LEMMA NewsDiffer ==
  /\ \A a \in Ids : Requested(a)' = Requested(a) /\ Resolved(a)' = Resolved(a)
  /\ \A a, b \in Ids : Requested(a) # Resolved(b)
  /\ \A a, b \in Ids : a # b => Requested(a) # Requested(b) /\ Resolved(a) # Resolved(b)
BY DEF Requested, Resolved

LEMMA InitListInv == ListsInit => ListInv
<1> SUFFICES ASSUME ListsInit PROVE ListInv
  OBVIOUS
<1>1. ListsTyped
  BY InitListsTyped
<1>2. 1 \in Links /\ \A k \in Links : DOMAIN pushed[k] = {}
  BY MaxDeathsAssumption DEF ListsInit, Links
<1>3. DOMAIN queue = {} /\ task = "off"
  BY DEF ListsInit, Init
<1>4. SubscribedInv
  BY <1>2, <1>3 DEF ListsInit, Init, SubscribedInv
<1>5. NewsInv
  BY <1>2 DEF ListsInit, NewsInv, Said
<1> QED
  BY <1>1, <1>4, <1>5 DEF ListsInit, Init, ListInv, FetchInv, ShownInv

\* A handler's own steps.
LEMMA TableListInv ==
  ASSUME LinkInv, ListInv, ListsTyped', NEW a \in Ids, Create(a) \/ Resolve(a)
  PROVE  ListInv'
<1> USE DEF ListInv, ListsTyped
<1>1. /\ UNCHANGED <<link, rpc, forwarder, task, fresh, queue>>
      /\ UNCHANGED <<subscribed, pushed, asked, answers, list, late, unsure>>
  BY DEF Create, Resolve, vars, wires, app, fetching, shown, history
<1>2. (\A k \in Links : \A x : Said(k, x)' <=> Said(k, x)) /\ rpc \in Links
  BY <1>1 DEF Said, LinkInv, LoopInv, TypeOK
<1> DEFINE Inserted == row[a] = "none" /\ \/ row'[a] = "queued" /\ owed' = owed \union {Requested(a)}
                                          \/ row'[a] = "direct" /\ owed' = owed
           Updated == /\ row[a] \in {"queued", "direct"}
                      /\ row'[a] = "resolved" /\ owed' = owed \union {Resolved(a)}
<1>3. (Inserted \/ Updated) /\ \A b \in Ids : b # a => row'[b] = row[b]
  BY DEF Create, Resolve, Waiting, Requested, Resolved
<1> HIDE DEF Inserted, Updated
<1>4. SubscribedInv'
  BY <1>1 DEF SubscribedInv
<1>5. FetchInv'
  BY <1>1, <1>3 DEF FetchInv, Inserted, Updated, Answers
<1>6. \A b \in Ids \ late, k \in Links : \A m, n \in DOMAIN pushed'[k] :
        pushed'[k][m] = Requested(b) /\ pushed'[k][n] = Resolved(b) => m < n
  BY <1>1 DEF NewsInv
<1>7. ASSUME NEW S, NEW U, Right(S, U), \A b \in S : row[b] # "none"
      PROVE  \A b \in Ids \ U :
               /\ row'[b] = "queued" => Requested(b) \in owed' \/ Said(rpc, Requested(b))' \/ b \in S
               /\ row'[b] = "resolved" /\ b \in S => Resolved(b) \in owed' \/ Said(rpc, Resolved(b))'
  <2> SUFFICES ASSUME NEW b \in Ids \ U
               PROVE  /\ row'[b] = "queued" =>
                           Requested(b) \in owed' \/ Said(rpc, Requested(b))' \/ b \in S
                      /\ row'[b] = "resolved" /\ b \in S =>
                           Resolved(b) \in owed' \/ Said(rpc, Resolved(b))'
    OBVIOUS
  <2>1. /\ row[b] = "queued" => Requested(b) \in owed \/ Said(rpc, Requested(b)) \/ b \in S
        /\ row[b] = "resolved" /\ b \in S => Resolved(b) \in owed \/ Said(rpc, Resolved(b))
        /\ b \in S => row[b] # "none"
    BY <1>7 DEF Right
  <2>2. Said(rpc, Requested(b))' <=> Said(rpc, Requested(b))
    BY <1>1, <1>2, NewsDiffer
  <2>3. Said(rpc, Resolved(b))' <=> Said(rpc, Resolved(b))
    BY <1>1, <1>2, NewsDiffer
  <2>4. CASE Inserted
    BY <1>3, <2>1, <2>2, <2>3, <2>4 DEF Inserted
  <2>5. CASE Updated
    BY <1>3, <2>1, <2>2, <2>3, <2>5 DEF Updated
  <2> QED
    BY <1>3, <2>4, <2>5
<1>8. ShownInv'
  <2> SUFFICES ASSUME link[rpc] = "open", rpc \notin asked
               PROVE  /\ \A r \in answers : Right(r.rows, r.passed)'
                      /\ Right(list, unsure)' \/ \E r \in answers : r.on = rpc
    BY <1>1 DEF ShownInv
  <2>1. ASSUME NEW r \in answers PROVE Right(r.rows, r.passed)'
    <3>1. Right(r.rows, r.passed) /\ \A b \in r.rows : row[b] # "none"
      BY DEF ShownInv, FetchInv
    <3>2. \A b \in Ids \ r.passed :
            /\ row'[b] = "queued" => Requested(b) \in owed' \/ Said(rpc, Requested(b))' \/ b \in r.rows
            /\ row'[b] = "resolved" /\ b \in r.rows => Resolved(b) \in owed' \/ Said(rpc, Resolved(b))'
      BY <1>7, <3>1
    <3> QED
      BY <1>1, <3>2, NewsDiffer DEF Right
  <2>2. ASSUME Right(list, unsure) PROVE Right(list, unsure)'
    <3>1. \A b \in list : row[b] # "none"
      BY DEF FetchInv
    <3> QED
      BY <1>1, <1>7, <2>2, <3>1, NewsDiffer DEF Right
  <2> QED
    BY <2>1, <2>2 DEF ShownInv
<1>9. NewsInv'
  <2>1. CASE Inserted
    BY <1>1, <1>2, <1>3, <1>6, <2>1, NewsDiffer DEF Inserted, NewsInv
  <2>2. CASE Updated
    BY <1>1, <1>2, <1>3, <1>6, <2>2, NewsDiffer DEF Updated, NewsInv
  <2> QED
    BY <1>3, <2>1, <2>2
<1> QED
  BY <1>4, <1>5, <1>8, <1>9

\* A broadcast: what was owed is said to every subscriber that is connected.
LEMMA BroadcastListInv ==
  ASSUME LinkInv, ListInv, ListsTyped', NEW e \in Events, Broadcast(e)
  PROVE  ListInv'
<1> USE DEF ListInv, ListsTyped
<1>1. /\ UNCHANGED <<link, rpc, forwarder, task, fresh, queue>>
      /\ UNCHANGED <<row, subscribed, asked, answers, list, unsure>>
      /\ e \in owed /\ owed' = owed \ {e} /\ late \subseteq late' /\ rpc \in Links
  BY DEF Broadcast, vars, wires, app, fetching, shown, LinkInv, LoopInv, TypeOK
<1>2. ASSUME NEW k \in Links
      PROVE  \/ ~(link[k] = "open" /\ k \in subscribed) /\ pushed'[k] = pushed[k]
             \/ /\ link[k] = "open" /\ k \in subscribed
                /\ DOMAIN pushed'[k] = DOMAIN pushed[k] \union {Len(pushed[k]) + 1}
                /\ pushed'[k][Len(pushed[k]) + 1] = e
                /\ \A n \in DOMAIN pushed[k] : n < Len(pushed[k]) + 1 /\ pushed'[k][n] = pushed[k][n]
  <2>1. pushed[k] \in Seq(Events)
    OBVIOUS
  <2>2. \A n \in DOMAIN pushed[k] : n < Len(pushed[k]) + 1
    BY <2>1
  <2> QED
    BY <2>1, <2>2, AppendElements DEF Broadcast
<1>3. \A k \in Links : \A x : Said(k, x)' <=> Said(k, x) \/ (x = e /\ link[k] = "open" /\ k \in subscribed)
  BY <1>2 DEF Said
<1>4. \A k \in Links : DOMAIN pushed'[k] # {} => DOMAIN pushed[k] # {} \/ (link[k] = "open" /\ k \in subscribed)
  BY <1>2
<1>5. SubscribedInv'
  BY <1>1, <1>4 DEF SubscribedInv
<1>6. \A a \in Ids : e = Requested(a) /\ row[a] = "resolved" /\ a \notin late' => Resolved(a) \in owed
  BY DEF Broadcast, Requested, Resolved
<1>7. NewsInv'
  <2>1. \A a \in Ids, k \in Links : Said(k, Requested(a)) => k \in subscribed
    BY DEF Said, SubscribedInv
  <2>2. \A a \in Ids \ late', k \in Links : \A m, n \in DOMAIN pushed'[k] :
          pushed'[k][m] = Requested(a) /\ pushed'[k][n] = Resolved(a) => m < n
    <3> SUFFICES ASSUME NEW a \in Ids \ late', NEW k \in Links,
                        NEW m \in DOMAIN pushed'[k], NEW n \in DOMAIN pushed'[k],
                        pushed'[k][m] = Requested(a), pushed'[k][n] = Resolved(a)
                 PROVE  m < n
      OBVIOUS
    <3>1. CASE pushed'[k] = pushed[k]
      BY <1>1, <3>1 DEF NewsInv
    <3>2. CASE m \in DOMAIN pushed[k] /\ n \in DOMAIN pushed[k]
      <4>1. pushed[k][m] = Requested(a) /\ pushed[k][n] = Resolved(a) /\ a \in Ids \ late
        BY <1>1, <1>2, <3>2, NewsDiffer
      <4> QED
        BY <3>2, <4>1 DEF NewsInv
    <3>3. CASE m \in DOMAIN pushed[k] /\ n = Len(pushed[k]) + 1
      BY <1>2, <3>3
    <3>4. CASE m = Len(pushed[k]) + 1 /\ n \in DOMAIN pushed[k] /\ pushed'[k] # pushed[k]
      <4>1. e = Requested(a) /\ Said(k, Resolved(a))
        BY <1>2, <3>4 DEF Said
      <4> QED
        BY <1>6, <4>1 DEF NewsInv
    <3> QED
      BY <1>2, NewsDiffer, <3>1, <3>2, <3>3, <3>4
  <2>3. \A a \in Ids, k \in Links : Said(k, Resolved(a))' => row[a] = "resolved" /\ Resolved(a) \notin owed'
    BY <1>1, <1>3 DEF NewsInv
  <2>4. \A a \in Ids \ late', k \in Links :
          link[k] = "open" /\ row[a] = "resolved" /\ Said(k, Requested(a))' =>
            Resolved(a) \in owed' \/ Said(k, Resolved(a))'
    <3> SUFFICES ASSUME NEW a \in Ids \ late', NEW k \in Links,
                        link[k] = "open", row[a] = "resolved", Said(k, Requested(a))'
                 PROVE  Resolved(a) \in owed' \/ Said(k, Resolved(a))'
      OBVIOUS
    <3>1. k \in subscribed /\ (Resolved(a) \in owed \/ Said(k, Resolved(a)))
      BY <1>1, <1>3, <1>6, <2>1 DEF NewsInv
    <3> QED
      BY <1>1, <1>3, <3>1
  <2> QED
    BY <1>1, <1>3, <2>2, <2>3, <2>4, NewsDiffer DEF NewsInv
<1>8. FetchInv'
  BY <1>1 DEF FetchInv
<1>9. ASSUME link[rpc] = "open", NEW S, NEW U, Right(S, U)
      PROVE  \A a \in Ids \ U :
               /\ row'[a] = "queued" => Requested(a) \in owed' \/ Said(rpc, Requested(a))' \/ a \in S
               /\ row'[a] = "resolved" /\ a \in S => Resolved(a) \in owed' \/ Said(rpc, Resolved(a))'
  BY <1>1, <1>3, <1>9 DEF Right, SubscribedInv
<1>10. ShownInv'
  <2> SUFFICES ASSUME link[rpc] = "open", rpc \notin asked
               PROVE  /\ \A r \in answers : Right(r.rows, r.passed)'
                      /\ Right(list, unsure)' \/ \E r \in answers : r.on = rpc
    BY <1>1 DEF ShownInv
  <2>1. ASSUME NEW r \in answers PROVE Right(r.rows, r.passed)'
    <3>1. \A b \in Ids \ r.passed :
            /\ row'[b] = "queued" => Requested(b) \in owed' \/ Said(rpc, Requested(b))' \/ b \in r.rows
            /\ row'[b] = "resolved" /\ b \in r.rows => Resolved(b) \in owed' \/ Said(rpc, Resolved(b))'
      BY <1>9 DEF ShownInv
    <3> QED
      BY <1>1, <3>1, NewsDiffer DEF Right
  <2>2. ASSUME Right(list, unsure) PROVE Right(list, unsure)'
    <3>1. \A b \in Ids \ unsure :
            /\ row'[b] = "queued" => Requested(b) \in owed' \/ Said(rpc, Requested(b))' \/ b \in list
            /\ row'[b] = "resolved" /\ b \in list => Resolved(b) \in owed' \/ Said(rpc, Resolved(b))'
      BY <1>9, <2>2
    <3> QED
      BY <1>1, <3>1, NewsDiffer DEF Right
  <2> QED
    BY <2>1, <2>2 DEF ShownInv
<1> QED
  BY <1>5, <1>7, <1>8, <1>10

\* An announcement that is not made.
LEMMA SilentListInv ==
  ASSUME LinkInv, ListInv, ListsTyped', NEW e \in Events, BroadcastFails(e)
  PROVE  ListInv'
<1> USE DEF ListInv, ListsTyped
<1>1. /\ UNCHANGED <<link, rpc, forwarder, task, fresh, queue>>
      /\ UNCHANGED <<row, subscribed, pushed, asked, list>>
      /\ owed' = owed \ {e} /\ late \subseteq late' /\ rpc \in Links
      /\ \A a \in Ids : e = Resolved(a) => a \in late'
  BY DEF BroadcastFails, vars, wires, app, shown, LinkInv, LoopInv, TypeOK, Resolved
<1>2. \A k \in Links : \A x : Said(k, x)' <=> Said(k, x)
  BY <1>1 DEF Said
<1>3. PICK a \in Ids : /\ e \in {Requested(a), Resolved(a)} /\ answers' = Passing(a)
                       /\ unsure' = unsure \union {a}
  BY DEF BroadcastFails, Events, Requested, Resolved
<1>4. \A r \in answers' : \E s \in answers : r.on = s.on /\ r.rows = s.rows /\ r.passed = s.passed \union {a}
  BY <1>3, PassingAnswers
<1>5. (\E r \in answers : r.on = rpc) => \E r \in answers' : r.on = rpc
  <2> SUFFICES ASSUME NEW s \in answers, s.on = rpc
               PROVE  \E r \in answers' : r.on = rpc
    OBVIOUS
  <2>1. [s EXCEPT !.passed = @ \union {a}] \in answers'
    BY <1>3 DEF Passing
  <2>2. [s EXCEPT !.passed = @ \union {a}].on = rpc
    BY DEF Answers
  <2> QED
    BY <2>1, <2>2
<1>6. SubscribedInv'
  BY <1>1 DEF SubscribedInv
<1>7. FetchInv'
  BY <1>1, <1>4 DEF FetchInv
<1>8. NewsInv'
  <2>1. \A b \in Ids \ late', k \in Links : \A m, n \in DOMAIN pushed'[k] :
          pushed'[k][m] = Requested(b) /\ pushed'[k][n] = Resolved(b) => m < n
    BY <1>1 DEF NewsInv
  <2> QED
    BY <1>1, <1>2, <2>1, NewsDiffer DEF NewsInv
<1>9. ASSUME NEW S, NEW U, Right(S, U)
      PROVE  \A b \in Ids \ (U \union {a}) :
               /\ row'[b] = "queued" => Requested(b) \in owed' \/ Said(rpc, Requested(b))' \/ b \in S
               /\ row'[b] = "resolved" /\ b \in S => Resolved(b) \in owed' \/ Said(rpc, Resolved(b))'
  BY <1>1, <1>2, <1>3, <1>9, NewsDiffer DEF Right
<1>10. ShownInv'
  <2> SUFFICES ASSUME link[rpc] = "open", rpc \notin asked
               PROVE  /\ \A r \in answers' : Right(r.rows, r.passed)'
                      /\ Right(list, unsure)' \/ \E r \in answers' : r.on = rpc
    BY <1>1 DEF ShownInv
  <2>1. ASSUME NEW r \in answers' PROVE Right(r.rows, r.passed)'
    <3>1. PICK s \in answers : r.rows = s.rows /\ r.passed = s.passed \union {a}
      BY <1>4
    <3> QED
      BY <1>9, <3>1, NewsDiffer DEF Right, ShownInv
  <2>2. ASSUME Right(list, unsure) PROVE Right(list, unsure)'
    BY <1>1, <1>3, <1>9, <2>2, NewsDiffer DEF Right
  <2> QED
    BY <1>5, <2>1, <2>2 DEF ShownInv
<1> QED
  BY <1>6, <1>7, <1>8, <1>10

\* A fetch, whether it succeeds or fails.
LEMMA FetchListInv ==
  ASSUME LinkInv, ListInv, ListsTyped',
         \/ \E k \in Links : Serve(k) \/ ServeFails(k) \/ FetchFails(k)
         \/ \E r \in answers : Apply(r)
         \/ FetchKey \/ Poll \/ Mark
  PROVE  ListInv'
<1> USE DEF ListInv, ListsTyped
<1>1. /\ UNCHANGED <<link, rpc, forwarder, task, fresh, queue>>
      /\ UNCHANGED <<row, owed, pushed, late>>
  BY DEF Serve, ServeFails, FetchFails, Apply, FetchKey, Poll, Mark, vars, wires, app, table, history
<1>2. (\A k \in Links : \A x : Said(k, x)' <=> Said(k, x)) /\ rpc \in Links
  BY <1>1 DEF Said, LinkInv, LoopInv, TypeOK
<1>3. NewsInv'
  BY <1>1, <1>2 DEF NewsInv, Requested, Resolved
<1>4. SubscribedInv'
  <2>1. /\ subscribed \subseteq subscribed'
        /\ \A k \in subscribed' : k \in subscribed \/ link[k] = "open"
    BY DEF Serve, ServeFails, FetchFails, Apply, FetchKey, Poll, Mark
  <2> QED
    BY <1>1, <2>1 DEF SubscribedInv
<1>5. ASSUME NEW S, NEW U PROVE Right(S, U) <=> (Right(S, U))'
  BY <1>1, <1>2, NewsDiffer DEF Right
<1>6. \A S : \A U \in SUBSET Ids : U = Ids => (Right(S, U))'
  BY DEF Right
<1>7. ASSUME NEW k \in Links, Serve(k) PROVE FetchInv' /\ ShownInv'
  <2>1. k = rpc /\ link[rpc] = "open"
    BY <1>7 DEF Serve, FetchInv
  <2>2. PICK rows \in SUBSET Waiting :
             answers' = Overtaken(answers)
                          \union {[on |-> rpc, rows |-> rows, passed |-> Waiting \ rows]}
    BY <1>7, <2>1 DEF Serve
  <2>3. asked' = asked \ {rpc} /\ UNCHANGED list
    BY <1>7, <2>1 DEF Serve, shown
  <2>4. ASSUME NEW r \in answers'
        PROVE  \/ r.on = rpc /\ r.rows = rows /\ r.passed = Waiting \ rows
               \/ r.passed = Ids /\ \E s \in answers : r.on = s.on /\ r.rows = s.rows
    BY <2>2, OvertakenAnswers
  <2>5. FetchInv'
    BY <1>1, <2>3, <2>4 DEF FetchInv, Waiting
  <2>6. \A r \in answers' : (Right(r.rows, r.passed))'
    <3>1. (Right(rows, Waiting \ rows))'
      <4>1. Right(rows, Waiting \ rows)
        BY DEF Right, Waiting
      <4>2. \A b \in Ids \ (Waiting \ rows) : row[b] # "resolved" \/ b \notin rows
        BY DEF Waiting
      <4> QED
        BY <1>1, <1>2, <4>1, <4>2, NewsDiffer DEF Right, Waiting
    <3>2. ASSUME NEW r \in answers' PROVE (Right(r.rows, r.passed))'
      <4>1. CASE r.passed = Ids
        BY <4>1 DEF Right
      <4>2. CASE r.rows = rows /\ r.passed = Waiting \ rows
        BY <1>1, <3>1, <4>2 DEF Right, Waiting
      <4> QED
        BY <2>4, <4>1, <4>2
    <3> QED
      BY <3>2
  <2>7. \E r \in answers' : r.on = rpc
    <3>1. [on |-> rpc, rows |-> rows, passed |-> Waiting \ rows] \in answers'
      BY <2>2
    <3> QED
      BY <3>1
  <2> QED
    BY <1>1, <2>5, <2>6, <2>7 DEF ShownInv
<1>8. ASSUME NEW k \in Links, ServeFails(k) PROVE FetchInv' /\ ShownInv'
  <2>1. answers' = Overtaken(answers) /\ asked' \subseteq asked /\ UNCHANGED list /\ unsure' = Ids
    BY <1>8 DEF ServeFails, shown
  <2>2. ASSUME NEW r \in answers'
        PROVE  r.passed = Ids /\ \E s \in answers : r.on = s.on /\ r.rows = s.rows
    BY <2>1, OvertakenAnswers
  <2>3. FetchInv'
    <3>1. \A r \in answers' : (r.on = rpc \/ link[r.on] = "closed") /\ \A a \in r.rows : row[a] # "none"
      <4> SUFFICES ASSUME NEW r \in answers'
                   PROVE  (r.on = rpc \/ link[r.on] = "closed") /\ \A a \in r.rows : row[a] # "none"
        OBVIOUS
      <4>1. PICK s \in answers : r.on = s.on /\ r.rows = s.rows
        BY <2>2
      <4> QED
        BY <4>1 DEF FetchInv
    <3> QED
      BY <1>1, <2>1, <3>1 DEF FetchInv
  <2>4. (\A r \in answers' : (Right(r.rows, r.passed))') /\ Right(list, unsure)'
    BY <2>1, <2>2 DEF Right
  <2> QED
    BY <2>3, <2>4 DEF ShownInv
<1>9. ASSUME NEW k \in Links, FetchFails(k) PROVE FetchInv' /\ ShownInv'
  <2>1. /\ link[k] = "closed" /\ asked' = asked \ {k} /\ UNCHANGED <<list, unsure>>
        /\ answers' = {r \in answers : r.on # k}
    BY <1>9 DEF FetchFails, shown, history
  <2>2. FetchInv'
    BY <1>1, <2>1 DEF FetchInv
  <2>3. ShownInv'
    <3> SUFFICES ASSUME link[rpc] = "open", rpc \notin asked'
                 PROVE  /\ \A r \in answers' : (Right(r.rows, r.passed))'
                        /\ Right(list, unsure)' \/ \E r \in answers' : r.on = rpc
      BY <1>1 DEF ShownInv
    <3>1. rpc \notin asked /\ k # rpc
      BY <2>1
    <3>2. \A r \in answers' : Right(r.rows, r.passed) /\ r \in answers
      BY <2>1, <3>1 DEF ShownInv
    <3>3. Right(list, unsure) => Right(list, unsure)'
      BY <1>1, <1>2, <2>1, NewsDiffer DEF Right
    <3>4. \A r \in answers' : (Right(r.rows, r.passed))'
      BY <1>1, <1>2, <3>2, NewsDiffer DEF Right
    <3>5. Right(list, unsure) \/ \E r \in answers' : r.on = rpc
      BY <2>1, <3>1 DEF ShownInv
    <3> QED
      BY <3>3, <3>4, <3>5
  <2> QED
    BY <2>2, <2>3
<1>10. ASSUME NEW r \in answers, Apply(r) PROVE FetchInv' /\ ShownInv'
  <2>1. answers' = answers \ {r} /\ list' = r.rows /\ unsure' = r.passed /\ UNCHANGED asked
    BY <1>10 DEF Apply
  <2>2. FetchInv'
    BY <1>1, <2>1 DEF FetchInv
  <2>3. ASSUME link[rpc] = "open", rpc \notin asked
        PROVE  (\A s \in answers' : (Right(s.rows, s.passed))') /\ Right(list, unsure)'
    <3>1. \A s \in answers : Right(s.rows, s.passed)
      BY <2>3 DEF ShownInv
    <3>2. \A s \in answers : (Right(s.rows, s.passed))'
      BY <1>1, <1>2, <3>1, NewsDiffer DEF Right
    <3> QED
      BY <2>1, <3>1, <1>1, <1>2, <3>2, NewsDiffer DEF Right
  <2> QED
    BY <1>1, <2>1, <2>2, <2>3 DEF ShownInv
<1>11. ASSUME FetchKey PROVE FetchInv' /\ ShownInv'
  <2>1. asked' = asked \union {rpc} /\ UNCHANGED <<answers, list>>
    BY <1>11 DEF FetchKey, shown
  <2>2. FetchInv'
    BY <1>1, <2>1 DEF FetchInv
  <2>3. ShownInv'
    BY <1>1, <2>1 DEF ShownInv
  <2> QED
    BY <2>2, <2>3
<1>12. ASSUME Poll \/ Mark PROVE FetchInv' /\ ShownInv'
  <2>1. UNCHANGED <<asked, answers, list, unsure>>
    BY <1>12 DEF Poll, Mark, fetching, shown, history
  <2>2. FetchInv'
    BY <1>1, <2>1 DEF FetchInv
  <2>3. ShownInv'
    BY <1>1, <1>2, <2>1, NewsDiffer DEF ShownInv, Right
  <2> QED
    BY <2>2, <2>3
<1> QED
  BY <1>3, <1>4, <1>7, <1>8, <1>9, <1>10, <1>11, <1>12

\* News is heard over the link in use while that is open.
LEMMA HearListInv ==
  ASSUME LinkInv, ListInv, ListsTyped', NEW k \in Links, Hear(k)
  PROVE  ListInv'
<1> USE DEF ListInv, ListsTyped
<1>1. /\ UNCHANGED <<link, rpc, forwarder, task, fresh, queue>>
      /\ UNCHANGED <<row, owed, subscribed, asked, late>>
      /\ forwarder[k] = "on" /\ pushed[k] # <<>>
      /\ \A l \in Links : pushed'[l] = IF l = k THEN Tail(pushed[k]) ELSE pushed[l]
  BY DEF Hear, vars, wires, app, table
<1>2. /\ 1 \in DOMAIN pushed[k] /\ Head(pushed[k]) = pushed[k][1]
      /\ \A n \in DOMAIN Tail(pushed[k]) :
           n + 1 \in DOMAIN pushed[k] /\ n + 1 # 1 /\ Tail(pushed[k])[n] = pushed[k][n + 1]
      /\ \A n \in DOMAIN pushed[k] :
           n # 1 => \E m \in DOMAIN Tail(pushed[k]) : n = m + 1 /\ Tail(pushed[k])[m] = pushed[k][n]
      /\ DOMAIN Tail(pushed[k]) \subseteq Nat /\ DOMAIN pushed[k] \subseteq Nat \ {0}
  <2>1. pushed[k] \in Seq(Events)
    OBVIOUS
  <2>2. DOMAIN Tail(pushed[k]) \subseteq Nat /\ DOMAIN pushed[k] \subseteq Nat \ {0}
    BY <1>1, <2>1, TailElements
  <2> QED
    BY <1>1, <2>1, <2>2, TailElements
<1> DEFINE e == pushed[k][1]
<1>3. /\ \A l \in Links : \A x : Said(l, x)' => Said(l, x)
      /\ \A l \in Links : \A x : Said(l, x) /\ ~(l = k /\ x = e) => Said(l, x)'
      /\ \A l \in Links : DOMAIN pushed'[l] # {} => DOMAIN pushed[l] # {}
      /\ rpc \in Links /\ Said(k, e)
  <2>1. rpc \in Links /\ Said(k, e)
    BY <1>2 DEF Said, LinkInv, LoopInv, TypeOK
  <2>2. ASSUME NEW l \in Links, NEW x, l # k
        PROVE  (Said(l, x)' <=> Said(l, x)) /\ pushed'[l] = pushed[l]
    BY <1>1, <2>2 DEF Said
  <2>3. ASSUME NEW x, Said(k, x)' PROVE Said(k, x)
    <3>1. PICK n \in DOMAIN pushed'[k] : pushed'[k][n] = x
      BY <2>3 DEF Said
    <3>2. n + 1 \in DOMAIN pushed[k] /\ pushed[k][n + 1] = x
      BY <1>1, <1>2, <3>1
    <3> QED
      BY <3>2 DEF Said
  <2>4. ASSUME NEW x, Said(k, x), x # e PROVE Said(k, x)'
    <3>1. PICK n \in DOMAIN pushed[k] : pushed[k][n] = x
      BY <2>4 DEF Said
    <3>2. PICK m \in DOMAIN Tail(pushed[k]) : Tail(pushed[k])[m] = x
      BY <1>2, <2>4, <3>1
    <3> QED
      BY <1>1, <3>2 DEF Said
  <2>5. (\A l \in Links : \A x : Said(l, x)' => Said(l, x))
        /\ \A l \in Links : \A x : Said(l, x) /\ ~(l = k /\ x = e) => Said(l, x)'
    BY <2>2, <2>3, <2>4
  <2>6. \A l \in Links : DOMAIN pushed'[l] # {} => DOMAIN pushed[l] # {}
    BY <1>2, <2>2
  <2> QED
    BY <2>1, <2>5, <2>6
<1>5. PICK a \in Ids : /\ \/ e = Requested(a) /\ list' = list \union {a}
                          \/ e = Resolved(a) /\ list' = list \ {a}
                       /\ unsure' = IF e = Requested(a) /\ a \in late THEN unsure \union {a}
                                    ELSE unsure \ {a}
                       /\ answers' = Passing(a)
  <2>1. e \in Events
    BY <1>2
  <2> QED
    <3>1. PICK a \in Ids : e \in {Requested(a), Resolved(a)}
      BY <2>1 DEF Events, Requested, Resolved
    <3>2. e[2] = a /\ (e[1] = "requested" <=> e = Requested(a))
      BY <3>1 DEF Requested, Resolved
    <3>3. /\ list' = IF e[1] = "requested" THEN list \union {e[2]} ELSE list \ {e[2]}
          /\ unsure' = IF e[1] = "requested" /\ e[2] \in late THEN unsure \union {e[2]}
                       ELSE unsure \ {e[2]}
          /\ answers' = Passing(e[2])
      BY <1>2 DEF Hear
    <3> HIDE DEF e
    <3> QED
      BY <3>1, <3>2, <3>3
<1> HIDE DEF e
<1>6. e = Resolved(a) /\ a \notin late => ~Said(k, Requested(a))'
  <2> SUFFICES ASSUME e = Resolved(a), a \notin late, NEW n \in DOMAIN Tail(pushed[k]),
                      Tail(pushed[k])[n] = Requested(a)
               PROVE  FALSE
    BY <1>1, NewsDiffer DEF Said
  <2>1. n + 1 < 1 /\ n \in Nat
    BY <1>2 DEF NewsInv, e
  <2> QED
    BY <2>1
<1>7. SubscribedInv'
  BY <1>1, <1>3 DEF SubscribedInv
<1>8. NewsInv'
  <2>1. \A b \in Ids \ late, l \in Links : \A m, n \in DOMAIN pushed'[l] :
          pushed'[l][m] = Requested(b) /\ pushed'[l][n] = Resolved(b) => m < n
    <3> SUFFICES ASSUME NEW b \in Ids \ late, NEW l \in Links,
                        NEW m \in DOMAIN pushed'[l], NEW n \in DOMAIN pushed'[l],
                        pushed'[l][m] = Requested(b), pushed'[l][n] = Resolved(b)
                 PROVE  m < n
      OBVIOUS
    <3>1. CASE l # k
      BY <1>1, <3>1 DEF NewsInv
    <3>2. CASE l = k
      <4> DEFINE i == m + 1
                 j == n + 1
      <4>1. /\ i \in DOMAIN pushed[k] /\ j \in DOMAIN pushed[k] /\ m \in Nat /\ n \in Nat
            /\ pushed[k][i] = Requested(b) /\ pushed[k][j] = Resolved(b)
        BY <1>1, <1>2, <3>2
      <4>2. i < j
        BY <4>1 DEF NewsInv
      <4> QED
        BY <4>1, <4>2
    <3> QED
      BY <3>1, <3>2
  <2>2. \A b \in Ids \ late, l \in Links :
          link[l] = "open" /\ row[b] = "resolved" /\ Said(l, Requested(b))' =>
            Resolved(b) \in owed \/ Said(l, Resolved(b))'
    BY <1>3, <1>5, <1>6, NewsDiffer DEF NewsInv
  <2> QED
    BY <1>1, <1>3, <2>1, <2>2, NewsDiffer DEF NewsInv
<1>9. \A r \in answers' : \E s \in answers : r.on = s.on /\ r.rows = s.rows /\ r.passed = s.passed \union {a}
  BY <1>5, PassingAnswers
<1>10. FetchInv'
  <2>1. row[a] # "none"
    BY <1>3, <1>5 DEF NewsInv
  <2>2. \A r \in answers' : (r.on = rpc \/ link[r.on] = "closed") /\ \A b \in r.rows : row[b] # "none"
    <3> SUFFICES ASSUME NEW r \in answers'
                 PROVE  (r.on = rpc \/ link[r.on] = "closed") /\ \A b \in r.rows : row[b] # "none"
      OBVIOUS
    <3>1. PICK s \in answers : r.on = s.on /\ r.rows = s.rows
      BY <1>9
    <3> QED
      BY <3>1 DEF FetchInv
  <2>3. \A b \in list' : row[b] # "none"
    BY <1>5, <2>1 DEF FetchInv
  <2> QED
    BY <1>1, <2>2, <2>3 DEF FetchInv
<1>11. ShownInv'
  <2> SUFFICES ASSUME link[rpc] = "open", rpc \notin asked
               PROVE  /\ \A r \in answers' : (Right(r.rows, r.passed))'
                      /\ Right(list, unsure)' \/ \E r \in answers' : r.on = rpc
    BY <1>1 DEF ShownInv
  <2>1. k = rpc
    <3>1. ~reconnecting
      BY DEF LinkInv, LossInv, LossesAreTrue
    <3>2. task = "off" /\ ~InQueue(k)
      BY <3>1 DEF LinkInv, LoopInv, OneReconnect, InQueue
    <3> QED
      BY <1>1, <3>2 DEF LinkInv, LossInv, OneForwarder
  <2>2. ASSUME NEW S, NEW U, Right(S, U)
        PROVE  \A b \in Ids \ (U \union {a}) :
                 /\ row'[b] = "queued" => Requested(b) \in owed' \/ Said(rpc, Requested(b))' \/ b \in S
                 /\ row'[b] = "resolved" /\ b \in S => Resolved(b) \in owed' \/ Said(rpc, Resolved(b))'
    BY <1>1, <1>3, <1>5, <2>2, NewsDiffer DEF Right
  <2>3. ASSUME NEW r \in answers' PROVE (Right(r.rows, r.passed))'
    <3>1. PICK s \in answers : r.rows = s.rows /\ r.passed = s.passed \union {a}
      BY <1>9
    <3>2. \A b \in Ids \ r.passed :
            /\ row'[b] = "queued" => Requested(b) \in owed' \/ Said(rpc, Requested(b))' \/ b \in r.rows
            /\ row'[b] = "resolved" /\ b \in r.rows => Resolved(b) \in owed' \/ Said(rpc, Resolved(b))'
      BY <2>2, <3>1 DEF ShownInv
    <3> QED
      BY <1>1, <3>2, NewsDiffer DEF Right
  <2>4. (\E r \in answers : r.on = rpc) => \E r \in answers' : r.on = rpc
    <3> SUFFICES ASSUME NEW s \in answers, s.on = rpc
                 PROVE  \E r \in answers' : r.on = rpc
      OBVIOUS
    <3>1. [s EXCEPT !.passed = @ \union {a}] \in answers'
      BY <1>5 DEF Passing
    <3>2. [s EXCEPT !.passed = @ \union {a}].on = rpc
      BY DEF Answers
    <3> QED
      BY <3>1, <3>2
  <2>5. ASSUME Right(list, unsure) PROVE Right(list, unsure)'
    <3>1. ASSUME NEW b \in Ids \ unsure', b # a
          PROVE  /\ row[b] = "queued" => Requested(b) \in owed \/ Said(rpc, Requested(b))' \/ b \in list'
                 /\ row[b] = "resolved" /\ b \in list' => Resolved(b) \in owed \/ Said(rpc, Resolved(b))'
      <4>1. b \in Ids \ (unsure \union {a}) /\ (b \in list' <=> b \in list)
        BY <1>5, <3>1
      <4> QED
        BY <1>1, <2>2, <2>5, <4>1
    <3>2. CASE e = Requested(a) /\ a \notin late
      <4>1. a \in list' /\ (row[a] = "resolved" => Resolved(a) \in owed \/ Said(rpc, Resolved(a)))
        BY <1>3, <1>5, <2>1, <3>2, NewsDiffer DEF NewsInv
      <4>2. Said(rpc, Resolved(a)) => Said(rpc, Resolved(a))'
        BY <1>1, <1>3, <3>2, NewsDiffer
      <4> QED
        BY <1>1, <3>1, <4>1, <4>2, NewsDiffer DEF Right
    <3>3. CASE e = Requested(a) /\ a \in late
      BY <1>1, <1>5, <3>1, <3>3, NewsDiffer DEF Right
    <3>4. CASE e = Resolved(a)
      <4>1. a \notin list' /\ row[a] = "resolved"
        BY <1>3, <1>5, <3>4, NewsDiffer DEF NewsInv
      <4> QED
        BY <1>1, <3>1, <4>1, NewsDiffer DEF Right
    <3> QED
      BY <1>5, <3>2, <3>3, <3>4
  <2> QED
    BY <2>3, <2>4, <2>5 DEF ShownInv
<1> QED
  BY <1>7, <1>8, <1>10, <1>11

\* The link's steps say nothing, and the reply to subscribe comes after the mark.
LEMMA LinkStepListInv ==
  ASSUME LinkInv, ListInv, ListsTyped',
         \/ \E c \in Calls : ReplyTo(c)
         \/ \E k \in Links : ForwardEnd(k)
         \/ LinkStep
  PROVE  ListInv'
<1> USE SubscribeAssumption DEF ListInv, ListsTyped
<1>1. UNCHANGED lists /\ UNCHANGED rpc
  BY DEF ReplyTo, Reply, ForwardEnd, Forward, LinkStep, AppCall, Send, Drain, Dial, Task, DialFails,
         CallSubscribe, Wake, Attach, Announce, HearLoss, TaskGoes, app
<1>2. UNCHANGED <<row, owed, subscribed, pushed, asked, answers, list, late, unsure>>
  BY <1>1 DEF lists, table, fetching, shown, history
<1>3. /\ \A k \in Links : link'[k] = link[k] \/ (link[k] = "unused" /\ link'[k] = "open")
      /\ link'[rpc] = "open" => link[rpc] = "open"
  <2>1. CASE Dial
    <3>1. \E k \in Links : link[k] = "unused" /\ link' = [link EXCEPT ![k] = "open"]
      BY <2>1 DEF Dial
    <3>2. link[rpc] # "unused"
      BY DEF LinkInv, LossInv, EndsInOrder, Forwarded, LoopInv, TypeOK
    <3> QED
      BY <3>1, <3>2 DEF LinkInv, LoopInv, TypeOK
  <2>2. CASE ~Dial
    BY <2>2 DEF ReplyTo, Reply, ForwardEnd, Forward, LinkStep, AppCall, Send, Drain, Task, DialFails,
                CallSubscribe, Wake, Attach, Announce, HearLoss, wires
  <2> QED
    BY <2>1, <2>2
<1>4. \A k \in Links : link[k] = "unused" => \A x : ~Said(k, x)
  BY DEF Said, SubscribedInv
<1>5. \A k \in Links : \A x : Said(k, x)' <=> Said(k, x)
  BY <1>2 DEF Said
<1>6. NewsInv'
  BY <1>2, <1>3, <1>4, <1>5, NewsDiffer DEF NewsInv
<1>7. FetchInv'
  <2>1. \A k \in Links : link[k] = "closed" => link'[k] = "closed"
    BY <1>3
  <2>2. /\ \A k \in asked : k = rpc \/ link'[k] = "closed"
        /\ \A r \in answers : r.on = rpc \/ link'[r.on] = "closed"
    BY <2>1 DEF FetchInv, Answers
  <2> QED
    BY <1>1, <1>2, <2>2 DEF FetchInv
<1>8. ShownInv'
  BY <1>1, <1>2, <1>3, NewsDiffer DEF ShownInv, Right, Said
<1>9. task' \in {"attach", "announce"} => fresh' \in subscribed
  <2>1. ASSUME NEW c \in Calls, ReplyTo(c)
        PROVE  task' = "attach" => fresh' \in subscribed \/ task = "attach"
    BY <2>1 DEF ReplyTo, Reply, End, LinkInv, LossInv, EndsInOrder
  <2>2. ASSUME task' # task \/ fresh' # fresh
        PROVE  \/ \E c \in Calls : ReplyTo(c)
               \/ task = "attach" /\ fresh' = fresh
               \/ task' \notin {"attach", "announce"}
    BY <2>2 DEF ForwardEnd, Forward, LinkStep, AppCall, Send, Drain, End, Dial, Task, DialFails,
                CallSubscribe, Wake, Attach, Announce, HearLoss, TaskGoes
  <2>3. (\E c \in Calls : ReplyTo(c)) => fresh' = fresh /\ task' \in {task, "attach"}
    BY DEF ReplyTo, Reply, End
  <2> QED
    BY <2>1, <2>2, <2>3 DEF SubscribedInv
<1>10. \A n \in DOMAIN queue' : queue'[n] \in Links => queue'[n] \in subscribed
  <2>1. queue \in Seq({Lost} \union Links) /\ fresh \in Links /\ Lost \notin Links
    BY MaxDeathsAssumption DEF LinkInv, LoopInv, TypeOK, Links, Lost
  <2>2. CASE Announce
    BY <2>1, <2>2, AppendElements DEF Announce, SubscribedInv
  <2>3. ASSUME NEW k \in Links, Forward(k)
        PROVE  \A n \in DOMAIN queue' : queue'[n] \in Links => queue'[n] \in subscribed
    BY <2>1, <2>3, AppendElements DEF Forward, SubscribedInv
  <2>4. CASE HearLoss
    BY <2>1, <2>4, TailElements DEF HearLoss, SubscribedInv
  <2>5. ASSUME ~Announce, ~HearLoss, ~(\E k \in Links : Forward(k)) PROVE UNCHANGED queue
    BY <2>5 DEF ReplyTo, Reply, ForwardEnd, LinkStep, AppCall, Send, Drain, Dial, Task, DialFails,
                CallSubscribe, Wake, Attach
  <2> QED
    BY <2>2, <2>3, <2>4, <2>5 DEF SubscribedInv
<1>11. SubscribedInv'
  BY <1>1, <1>2, <1>3, <1>9, <1>10 DEF SubscribedInv
<1> QED
  BY <1>6, <1>7, <1>8, <1>11

\* A new link starts over with a fetch, and a daemon takes what it owes with it.
LEMMA TurnListInv ==
  ASSUME LinkInv, ListInv, ListsTyped', AdoptAndFetch \/ DieSilently
  PROVE  ListInv'
<1> USE DEF ListInv, ListsTyped, LinkInv
<1>1. UNCHANGED <<row, subscribed, pushed, answers, list, late, unsure>> /\ owed' \subseteq owed
  BY DEF AdoptAndFetch, DieSilently, table, fetching, shown, history
<1>2. \A k \in Links : \A x : Said(k, x)' <=> Said(k, x)
  BY <1>1 DEF Said
<1>3. /\ UNCHANGED <<forwarder, task, fresh>> /\ \A k \in Links : link[k] = "closed" => link'[k] = "closed"
      /\ \A k \in Links : link'[k] = "unused" => link[k] = "unused"
      /\ \A k \in Links : link'[k] = "open" => link[k] = "open"
  BY DEF AdoptAndFetch, Adopt, DieSilently, Die, wires, app, LoopInv, TypeOK
<1>4. CASE AdoptAndFetch
  <2>1. /\ owed' = owed /\ link' = link /\ asked' = asked \union {rpc'}
        /\ queue # <<>> /\ rpc' = Head(queue) /\ rpc' \in Links /\ queue' = Tail(queue)
    BY <1>4 DEF AdoptAndFetch, Adopt, table, wires
  <2>2. /\ 1 \in DOMAIN queue /\ Head(queue) = queue[1]
        /\ \A n \in DOMAIN queue' : n + 1 \in DOMAIN queue /\ queue'[n] = queue[n + 1]
    BY <2>1, TailElements DEF LoopInv, TypeOK
  <2>3. link[rpc] = "closed"
    BY <2>1, <2>2 DEF LossInv, LossesAreTrue, LoopInv, OneReconnect
  <2>4. NewsInv'
    BY <1>1, <1>2, <2>1, NewsDiffer DEF NewsInv
  <2>5. SubscribedInv'
    BY <1>1, <1>3, <2>1, <2>2 DEF SubscribedInv
  <2>6. FetchInv'
    BY <1>1, <2>1, <2>3 DEF FetchInv
  <2>7. ShownInv'
    BY <2>1 DEF ShownInv
  <2> QED
    BY <2>4, <2>5, <2>6, <2>7
<1>5. CASE DieSilently
  <2>1. /\ \A k \in Links : link'[k] # "open"
        /\ owed' = {} /\ UNCHANGED <<rpc, queue, asked>>
    BY <1>5 DEF DieSilently, Die, app, fetching, LoopInv, TypeOK
  <2>2. NewsInv'
    BY <1>1, <1>2, <2>1, NewsDiffer DEF NewsInv
  <2>3. SubscribedInv'
    BY <1>1, <1>3, <2>1 DEF SubscribedInv, LoopInv, TypeOK
  <2>4. FetchInv'
    <3>1. \A r \in answers : r.on \in Links
      BY DEF Answers
    <3> QED
      BY <1>1, <1>3, <2>1, <3>1 DEF FetchInv, LoopInv, TypeOK
  <2>5. ShownInv'
    BY <2>1 DEF ShownInv, LoopInv, TypeOK
  <2> QED
    BY <2>2, <2>3, <2>4, <2>5
<1> QED
  BY <1>4, <1>5

LEMMA NextListInv == LinkInv /\ ListInv /\ [ListsNext]_allVars => ListInv'
<1> SUFFICES ASSUME LinkInv, ListInv, [ListsNext]_allVars PROVE ListInv'
  OBVIOUS
<1>1. ListsTyped'
  BY NextListsTyped DEF LinkInv, ListInv
<1>2. CASE UNCHANGED allVars
  <2>1. /\ UNCHANGED <<row, owed, subscribed, pushed, asked, answers, list, late, unsure>>
        /\ UNCHANGED <<link, forwarder, task, fresh, queue>> /\ UNCHANGED rpc
    BY <1>2 DEF allVars, vars, wires, app, lists, table, fetching, shown, history
  <2>2. \A k \in Links : \A x : Said(k, x)' <=> Said(k, x)
    BY <2>1 DEF Said
  <2>3. NewsInv'
    BY <2>1, <2>2, NewsDiffer DEF ListInv, NewsInv
  <2>4. SubscribedInv' /\ FetchInv'
    BY <2>1 DEF ListInv, SubscribedInv, FetchInv
  <2>5. ShownInv'
    BY <2>1, NewsDiffer DEF ListInv, ShownInv, Right, Said
  <2> QED
    BY <1>1, <2>3, <2>4, <2>5 DEF ListInv
<1>3. CASE ListsNext
  BY <1>1, <1>3, TableListInv, BroadcastListInv, SilentListInv, FetchListInv, HearListInv,
     LinkStepListInv, TurnListInv
  DEF ListsNext
<1> QED
  BY <1>2, <1>3

\* Whatever crosses, for any number of approvals, keys and daemons that go away at any
\* moment: at rest the list is wrong only about approvals that overtook it, or of whose end
\* nobody told in time (app.rs, adopt_rpc).
THEOREM TheListIsRight == ListsSpec => []ListIsRight
<1>1. LinkInv /\ ListInv => ListIsRight
  <2> SUFFICES ASSUME LinkInv, ListInv, AtRest
               PROVE  Queued \ unsure \subseteq list /\ list \ unsure \subseteq Waiting
    BY DEF ListIsRight
  <2>1. /\ link[rpc] = "open" /\ rpc \notin asked /\ answers = {} /\ owed = {}
        /\ rpc \in Links
    BY DEF AtRest, LinkInv, LoopInv, TypeOK
  <2>2. forwarder[rpc] = "on"
    BY <2>1 DEF LinkInv, LoopInv, TypeOK, LossInv, EndsInOrder, Forwarded
  <2>3. \A x : ~Said(rpc, x)
    BY <2>1, <2>2 DEF AtRest, Said
  <2>4. Right(list, unsure)
    BY <2>1 DEF ListInv, ShownInv
  <2>5. \A a \in Ids \ unsure : (row[a] = "queued" => a \in list) /\ (a \in list => row[a] # "resolved")
    BY <2>1, <2>3, <2>4 DEF Right
  <2> QED
    BY <2>5 DEF ListInv, ListsTyped, FetchInv, Queued, Waiting
<1> QED
  BY <1>1, InitListInv, NextListInv, ListsAreOnALink, LinkInvariance, PTL DEF ListsSpec
=============================================================================
