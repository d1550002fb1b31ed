---------------------------- MODULE Subscribers -----------------------------
(***************************************************************************)
(* The fan-out of gm.Client (internal/gm/gm.go): libgm's one callback,     *)
(* dispatch, hands every event to the subscribers in their order.          *)
(*                                                                         *)
(* Some subscribers stay for good (the sync pump, the broadcaster of the   *)
(* RPC server, the notifier).  Others are watchers: WaitForReady,          *)
(* WaitForSettings and watchMessageEcho append a handler, wait for one     *)
(* event, and then remove the handler at the index it had when it was      *)
(* appended.  An earlier removal shifts the others, so the index may name  *)
(* a stranger, or nobody.                                                  *)
(*                                                                         *)
(* A caller is a goroutine that runs a script of waits, one after the      *)
(* other.  In the daemon scripts run under liveMu (Exclusive); in          *)
(* `gmcli send` WaitForReady runs beside the send.                         *)
(***************************************************************************)
EXTENDS Naturals, SequencesExt

CONSTANTS
  Permanent,    \* sequence of the subscribers that stay
  Callers,      \* goroutines that wait for events
  Script,       \* Script[c]: the events caller c waits for, in order
  Exclusive,    \* callers run under liveMu
  Nobody,       \* no caller
  MaxEvents     \* bound on the events libgm delivers

ASSUME PermanentAssumption ==
  /\ Permanent \in Seq(ToSet(Permanent))
  /\ \A k, l \in DOMAIN Permanent : Permanent[k] = Permanent[l] => k = l
  /\ \A k \in DOMAIN Permanent : Permanent[k] \notin Callers \X Nat
\* A script sends one message at most: a send makes a tmp_id of its own.
ASSUME ScriptAssumption ==
  /\ Script \in [Callers -> Seq({"ready", "settings", "echo"})]
  /\ \A c \in Callers : \A k, l \in DOMAIN Script[c] :
       Script[c][k] = "echo" /\ Script[c][l] = "echo" => k = l
ASSUME ExclusiveAssumption == Exclusive \in BOOLEAN
ASSUME NobodyAssumption == Nobody \notin Callers
ASSUME MaxEventsAssumption == MaxEvents \in Nat

VARIABLES
  subscribers,  \* Client.subscribers
  step,         \* step[c]: how many waits of its script c has begun
  checked,      \* callers whose first look at the settings found none
  idx,          \* idx[c]: where c's handler was appended, 0 while c does not wait
  signalled,    \* callers whose channel has been closed or filled
  settings,     \* the phone's settings are known
  fate,         \* fate[c]: what became of c's message: "none", "taken", "echoed"
  liveMu,       \* caller holding Server.liveMu
  current,      \* event being delivered, or "none"
  todo,         \* the rest of dispatch's snapshot of the subscribers
  heard,        \* heard[p]: events permanent subscriber p has handled
  delivered     \* number of events handed to dispatch

wait == <<subscribers, step, checked, idx, signalled, liveMu>>
dispatch == <<settings, current, todo, heard, delivered>>
fanOutVars == <<wait, dispatch, fate>>

Stayers == ToSet(Permanent)
Waiting(c) == idx[c] # 0
Awaited(c) == Script[c][step[c]]
Upcoming(c) == Script[c][step[c] + 1]
Handler(c) == <<c, step[c]>>

\* An echo carries the tmp_id of one send, so it concerns one caller.
Echo(c) == <<"echo", c>>
Plain == {<<"ready">>, <<"settings">>, <<"other">>}
Quiet == <<"none">>
Concerns(e, c) == e = IF Awaited(c) = "echo" THEN Echo(c) ELSE <<Awaited(c)>>

-----------------------------------------------------------------------------
LockLive(c) ==
  /\ Exclusive
  /\ step[c] = 0
  /\ liveMu = Nobody
  /\ liveMu' = c
  /\ UNCHANGED <<subscribers, step, checked, idx, signalled, dispatch, fate>>

\* The caller is between two waits.
Between(c) ==
  /\ ~Waiting(c) /\ step[c] < Len(Script[c])
  /\ Exclusive => liveMu = c

\* WaitForSettings looks at the settings, and returns when there are some.
CheckSettings(c) ==
  /\ Between(c) /\ Upcoming(c) = "settings" /\ c \notin checked
  /\ IF settings THEN step' = [step EXCEPT ![c] = @ + 1] /\ UNCHANGED checked
                 ELSE checked' = checked \union {c} /\ UNCHANGED step
  /\ UNCHANGED <<subscribers, idx, signalled, liveMu, dispatch, fate>>

\* A wait begins: its handler is appended and its index remembered.
\* WaitForSettings, now holding the lock, looks at the settings again.
Register(c) ==
  /\ Between(c) /\ (Upcoming(c) = "settings" => c \in checked)
  /\ step' = [step EXCEPT ![c] = @ + 1]
  /\ idx' = [idx EXCEPT ![c] = Len(subscribers) + 1]
  /\ subscribers' = Append(subscribers, Handler(c)')
  /\ signalled' = IF Upcoming(c) = "settings" /\ settings THEN signalled \union {c}
                                                         ELSE signalled \ {c}
  /\ UNCHANGED <<checked, liveMu, dispatch, fate>>

\* buildSendTextRequest fails: the send ends before its message is built.
Abort(c) ==
  /\ Between(c) /\ Upcoming(c) = "echo"
  /\ step' = [step EXCEPT ![c] = @ + 1]
  /\ liveMu' = IF liveMu = c THEN Nobody ELSE liveMu
  /\ UNCHANGED <<subscribers, checked, idx, signalled, dispatch, fate>>

\* Mutant: the message is sent before the echo's handler is in place.
SendMessageFirst(c) ==
  /\ ~Waiting(c) /\ step[c] = 1 /\ Len(Script[c]) = 2
  /\ fate[c] = "none"
  /\ fate' = [fate EXCEPT ![c] = "taken"]
  /\ UNCHANGED <<wait, dispatch>>

\* libgm.SendMessage: called once the echo's handler is in place.
SendMessage(c) ==
  /\ Waiting(c) /\ Awaited(c) = "echo"
  /\ fate[c] = "none"
  /\ fate' = [fate EXCEPT ![c] = "taken"]
  /\ UNCHANGED <<wait, dispatch>>

\* Mutant: the index is one too small.
RemoveHandlerBefore(c) ==
  subscribers' = IF idx[c] - 1 \in DOMAIN subscribers THEN RemoveAt(subscribers, idx[c] - 1)
                                                      ELSE subscribers

\* if idx < len(subscribers) { subscribers = append(subscribers[:idx], subscribers[idx+1:]...) }
RemoveHandler(c) ==
  subscribers' = IF idx[c] <= Len(subscribers) THEN RemoveAt(subscribers, idx[c])
                                               ELSE subscribers

\* A wait ends: the handler is removed; after a failed wait the script is
\* given up.  The last wait's end releases liveMu.
EndWait(c, ok) ==
  /\ Waiting(c)
  /\ RemoveHandler(c)
  /\ idx' = [idx EXCEPT ![c] = 0]
  /\ step' = IF ok THEN step ELSE [step EXCEPT ![c] = Len(Script[c])]
  /\ liveMu' = IF liveMu = c /\ step'[c] = Len(Script[c]) THEN Nobody ELSE liveMu
  /\ UNCHANGED <<checked, signalled, dispatch, fate>>

Wake(c) == c \in signalled /\ EndWait(c, TRUE)

\* ctx ends the wait, or SendMessage failed.
GiveUp(c) == EndWait(c, FALSE)

-----------------------------------------------------------------------------
\* Mutant: dispatch returns once it has stored the settings.
DispatchSkips(e) ==
  /\ current = Quiet /\ delivered < MaxEvents
  /\ current' = e
  /\ settings' = (settings \/ e = <<"settings">>)
  /\ todo' = IF e = <<"settings">> THEN <<>> ELSE subscribers
  /\ delivered' = delivered + 1
  /\ UNCHANGED heard

\* dispatch takes event e: it remembers settings and copies the subscribers.
Dispatch(e) ==
  /\ current = Quiet /\ delivered < MaxEvents
  /\ current' = e
  /\ settings' = (settings \/ e = <<"settings">>)
  /\ todo' = subscribers
  /\ delivered' = delivered + 1
  /\ UNCHANGED heard

DispatchPlain(e) == Dispatch(e) /\ UNCHANGED <<wait, fate>>

\* The relay delivers the sent message back.
DispatchEcho(c) ==
  /\ fate[c] = "taken"
  /\ fate' = [fate EXCEPT ![c] = "echoed"]
  /\ Dispatch(Echo(c))
  /\ UNCHANGED wait

\* dispatch calls the next subscriber of its copy.
CallNext ==
  /\ todo # <<>>
  /\ LET h == Head(todo)
     IN  IF h \in Stayers
           THEN heard' = [heard EXCEPT ![h] = @ + 1] /\ UNCHANGED signalled
           ELSE /\ signalled' = IF Handler(h[1]) = h /\ Waiting(h[1]) /\ Concerns(current, h[1])
                                  THEN signalled \union {h[1]} ELSE signalled
                /\ UNCHANGED heard
  /\ todo' = Tail(todo)
  /\ UNCHANGED <<subscribers, step, checked, idx, liveMu, settings, current, delivered, fate>>

DispatchEnd ==
  /\ current # Quiet /\ todo = <<>>
  /\ current' = Quiet
  /\ UNCHANGED <<wait, settings, todo, heard, delivered, fate>>

-----------------------------------------------------------------------------
FanOutInit ==
  /\ subscribers = Permanent
  /\ step = [c \in Callers |-> 0]
  /\ checked = {}
  /\ idx = [c \in Callers |-> 0]
  /\ signalled = {}
  /\ settings = FALSE
  /\ fate = [c \in Callers |-> "none"]
  /\ liveMu = Nobody
  /\ current = Quiet
  /\ todo = <<>>
  /\ heard = [p \in Stayers |-> 0]
  /\ delivered = 0

FanOutNext ==
  \/ \E c \in Callers :
       \/ LockLive(c) \/ CheckSettings(c) \/ Register(c) \/ Abort(c)
       \/ SendMessage(c) \/ Wake(c) \/ GiveUp(c) \/ DispatchEcho(c)
  \/ \E e \in Plain : DispatchPlain(e)
  \/ CallNext \/ DispatchEnd

FanOutSpec == FanOutInit /\ [][FanOutNext]_fanOutVars

-----------------------------------------------------------------------------
\* Every variable has its type, and nobody steps over the end of its script.
FanOutTypeOK ==
  /\ subscribers \in Seq(Stayers \union (Callers \X Nat))
  /\ step \in [Callers -> Nat] /\ idx \in [Callers -> Nat]
  /\ \A c \in Callers : step[c] <= Len(Script[c])
  /\ signalled \subseteq Callers /\ checked \subseteq Callers
  /\ settings \in BOOLEAN
  /\ fate \in [Callers -> {"none", "taken", "echoed"}]
  /\ liveMu \in Callers \union {Nobody}
  /\ current \in Plain \union {Quiet} \union {Echo(c) : c \in Callers}
  /\ todo \in Seq(Stayers \union (Callers \X Nat))
  /\ heard \in [Stayers -> Nat] /\ delivered \in 0..MaxEvents

\* Every event reaches every permanent subscriber, in the order of subscription.
EveryEventIsHeard ==
  /\ \A k, l \in DOMAIN Permanent : k < l => heard[Permanent[k]] >= heard[Permanent[l]]
  /\ current = Quiet => \A p \in Stayers : heard[p] = delivered

\* A caller that waits for the echo of a message the phone took is told of it:
\* otherwise a delivered message is recorded as failed.
EchoIsHeard == \A c \in Callers :
  (Waiting(c) /\ Awaited(c) = "echo" /\ fate[c] = "echoed" /\ current = Quiet)
    => c \in signalled

\* "Remove only our subscriber; preserve any added concurrently" (gm.go:134):
\* the end of c's wait takes c's handler away, and no other.
RemovesOnlyOwn == [][\A c \in Callers :
  Waiting(c) /\ idx'[c] = 0 => ToSet(subscribers) \ ToSet(subscribers') = {Handler(c)}]_fanOutVars
=============================================================================
