----------------------------- MODULE Approvals ------------------------------
(***************************************************************************)
(* The approval queue of the gmcli daemon (internal/rpc/handlers.go over   *)
(* internal/store/approvals.go).                                           *)
(*                                                                         *)
(* Every request runs in a goroutine of its own (serverConn.run); a        *)
(* handler h \in Handlers is one such goroutine.  The store has a single   *)
(* database connection, so one SQL statement is one atomic step, and a     *)
(* handler may be overtaken between any two of them.  Sends serialise on   *)
(* liveMu; approvals.deny does not take it.                                *)
(*                                                                         *)
(* The daemon may die at any step and be started again, with another send  *)
(* mode and with or without a phone; only the approvals table and what the *)
(* phone took survive.  Any SQL statement may fail, in a living daemon     *)
(* too: disk full, I/O error, another process with the database's lock.    *)
(***************************************************************************)
EXTENDS Naturals

CONSTANTS
  Ids,          \* approval ids (uuid.NewString: never reused)
  Handlers,     \* request goroutines
  None,         \* no handler, no approval
  MaxRestarts,  \* bound on the daemon's restarts
  MaxFaults     \* bound on the SQL statements that fail in a living daemon

ASSUME NoneAssumption == None \notin Handlers \union Ids
ASSUME MaxRestartsAssumption == MaxRestarts \in Nat
ASSUME MaxFaultsAssumption == MaxFaults \in Nat

VARIABLES
  row,        \* row[i]: status of approval i in the table, or "absent"
  phone,      \* phone[i]: how many times the phone took message i
  consented,  \* approvals whose sending was asked for (history)
  mode,       \* Deps.SendMode, fixed while the daemon lives
  offline,    \* Deps.Client == nil
  stopping,   \* ctx cancelled or store closed, process not yet gone
  restarts,   \* number of restarts so far
  faults,     \* number of failed statements so far
  lost,       \* lost[i]: phone[i] when a sender of i last ended without a record of it (history)
  liveMu,     \* handler holding Server.liveMu
  pc,         \* pc[h]: next step of handler h
  op,         \* op[h]: method of the request h serves
  arg,        \* arg[h]: approval the request is about
  val,        \* val[h]: row or outcome h holds in a local, or its reply code
  pushed      \* pushed[i]: status in the last event pushed about approval i

daemon == <<mode, offline, stopping, restarts, faults, lost>>
vars == <<row, phone, consented, mode, offline, stopping, restarts, faults, lost,
          liveMu, pc, op, arg, val, pushed>>

SendModes == {"off", "approve", "direct"}
Ops == {"send", "approve", "deny", "live"}
Terminal == {"sent", "failed", "denied"}
Status == {"absent", "pending"} \union Terminal
Codes == {"ok", "disabled", "notFound", "alreadyResolved", "unavailable",
          "internal"}
Steps == {"idle", "create", "readNew", "announce", "lookup", "lock", "recheck",
          "send", "echo", "resolve", "deny", "reread", "push", "live", "reply"}

-----------------------------------------------------------------------------
(***************************************************************************)
(* Handler plumbing                                                        *)
(***************************************************************************)

\* Handler h goes on to its step s, with v in its locals.
Continue(h, s, v) ==
  /\ pc' = [pc EXCEPT ![h] = s]
  /\ val' = [val EXCEPT ![h] = v]
  /\ UNCHANGED <<op, arg>>

\* Handler h returns reply code c; the deferred liveMu.Unlock runs if h holds it.
Finish(h, c) ==
  /\ Continue(h, "reply", c)
  /\ liveMu' = IF liveMu = h THEN None ELSE liveMu

\* A request for method o about i arrives and goes to step s with v.
Begin(h, o, i, s, v) ==
  /\ pc[h] = "idle"
  /\ ~stopping
  /\ pc' = [pc EXCEPT ![h] = s]
  /\ op' = [op EXCEPT ![h] = o]
  /\ arg' = [arg EXCEPT ![h] = i]
  /\ val' = [val EXCEPT ![h] = v]
  /\ UNCHANGED <<row, phone, daemon, liveMu, pushed>>

\* The handler's next SQL statement fails, as each does once its context is cancelled or
\* the store is closed; the error becomes an internal error reply, and when it was to
\* record a send, nothing remembers what the phone took.
StoreFault(h) ==
  /\ pc[h] \in {"create", "readNew", "lookup", "recheck", "resolve", "deny", "reread"}
  /\ stopping \/ faults < MaxFaults
  /\ faults' = IF stopping THEN faults ELSE faults + 1
  /\ lost' = IF pc[h] = "resolve" THEN [lost EXCEPT ![arg[h]] = phone[arg[h]]] ELSE lost
  /\ Finish(h, "internal")
  /\ UNCHANGED <<row, phone, consented, mode, offline, stopping, restarts, pushed>>

-----------------------------------------------------------------------------
(***************************************************************************)
(* send.text                                                               *)
(***************************************************************************)

\* The uuid drawn by handleSendText is used nowhere else.
Fresh(i) ==
  /\ row[i] = "absent"
  /\ \A g \in Handlers : op[g] # "send" \/ arg[g] # i

SendText(h, i) ==
  /\ Fresh(i)
  /\ IF mode = "off"
       THEN Begin(h, "send", i, "reply", "disabled")
       ELSE Begin(h, "send", i, "create", "none")
  /\ consented' = IF mode = "direct" THEN consented \union {i} ELSE consented

CreateApproval(h) ==
  /\ pc[h] = "create" /\ ~stopping
  /\ row' = [row EXCEPT ![arg[h]] = "pending"]
  /\ Continue(h, "readNew", "none")
  /\ UNCHANGED <<phone, consented, daemon, liveMu, pushed>>

ReadNew(h) ==
  /\ pc[h] = "readNew" /\ ~stopping
  /\ Continue(h, IF mode = "approve" THEN "announce" ELSE "lock", row[arg[h]])
  /\ UNCHANGED <<row, phone, consented, daemon, liveMu, pushed>>

\* Broadcast(EventApprovalRequested, created): the row as it was read back.
Announce(h) ==
  /\ pc[h] = "announce"
  /\ pushed' = [pushed EXCEPT ![arg[h]] = val[h]]
  /\ Finish(h, "ok")
  /\ UNCHANGED <<row, phone, consented, daemon>>

-----------------------------------------------------------------------------
(***************************************************************************)
(* approvals.approve and performApprovedSend                               *)
(***************************************************************************)

Approve(h, i) ==
  /\ IF mode = "off"
       THEN Begin(h, "approve", i, "reply", "disabled")
       ELSE Begin(h, "approve", i, "lookup", "none")
  /\ consented' = IF mode = "off" THEN consented ELSE consented \union {i}

Lookup(h) ==
  /\ pc[h] = "lookup" /\ ~stopping
  /\ \/ row[arg[h]] = "absent" /\ Finish(h, "notFound")
     \/ row[arg[h]] \in Terminal /\ Finish(h, "alreadyResolved")
     \/ row[arg[h]] = "pending" /\ Continue(h, "lock", "pending") /\ UNCHANGED liveMu
  /\ UNCHANGED <<row, phone, consented, daemon, pushed>>

LockLive(h) ==
  /\ pc[h] = "lock"
  /\ liveMu = None
  /\ liveMu' = h
  /\ Continue(h, IF op[h] = "live" THEN "live" ELSE "recheck", val[h])
  /\ UNCHANGED <<row, phone, consented, daemon, pushed>>

\* Mutant: the row is not re-read under liveMu.
RecheckNothing(h) ==
  /\ pc[h] = "recheck" /\ ~stopping
  /\ IF offline THEN Finish(h, "unavailable")
     ELSE Continue(h, "send", "none") /\ UNCHANGED liveMu
  /\ UNCHANGED <<row, phone, consented, daemon, pushed>>

\* Mutant: without a phone the sender waits for one, with liveMu held.
RecheckWaits(h) ==
  /\ pc[h] = "recheck" /\ ~stopping
  /\ IF row[arg[h]] # "pending" THEN Finish(h, "alreadyResolved")
     ELSE IF offline THEN Continue(h, "recheck", val[h]) /\ UNCHANGED liveMu
     ELSE Continue(h, "send", "none") /\ UNCHANGED liveMu
  /\ UNCHANGED <<row, phone, consented, daemon, pushed>>

Recheck(h) ==
  /\ pc[h] = "recheck" /\ ~stopping
  /\ IF row[arg[h]] # "pending" THEN Finish(h, "alreadyResolved")
     ELSE IF offline THEN Finish(h, "unavailable")
     ELSE Continue(h, "send", "none") /\ UNCHANGED liveMu
  /\ UNCHANGED <<row, phone, consented, daemon, pushed>>

\* Mutant: the status of the phone's answer is not looked at.
SendRefusedUnseen(h) ==
  /\ pc[h] = "send"
  /\ Continue(h, "resolve", "sent")
  /\ UNCHANGED <<row, phone, consented, daemon, liveMu, pushed>>

\* Client.SendText fails before anything reached the phone (no settings, no
\* conversation, no SIM), the phone rejects the message, or it is lost.
SendRefused(h) ==
  /\ pc[h] = "send"
  /\ Continue(h, "resolve", "failed")
  /\ UNCHANGED <<row, phone, consented, daemon, liveMu, pushed>>

\* libgm.SendMessage: the phone takes the message; its answer arrives, and
\* SendText waits for the echo, or it does not.
SendTaken(h) ==
  /\ pc[h] = "send"
  /\ phone' = [phone EXCEPT ![arg[h]] = @ + 1]
  /\ \/ Continue(h, "echo", "none")
     \/ Continue(h, "resolve", "failed")
  /\ UNCHANGED <<row, consented, daemon, liveMu, pushed>>

\* The sent-message echo arrives, or LiveTimeout (or ctx) ends the wait.
EchoDone(h) ==
  /\ pc[h] = "echo"
  /\ \E outcome \in {"sent", "failed"} : Continue(h, "resolve", outcome)
  /\ UNCHANGED <<row, phone, consented, daemon, liveMu, pushed>>

\* ResolveApproval: UPDATE ... WHERE approval_id = ? AND status = 'pending'.
ResolveApproval(i, s) ==
  /\ row[i] = "pending"
  /\ row' = [row EXCEPT ![i] = s]

\* Mutant: the error of ResolveApproval is dropped.
ResolveUnchecked(h) ==
  /\ pc[h] = "resolve" /\ ~stopping
  /\ IF row[arg[h]] = "pending" THEN ResolveApproval(arg[h], val[h]) ELSE UNCHANGED row
  /\ Continue(h, "reread", val[h])
  /\ UNCHANGED <<phone, consented, daemon, liveMu, pushed>>

\* Mutant: a failed send returns before it is recorded.
ResolveSentOnly(h) ==
  /\ pc[h] = "resolve" /\ ~stopping
  /\ \/ /\ val[h] = "sent"
        /\ ResolveApproval(arg[h], val[h])
        /\ Continue(h, "reread", val[h])
        /\ UNCHANGED liveMu
     \/ /\ row[arg[h]] # "pending" \/ val[h] = "failed"
        /\ Finish(h, "internal")
        /\ UNCHANGED row
  /\ UNCHANGED <<phone, consented, daemon, pushed>>

Resolve(h) ==
  /\ pc[h] = "resolve" /\ ~stopping
  /\ \/ /\ ResolveApproval(arg[h], val[h])
        /\ Continue(h, "reread", val[h])
        /\ UNCHANGED liveMu
     \/ /\ row[arg[h]] # "pending"
        /\ Finish(h, "internal")
        /\ UNCHANGED row
  /\ UNCHANGED <<phone, consented, daemon, pushed>>

-----------------------------------------------------------------------------
(***************************************************************************)
(* approvals.deny, and the end it shares with performApprovedSend          *)
(***************************************************************************)

Deny(h, i) ==
  /\ Begin(h, "deny", i, "deny", "none")
  /\ UNCHANGED consented

DenyResolve(h) ==
  /\ pc[h] = "deny" /\ ~stopping
  /\ \/ /\ ResolveApproval(arg[h], "denied")
        /\ Continue(h, "reread", "denied")
        /\ UNCHANGED liveMu
     \/ /\ row[arg[h]] # "pending"
        /\ Finish(h, IF row[arg[h]] = "absent" THEN "notFound" ELSE "alreadyResolved")
        /\ UNCHANGED row
  /\ UNCHANGED <<phone, consented, daemon, pushed>>

Reread(h) ==
  /\ pc[h] = "reread" /\ ~stopping
  /\ Continue(h, "push", row[arg[h]])
  /\ UNCHANGED <<row, phone, consented, daemon, liveMu, pushed>>

\* Broadcast(EventApprovalResolved, resolved), then the reply.
Push(h) ==
  /\ pc[h] = "push"
  /\ pushed' = [pushed EXCEPT ![arg[h]] = val[h]]
  /\ Finish(h, IF val[h] = "failed" THEN "unavailable" ELSE "ok")
  /\ UNCHANGED <<row, phone, consented, daemon>>

-----------------------------------------------------------------------------
(***************************************************************************)
(* What else takes liveMu for a phone call: send.react, which skips the    *)
(* queue but not the send mode, and media.download, history.backfill,      *)
(* history.lookup and the refresh of sync.refresh, which have no send mode *)
(***************************************************************************)

Live(h) ==
  /\ IF offline THEN Begin(h, "live", None, "reply", "unavailable")
                ELSE Begin(h, "live", None, "lock", "none")
  /\ UNCHANGED consented

React(h) ==
  \/ mode = "off" /\ Begin(h, "live", None, "reply", "disabled") /\ UNCHANGED consented
  \/ mode # "off" /\ Live(h)

LiveDone(h) ==
  /\ pc[h] = "live"
  /\ \E c \in {"ok", "unavailable"} : Finish(h, c)
  /\ UNCHANGED <<row, phone, consented, daemon, pushed>>

-----------------------------------------------------------------------------
(***************************************************************************)
(* The reply, and the daemon's own life                                    *)
(***************************************************************************)

\* serverConn.run writes the response; the goroutine ends.
Return(h) ==
  /\ pc[h] = "reply"
  /\ pc' = [pc EXCEPT ![h] = "idle"]
  /\ op' = [op EXCEPT ![h] = "none"]
  /\ arg' = [arg EXCEPT ![h] = None]
  /\ val' = [val EXCEPT ![h] = "none"]
  /\ UNCHANGED <<row, phone, consented, daemon, liveMu, pushed>>

\* A signal cancels ctx, or serve returns and closes the store; handlers run
\* on for a moment.
Stop ==
  /\ ~stopping
  /\ restarts < MaxRestarts
  /\ stopping' = TRUE
  /\ UNCHANGED <<row, phone, consented, mode, offline, restarts, faults, lost, liveMu,
                 pc, op, arg, val, pushed>>

\* Handler h has handed message i over and has not recorded what became of it.
Unrecorded(h, i) == arg[h] = i /\ pc[h] \in {"echo", "resolve"}

\* The process is gone, at whatever step its handlers are, and is started again.
Restart ==
  /\ restarts < MaxRestarts
  /\ restarts' = restarts + 1
  /\ stopping' = FALSE
  /\ mode' \in SendModes
  /\ offline' \in BOOLEAN
  /\ liveMu' = None
  /\ pc' = [h \in Handlers |-> "idle"]
  /\ op' = [h \in Handlers |-> "none"]
  /\ arg' = [h \in Handlers |-> None]
  /\ val' = [h \in Handlers |-> "none"]
  /\ pushed' = [i \in Ids |-> "none"]
  /\ lost' = [i \in Ids |-> IF \E h \in Handlers : Unrecorded(h, i) THEN phone[i] ELSE lost[i]]
  /\ UNCHANGED <<row, phone, consented, faults>>

-----------------------------------------------------------------------------

Init ==
  /\ row = [i \in Ids |-> "absent"]
  /\ phone = [i \in Ids |-> 0]
  /\ consented = {}
  /\ mode \in SendModes
  /\ offline \in BOOLEAN
  /\ stopping = FALSE
  /\ restarts = 0
  /\ faults = 0
  /\ lost = [i \in Ids |-> 0]
  /\ liveMu = None
  /\ pc = [h \in Handlers |-> "idle"]
  /\ op = [h \in Handlers |-> "none"]
  /\ arg = [h \in Handlers |-> None]
  /\ val = [h \in Handlers |-> "none"]
  /\ pushed = [i \in Ids |-> "none"]

\* What handler h does on its own, other than waiting for liveMu or for libgm.
HandlerStep(h) ==
  \/ StoreFault(h)
  \/ CreateApproval(h) \/ ReadNew(h) \/ Announce(h)
  \/ Lookup(h) \/ Recheck(h)
  \/ EchoDone(h) \/ Resolve(h)
  \/ DenyResolve(h) \/ Reread(h) \/ Push(h)
  \/ Return(h)

\* A call of libgm returns.
PhoneStep(h) == SendRefused(h) \/ SendTaken(h) \/ LiveDone(h)

Request(h) ==
  \/ \E i \in Ids : SendText(h, i) \/ Approve(h, i) \/ Deny(h, i)
  \/ React(h) \/ Live(h)

Next ==
  \/ \E h \in Handlers : Request(h) \/ LockLive(h) \/ HandlerStep(h) \/ PhoneStep(h)
  \/ Stop
  \/ Restart

Spec == Init /\ [][Next]_vars

(***************************************************************************)
(* Go runs every runnable goroutine, LiveTimeout ends the wait for an echo *)
(* and a deadline every write; a sync.Mutex hands itself to a waiter       *)
(* starved for a millisecond.  The calls of libgm take no context and have *)
(* no timeout here, so none of them has to return (PhoneStep is not fair). *)
(* Nobody has to send a request.                                           *)
(***************************************************************************)
Fairness == \A h \in Handlers : WF_vars(HandlerStep(h)) /\ SF_vars(LockLive(h))

FairSpec == Spec /\ Fairness

-----------------------------------------------------------------------------
(***************************************************************************)
(* Properties                                                              *)
(***************************************************************************)

\* Every variable has its type, and only a handler at work has a request.
TypeOK ==
  /\ row \in [Ids -> Status]
  /\ phone \in [Ids -> Nat]
  /\ consented \in SUBSET Ids
  /\ mode \in SendModes /\ offline \in BOOLEAN /\ stopping \in BOOLEAN
  /\ restarts \in 0..MaxRestarts /\ faults \in 0..MaxFaults /\ lost \in [Ids -> Nat]
  /\ liveMu \in Handlers \union {None}
  /\ pc \in [Handlers -> Steps]
  /\ op \in [Handlers -> Ops \union {"none"}]
  /\ arg \in [Handlers -> Ids \union {None}]
  /\ val \in [Handlers -> Status \union Codes \union {"none"}]
  /\ pushed \in [Ids -> Status \union {"none"}]

\* However many clients approve the same row, or approve it again later, the phone takes
\* the message a second time only after a sender ended without a record of the first: its
\* daemon died, or ResolveApproval failed (performApprovedSend re-reads the row under liveMu).
ResentOnlyIfUnrecorded == \A i \in Ids : phone[i] <= lost[i] + 1

\* Nothing reaches the phone without somebody having asked for it: an
\* approvals.approve, or a send.text to a daemon in direct mode
\* (handleSendText in approve mode only stores and announces the row).
HumanInTheLoop == \A i \in Ids : phone[i] > 0 => i \in consented

\* A row that says sent is never a lie, and a client told "ok" by approve finds
\* it so; a client told "ok" by deny finds the row denied.
RepliesAreTrue ==
  /\ \A i \in Ids : row[i] = "sent" => phone[i] > 0
  /\ \A h \in Handlers : pc[h] = "reply" /\ val[h] = "ok" =>
       /\ op[h] = "approve" => row[arg[h]] = "sent"
       /\ op[h] = "deny" => row[arg[h]] = "denied"
       /\ op[h] = "send" /\ mode = "direct" => row[arg[h]] = "sent"

\* From its look at the row under liveMu until it has recorded the outcome, nobody but a
\* deny takes the row from a sender: of two approvers one finds it resolved before it sends.
OnlyDenyOvertakes ==
  \A h \in Handlers : pc[h] \in {"send", "echo", "resolve"} => row[arg[h]] \in {"pending", "denied"}

\* An event that announces a resolution announces the final one: both the
\* approver and the denier re-read the row outside the UPDATE that resolved it.
EventsAreFinal == \A i \in Ids : pushed[i] \in Terminal => row[i] = pushed[i]

\* Terminal states never transition again (approvals.go), whoever resolves
\* concurrently and however often the daemon restarts.
TerminalForever ==
  [][\A i \in Ids : row[i] \in Terminal => row'[i] = row[i]]_vars

\* The phone takes a message only while its row is unresolved, or was denied
\* after the sender's last look at it.
NoSendAfterOutcome ==
  [][\A i \in Ids : phone'[i] # phone[i] => row[i] \in {"pending", "denied"}]_vars

\* A deny is answered whatever the phone does, since it does not wait for liveMu; every
\* other request is, or dies with its daemon, as long as no call of libgm hangs: whoever
\* has liveMu gives it up, on every early return and every error.
Answered ==
  /\ \A h \in Handlers : (op[h] = "deny") ~> (op[h] # "deny")
  /\ (\A h \in Handlers : []<>(pc[h] \notin {"send", "live"}))
       => \A h \in Handlers : (pc[h] # "idle") ~> (pc[h] = "idle")

\* What the phone took is recorded, a missing echo included, unless the daemon dies or the
\* store refuses the record.
DeliveriesRecorded ==
  \A i \in Ids : (phone[i] > lost[i]) ~> (row[i] # "pending" \/ phone[i] = lost[i])

\* The queue implements the outbox.
Box == INSTANCE Outbox WITH status <- row, taken <- phone

ImplementsOutbox == Box!Spec
=============================================================================
