-------------------------- MODULE ApprovalsProofs ---------------------------
(***************************************************************************)
(* Theorems about Approvals, for any number of approvals, concurrent       *)
(* requests and restarts.                                                  *)
(***************************************************************************)
EXTENDS Approvals, TLAPS

\* Handler h is between liveMu.Lock and the deferred Unlock.
InLive(h) ==
  \/ pc[h] \in {"recheck", "send", "echo", "resolve", "live"}
  \/ pc[h] \in {"reread", "push"} /\ op[h] # "deny"

\* Only its owner is inside the critical section.
LockInv == \A h \in Handlers : InLive(h) => liveMu = h

\* The steps a request passes through are those of its method, and the send
\* mode allowed the first of them.
RequestInv(h) ==
  /\ op[h] \in {"send", "approve", "deny"} => arg[h] \in Ids
  /\ pc[h] = "idle" => op[h] = "none"
  /\ pc[h] \in {"create", "readNew", "announce"} => op[h] = "send"
  /\ pc[h] = "lookup" => op[h] = "approve"
  /\ pc[h] = "lock" => op[h] \in {"send", "approve", "live"}
  /\ pc[h] \in {"recheck", "send", "echo", "resolve"} => op[h] \in {"send", "approve"}
  /\ pc[h] = "deny" => op[h] = "deny"
  /\ pc[h] \in {"reread", "push"} => op[h] \in {"send", "approve", "deny"}
  /\ pc[h] = "live" => op[h] = "live"
  /\ op[h] \in {"send", "approve"} /\ pc[h] # "reply" => mode # "off"
  /\ pc[h] = "announce" => mode = "approve"

\* Whoever may reach SendText serves a request that asked for the send.
ConsentInv(h) ==
  /\ op[h] = "approve" /\ pc[h] # "reply" => arg[h] \in consented
  /\ pc[h] \in {"create", "readNew"} /\ mode = "direct" => arg[h] \in consented
  /\ op[h] = "send" /\ pc[h] \in {"lock", "recheck", "send", "echo", "resolve"}
       => arg[h] \in consented

\* What a handler's locals say of the row and of the phone.
LocalsInv(h) ==
  /\ pc[h] = "create" => row[arg[h]] = "absent"
  /\ pc[h] = "announce" => val[h] \in Status
  /\ pc[h] = "announce" /\ val[h] \in Terminal => row[arg[h]] = val[h]
  /\ pc[h] = "send" => phone[arg[h]] <= lost[arg[h]]
  /\ pc[h] \in {"send", "echo", "resolve"} => row[arg[h]] \in {"pending", "denied"}
  /\ pc[h] = "echo" => phone[arg[h]] > 0
  /\ pc[h] = "resolve" => val[h] \in {"sent", "failed"}
  /\ pc[h] = "resolve" /\ val[h] = "sent" => phone[arg[h]] > 0
  /\ pc[h] \in {"reread", "push"} =>
       row[arg[h]] \in IF op[h] = "deny" THEN {"denied"} ELSE {"sent", "failed"}
  /\ pc[h] = "push" => val[h] = row[arg[h]]
  /\ pc[h] = "reply" /\ val[h] = "ok" =>
       /\ op[h] = "approve" => row[arg[h]] = "sent"
       /\ op[h] = "deny" => row[arg[h]] = "denied"
       /\ op[h] = "send" /\ mode = "direct" => row[arg[h]] = "sent"

\* No two send.text requests work on the same approval.
FreshInv == \A g, h \in Handlers :
  op[g] = "send" /\ op[h] = "send" /\ arg[g] = arg[h] => g = h

\* The phone took i at most once since a sender last ended without a record, and when it
\* did, the row has settled, or its sender still owns liveMu.
OnceInv(i) ==
  /\ phone[i] <= lost[i] + 1 /\ lost[i] <= phone[i]
  /\ phone[i] = lost[i] + 1 => row[i] \in Terminal \/ \E h \in Handlers : Unrecorded(h, i)

\* What the table and the events say of i.
RowInv(i) ==
  /\ phone[i] > 0 => i \in consented
  /\ row[i] = "sent" => phone[i] > 0
  /\ pushed[i] \in Terminal => row[i] = pushed[i]

IInv ==
  /\ TypeOK
  /\ LockInv
  /\ \A h \in Handlers : RequestInv(h)
  /\ \A h \in Handlers : ConsentInv(h)
  /\ \A h \in Handlers : LocalsInv(h)
  /\ FreshInv
  /\ \A i \in Ids : OnceInv(i)
  /\ \A i \in Ids : RowInv(i)

-----------------------------------------------------------------------------
(***************************************************************************)
(* The invariant is inductive.                                             *)
(***************************************************************************)

LEMMA InitIInv == Init => IInv
<1> SUFFICES ASSUME Init PROVE IInv
  OBVIOUS
<1> USE NoneAssumption, MaxRestartsAssumption, MaxFaultsAssumption DEF Init
<1>1. TypeOK
  <2>1. row \in [Ids -> Status] /\ phone \in [Ids -> Nat] /\ pushed \in [Ids -> Status \union {"none"}]
    BY DEF Status
  <2>2. /\ restarts \in 0..MaxRestarts /\ faults \in 0..MaxFaults /\ mode \in SendModes
        /\ lost \in [Ids -> Nat]
    OBVIOUS
  <2>3. offline \in BOOLEAN /\ stopping \in BOOLEAN
    BY Zenon
  <2>4. pc \in [Handlers -> Steps] /\ op \in [Handlers -> Ops \union {"none"}]
    BY DEF Steps
  <2>5. /\ arg \in [Handlers -> Ids \union {None}]
        /\ val \in [Handlers -> Status \union Codes \union {"none"}]
        /\ liveMu \in Handlers \union {None}
    OBVIOUS
  <2> QED BY <2>1, <2>2, <2>3, <2>4, <2>5 DEF TypeOK
<1>2. LockInv /\ FreshInv
  BY DEF LockInv, InLive, FreshInv
<1>3. ASSUME NEW h \in Handlers PROVE RequestInv(h) /\ ConsentInv(h) /\ LocalsInv(h)
  BY DEF RequestInv, ConsentInv, LocalsInv
<1>4. ASSUME NEW i \in Ids PROVE OnceInv(i) /\ RowInv(i)
  BY DEF OnceInv, RowInv, Terminal
<1> QED BY <1>1, <1>2, <1>3, <1>4 DEF IInv

\* Requests that arrive.
LEMMA RequestIInv ==
  ASSUME IInv, NEW h \in Handlers, Request(h)
  PROVE  IInv'
<1> USE NoneAssumption, MaxRestartsAssumption, MaxFaultsAssumption
        DEF TypeOK, InLive, Ops, Terminal, Status, Codes, Steps, SendModes,
            IInv, daemon, Begin, LockInv, RequestInv, ConsentInv, LocalsInv,
            FreshInv, OnceInv, RowInv, Unrecorded
<1>1. ASSUME NEW i \in Ids, SendText(h, i) PROVE IInv'
  <2> USE <1>1 DEF SendText, Fresh
  <2>1. TypeOK' /\ LockInv'
    OBVIOUS
  \* The new uuid is nobody else's.
  <2>2. FreshInv'
    OBVIOUS
  <2>3. \A g \in Handlers : RequestInv(g)' /\ ConsentInv(g)' /\ LocalsInv(g)'
    OBVIOUS
  <2>4. \A j \in Ids : OnceInv(j)' /\ RowInv(j)'
    OBVIOUS
  <2> QED BY <2>1, <2>2, <2>3, <2>4
<1>2. ASSUME NEW i \in Ids, Approve(h, i) PROVE IInv'
  <2> USE <1>2 DEF Approve
  <2>1. TypeOK' /\ LockInv' /\ FreshInv'
    OBVIOUS
  <2>2. \A g \in Handlers : RequestInv(g)' /\ ConsentInv(g)' /\ LocalsInv(g)'
    OBVIOUS
  <2>3. \A j \in Ids : OnceInv(j)' /\ RowInv(j)'
    OBVIOUS
  <2> QED BY <2>1, <2>2, <2>3
<1>3. ASSUME NEW i \in Ids, Deny(h, i) PROVE IInv'
  BY <1>3 DEF Deny
<1>4. CASE React(h) \/ Live(h)
  <2> USE <1>4 DEF React, Live
  <2>1. TypeOK' /\ LockInv' /\ FreshInv'
    OBVIOUS
  <2>2. \A g \in Handlers : RequestInv(g)' /\ ConsentInv(g)' /\ LocalsInv(g)'
    OBVIOUS
  <2>3. \A j \in Ids : OnceInv(j)' /\ RowInv(j)'
    OBVIOUS
  <2> QED BY <2>1, <2>2, <2>3
<1> QED BY <1>1, <1>2, <1>3, <1>4 DEF Request

\* The steps of send.text up to the lock, approve's first look, and the reply.
LEMMA QueueIInv ==
  ASSUME IInv, NEW h \in Handlers,
         \/ StoreFault(h) \/ CreateApproval(h) \/ ReadNew(h) \/ Announce(h)
         \/ Lookup(h) \/ Return(h)
  PROVE  IInv'
<1> USE NoneAssumption, MaxRestartsAssumption, MaxFaultsAssumption
        DEF TypeOK, InLive, Ops, Terminal, Status, Codes, Steps, SendModes,
            IInv, daemon, Continue, Finish
<1>1. CASE StoreFault(h)
  BY <1>1 DEF StoreFault, LockInv, RequestInv, ConsentInv, LocalsInv,
            FreshInv, OnceInv, RowInv, Unrecorded
<1>2. CASE CreateApproval(h)
  BY <1>2 DEF CreateApproval, LockInv, RequestInv, ConsentInv, LocalsInv,
            FreshInv, OnceInv, RowInv, Unrecorded
<1>3. CASE ReadNew(h)
  BY <1>3 DEF ReadNew, LockInv, RequestInv, ConsentInv, LocalsInv,
            FreshInv, OnceInv, RowInv, Unrecorded
<1>4. CASE Announce(h)
  <2> USE <1>4 DEF Announce
  <2>0. TypeOK'
    BY DEF RequestInv, LocalsInv
  <2>1. LockInv' /\ FreshInv'
    BY DEF LockInv, FreshInv, RequestInv
  <2>2. \A g \in Handlers : RequestInv(g)' /\ ConsentInv(g)'
    BY DEF RequestInv, ConsentInv
  <2>3. \A g \in Handlers : LocalsInv(g)'
    BY DEF RequestInv, LocalsInv
  <2>4. \A i \in Ids : OnceInv(i)'
    BY DEF OnceInv, Unrecorded
  \* The event carries the row as it was read back; one that was resolved by
  \* then has not changed since.
  <2>5. \A i \in Ids : RowInv(i)'
    BY DEF RequestInv, LocalsInv, RowInv
  <2> QED BY <2>0, <2>1, <2>2, <2>3, <2>4, <2>5
<1>5. CASE Lookup(h)
  BY <1>5 DEF Lookup, LockInv, RequestInv, ConsentInv, LocalsInv,
            FreshInv, OnceInv, RowInv, Unrecorded
<1>6. CASE Return(h)
  <2> USE <1>6 DEF Return
  <2>1. TypeOK' /\ LockInv' /\ FreshInv'
    BY DEF LockInv, FreshInv
  <2>2. \A g \in Handlers : RequestInv(g)' /\ ConsentInv(g)'
    BY DEF RequestInv, ConsentInv
  <2>3. \A g \in Handlers : LocalsInv(g)'
    BY DEF RequestInv, LocalsInv
  <2>4. \A i \in Ids : OnceInv(i)' /\ RowInv(i)'
    BY DEF OnceInv, RowInv, Unrecorded
  <2> QED BY <2>1, <2>2, <2>3, <2>4
<1> QED BY <1>1, <1>2, <1>3, <1>4, <1>5, <1>6

\* The critical section of liveMu.
LEMMA LiveIInv ==
  ASSUME IInv, NEW h \in Handlers,
         \/ LockLive(h) \/ Recheck(h) \/ SendRefused(h) \/ SendTaken(h)
         \/ EchoDone(h) \/ Resolve(h) \/ LiveDone(h)
  PROVE  IInv'
<1> USE NoneAssumption, MaxRestartsAssumption, MaxFaultsAssumption
        DEF TypeOK, InLive, Ops, Terminal, Status, Codes, Steps, SendModes,
            IInv, daemon, Continue, Finish
<1>1. CASE LockLive(h)
  BY <1>1 DEF LockLive, LockInv, RequestInv, ConsentInv, LocalsInv,
            FreshInv, OnceInv, RowInv, Unrecorded
<1>2. CASE Recheck(h)
  <2> USE <1>2 DEF Recheck
  <2>1. TypeOK' /\ LockInv' /\ FreshInv'
    BY DEF LockInv, FreshInv, RequestInv
  \* If the row is pending, no send reached the phone since one was last lost: its
  \* sender would still own liveMu.
  <2>2. ASSUME row[arg[h]] = "pending" PROVE phone[arg[h]] <= lost[arg[h]]
    <3>1. arg[h] \in Ids
      BY DEF RequestInv
    <3>2. \A g \in Handlers : pc[g] \notin {"echo", "resolve"}
      BY DEF LockInv
    <3> QED BY <2>2, <3>1, <3>2 DEF OnceInv, Unrecorded
  <2>3. \A g \in Handlers : RequestInv(g)' /\ ConsentInv(g)'
    BY DEF RequestInv, ConsentInv
  <2>4. \A g \in Handlers : LocalsInv(g)'
    BY <2>2 DEF RequestInv, LocalsInv
  <2>5. \A i \in Ids : OnceInv(i)' /\ RowInv(i)'
    BY DEF OnceInv, RowInv, Unrecorded
  <2> QED BY <2>1, <2>3, <2>4, <2>5
<1>3. CASE SendRefused(h)
  BY <1>3 DEF SendRefused, LockInv, RequestInv, ConsentInv, LocalsInv,
            FreshInv, OnceInv, RowInv, Unrecorded
<1>4. CASE SendTaken(h)
  <2> USE <1>4 DEF SendTaken
  <2>1. /\ arg[h] \in Ids
        /\ arg[h] \in consented
        /\ phone[arg[h]] <= lost[arg[h]]
        /\ phone' = [phone EXCEPT ![arg[h]] = phone[arg[h]] + 1]
    BY DEF RequestInv, ConsentInv, LocalsInv
  <2>2. TypeOK' /\ LockInv' /\ FreshInv'
    BY <2>1 DEF LockInv, FreshInv
  <2>3. \A g \in Handlers : RequestInv(g)' /\ ConsentInv(g)'
    BY DEF RequestInv, ConsentInv
  \* No other handler is about to send: it would own liveMu.
  <2>4. \A g \in Handlers : LocalsInv(g)'
    BY <2>1 DEF LockInv, RequestInv, LocalsInv
  <2>5. \A i \in Ids : OnceInv(i)' /\ RowInv(i)'
    BY <2>1 DEF OnceInv, RowInv, Unrecorded
  <2> QED BY <2>2, <2>3, <2>4, <2>5
<1>5. CASE EchoDone(h)
  BY <1>5 DEF EchoDone, LockInv, RequestInv, ConsentInv, LocalsInv,
            FreshInv, OnceInv, RowInv, Unrecorded
<1>6. CASE Resolve(h)
  BY <1>6 DEF Resolve, ResolveApproval, LockInv, RequestInv, ConsentInv, LocalsInv,
            FreshInv, OnceInv, RowInv, Unrecorded
<1>7. CASE LiveDone(h)
  BY <1>7 DEF LiveDone, LockInv, RequestInv, ConsentInv, LocalsInv,
            FreshInv, OnceInv, RowInv, Unrecorded
<1> QED BY <1>1, <1>2, <1>3, <1>4, <1>5, <1>6, <1>7

\* approvals.deny and the common end of deny and send.
LEMMA SettleIInv ==
  ASSUME IInv, NEW h \in Handlers, DenyResolve(h) \/ Reread(h) \/ Push(h)
  PROVE  IInv'
<1> USE NoneAssumption, MaxRestartsAssumption, MaxFaultsAssumption
        DEF TypeOK, InLive, Ops, Terminal, Status, Codes, Steps, SendModes,
            IInv, daemon, Continue, Finish, LockInv, RequestInv, ConsentInv, LocalsInv,
            FreshInv, OnceInv, RowInv, Unrecorded
<1>1. CASE DenyResolve(h)
  BY <1>1 DEF DenyResolve, ResolveApproval
<1>2. CASE Reread(h)
  BY <1>2 DEF Reread
<1>3. CASE Push(h)
  BY <1>3 DEF Push
<1> QED BY <1>1, <1>2, <1>3

\* The daemon's end and rebirth, and stuttering.
LEMMA DaemonIInv ==
  ASSUME IInv, Stop \/ Restart \/ UNCHANGED vars
  PROVE  IInv'
<1> USE NoneAssumption, MaxRestartsAssumption, MaxFaultsAssumption
        DEF TypeOK, InLive, Ops, Terminal, Status, Codes, Steps, SendModes,
            IInv, LockInv, RequestInv, ConsentInv, LocalsInv,
            FreshInv, OnceInv, RowInv, Unrecorded
<1>1. CASE Stop
  BY <1>1 DEF Stop
<1>2. CASE Restart
  <2> USE <1>2 DEF Restart
  <2>1. TypeOK'
    <3>1. /\ restarts' \in 0..MaxRestarts /\ faults' \in 0..MaxFaults /\ mode' \in SendModes
          /\ lost' \in [Ids -> Nat]
      OBVIOUS
    <3>2. offline' \in BOOLEAN /\ stopping' \in BOOLEAN
      BY Zenon
    <3>3. /\ row' \in [Ids -> Status] /\ phone' \in [Ids -> Nat] /\ consented' \in SUBSET Ids
          /\ pushed' \in [Ids -> Status \union {"none"}]
      OBVIOUS
    <3>4. /\ liveMu' \in Handlers \union {None}
          /\ pc' \in [Handlers -> Steps]
          /\ op' \in [Handlers -> Ops \union {"none"}]
          /\ arg' \in [Handlers -> Ids \union {None}]
          /\ val' \in [Handlers -> Status \union Codes \union {"none"}]
      OBVIOUS
    <3> QED BY <3>1, <3>2, <3>3, <3>4
  <2>2. LockInv' /\ FreshInv'
    OBVIOUS
  <2>3. \A g \in Handlers : RequestInv(g)' /\ ConsentInv(g)' /\ LocalsInv(g)'
    OBVIOUS
  <2>4. \A i \in Ids : OnceInv(i)' /\ RowInv(i)'
    OBVIOUS
  <2> QED BY <2>1, <2>2, <2>3, <2>4
<1>3. CASE UNCHANGED vars
  BY <1>3 DEF vars
<1> QED BY <1>1, <1>2, <1>3

LEMMA NextIInv == IInv /\ [Next]_vars => IInv'
<1> SUFFICES ASSUME IInv, [Next]_vars PROVE IInv'
  OBVIOUS
<1>1. ASSUME NEW h \in Handlers, Request(h) PROVE IInv'
  BY <1>1, RequestIInv
<1>2. ASSUME NEW h \in Handlers, LockLive(h) \/ HandlerStep(h) \/ PhoneStep(h) PROVE IInv'
  <2>1. CASE \/ StoreFault(h) \/ CreateApproval(h) \/ ReadNew(h) \/ Announce(h)
             \/ Lookup(h) \/ Return(h)
    BY <2>1, QueueIInv
  <2>2. CASE \/ LockLive(h) \/ Recheck(h) \/ SendRefused(h) \/ SendTaken(h)
             \/ EchoDone(h) \/ Resolve(h) \/ LiveDone(h)
    BY <2>2, LiveIInv
  <2>3. CASE DenyResolve(h) \/ Reread(h) \/ Push(h)
    BY <2>3, SettleIInv
  <2> QED BY <1>2, <2>1, <2>2, <2>3 DEF HandlerStep, PhoneStep
<1>3. CASE Stop \/ Restart \/ UNCHANGED vars
  BY <1>3, DaemonIInv
<1> QED BY <1>1, <1>2, <1>3 DEF Next

LEMMA Invariance == Spec => []IInv
BY InitIInv, NextIInv, PTL DEF Spec

-----------------------------------------------------------------------------
(***************************************************************************)
(* What the invariant is for.                                              *)
(***************************************************************************)

\* Every variable keeps its type.
THEOREM TypeCorrect == Spec => []TypeOK
<1>1. IInv => TypeOK
  BY DEF IInv
<1> QED BY <1>1, Invariance, PTL

\* The phone takes a message again only after a sender of it ended without a record,
\* however many clients approve it at once (performApprovedSend).
THEOREM AtMostOnce == Spec => []ResentOnlyIfUnrecorded
<1>1. IInv => ResentOnlyIfUnrecorded
  BY DEF IInv, OnceInv, ResentOnlyIfUnrecorded
<1> QED BY <1>1, Invariance, PTL

\* The phone takes only what somebody asked it to send.
THEOREM Consent == Spec => []HumanInTheLoop
<1>1. IInv => HumanInTheLoop
  BY DEF IInv, RowInv, HumanInTheLoop
<1> QED BY <1>1, Invariance, PTL

\* Replies and the sent status tell the truth about the row and the phone.
THEOREM TrueReplies == Spec => []RepliesAreTrue
<1>1. IInv => RepliesAreTrue
  BY DEF IInv, LocalsInv, RowInv, RepliesAreTrue
<1> QED BY <1>1, Invariance, PTL

\* Nobody but a deny takes the row from a sender, however the store fails.
THEOREM CleanLoss == Spec => []OnlyDenyOvertakes
<1>1. IInv => OnlyDenyOvertakes
  BY DEF IInv, LocalsInv, OnlyDenyOvertakes
<1> QED BY <1>1, Invariance, PTL

\* approval.resolved carries the row's final status.
THEOREM FinalEvents == Spec => []EventsAreFinal
<1>1. IInv => EventsAreFinal
  BY DEF IInv, RowInv, EventsAreFinal
<1> QED BY <1>1, Invariance, PTL

-----------------------------------------------------------------------------
(***************************************************************************)
(* Steps: every step of the queue is a step of the outbox.                 *)
(***************************************************************************)

LEMMA BoxInit == Init => Box!Init
BY DEF Init, Box!Init

LEMMA BoxRequest ==
  ASSUME IInv, NEW h \in Handlers, Request(h)
  PROVE  [Box!Next]_<<row, phone, consented>>
<1>1. UNCHANGED <<row, phone>>
  BY DEF Request, SendText, Approve, Deny, React, Live, Begin
<1>2. consented' = consented \/ \E i \in Ids : consented' = consented \union {i}
  BY DEF Request, SendText, Approve, Deny, React, Live
<1> QED BY <1>1, <1>2 DEF Box!Next, Box!Consent

\* An insert is a Propose, an UPDATE is a Settle.
LEMMA BoxRow ==
  ASSUME IInv, NEW h \in Handlers, CreateApproval(h) \/ Resolve(h) \/ DenyResolve(h)
  PROVE  [Box!Next]_<<row, phone, consented>>
<1> USE DEF IInv, TypeOK, RequestInv
<1>1. CASE CreateApproval(h)
  <2>1. arg[h] \in Ids /\ Box!Propose(arg[h])
    BY <1>1 DEF CreateApproval, LocalsInv, Box!Propose, daemon
  <2> QED BY <2>1 DEF Box!Next
<1>2. CASE Resolve(h)
  <2>1. arg[h] \in Ids /\ arg[h] \in consented /\ val[h] \in Box!Terminal
    BY <1>2 DEF Resolve, ConsentInv, LocalsInv, Box!Terminal
  <2>2. Box!Settle(arg[h], val[h]) \/ UNCHANGED <<row, phone, consented>>
    BY <1>2, <2>1 DEF Resolve, ResolveApproval, LocalsInv, Box!Settle
  <2> QED BY <2>1, <2>2 DEF Box!Next
<1>3. CASE DenyResolve(h)
  <2>1. arg[h] \in Ids /\ "denied" \in Box!Terminal
    BY <1>3 DEF DenyResolve, Box!Terminal
  <2>2. Box!Settle(arg[h], "denied") \/ UNCHANGED <<row, phone, consented>>
    BY <1>3 DEF DenyResolve, ResolveApproval, Box!Settle
  <2> QED BY <2>1, <2>2 DEF Box!Next
<1> QED BY <1>1, <1>2, <1>3

\* The phone taking a message is a Transmit.
LEMMA BoxTaken ==
  ASSUME IInv, NEW h \in Handlers, SendTaken(h)
  PROVE  [Box!Next]_<<row, phone, consented>>
<1>1. arg[h] \in Ids /\ Box!Transmit(arg[h])
  BY DEF IInv, TypeOK, RequestInv, ConsentInv, LocalsInv, SendTaken, Box!Transmit
<1> QED BY <1>1 DEF Box!Next

\* All other steps leave the table and the phone alone.
LEMMA BoxStutter ==
  ASSUME NEW h \in Handlers,
         \/ StoreFault(h) \/ ReadNew(h) \/ Announce(h) \/ Lookup(h) \/ LockLive(h)
         \/ Recheck(h) \/ SendRefused(h) \/ EchoDone(h) \/ Reread(h) \/ Push(h)
         \/ LiveDone(h) \/ Return(h)
  PROVE  UNCHANGED <<row, phone, consented>>
BY DEF StoreFault, ReadNew, Announce, Lookup, LockLive, Recheck, SendRefused,
       EchoDone, Reread, Push, LiveDone, Return

LEMMA BoxNext == IInv /\ [Next]_vars => [Box!Next]_<<row, phone, consented>>
<1> SUFFICES ASSUME IInv, [Next]_vars PROVE [Box!Next]_<<row, phone, consented>>
  OBVIOUS
<1>1. ASSUME NEW h \in Handlers, Request(h) \/ LockLive(h) \/ HandlerStep(h) \/ PhoneStep(h)
      PROVE  [Box!Next]_<<row, phone, consented>>
  BY <1>1, BoxRequest, BoxRow, BoxTaken, BoxStutter DEF HandlerStep, PhoneStep
<1>2. CASE Stop \/ Restart \/ UNCHANGED vars
  BY <1>2 DEF Stop, Restart, vars
<1> QED BY <1>1, <1>2 DEF Next

\* The queue implements the outbox, whose Next says when a row may change and
\* when the phone may take a message.
THEOREM Refinement == Spec => ImplementsOutbox
BY Invariance, BoxInit, BoxNext, PTL DEF Spec, ImplementsOutbox, Box!Spec, Box!vars

\* A resolved row never changes again.
THEOREM Terminals == Spec => TerminalForever
<1>1. IInv /\ [Next]_vars => [\A i \in Ids : row[i] \in Terminal => row'[i] = row[i]]_vars
  <2> SUFFICES ASSUME IInv, [Box!Next]_<<row, phone, consented>>
               PROVE  \A i \in Ids : row[i] \in Terminal => row'[i] = row[i]
    BY BoxNext
  <2> QED BY DEF IInv, TypeOK, Terminal, Box!Next, Box!Propose, Box!Consent,
                 Box!Transmit, Box!Settle, Box!Terminal
<1> QED BY <1>1, Invariance, PTL DEF Spec, TerminalForever

\* Nothing is transmitted for a row that was sent or has failed.
THEOREM NoLateSend == Spec => NoSendAfterOutcome
<1>1. IInv /\ [Next]_vars =>
        [\A i \in Ids : phone'[i] # phone[i] => row[i] \in {"pending", "denied"}]_vars
  <2> SUFFICES ASSUME IInv, [Box!Next]_<<row, phone, consented>>
               PROVE  \A i \in Ids : phone'[i] # phone[i] => row[i] \in {"pending", "denied"}
    BY BoxNext
  <2> QED BY DEF IInv, TypeOK, Box!Next, Box!Propose, Box!Consent, Box!Transmit, Box!Settle
<1> QED BY <1>1, Invariance, PTL DEF Spec, NoSendAfterOutcome
=============================================================================
