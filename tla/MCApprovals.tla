---------------------------- MODULE MCApprovals -----------------------------
(***************************************************************************)
(* Claims about the approval queue that the daemon does not keep.          *)
(***************************************************************************)
EXTENDS Approvals

\* "Deny a queued message -- nothing is sent" (internal/cmd/approvals.go:130):
\* the phone never took a message whose row says denied.
DeniedIsNotSent ==
  mode = "approve" => \A i \in Ids : row[i] = "denied" => phone[i] = 0

\* "liveMu makes double-approve races lose cleanly: the second caller finds the row no
\* longer pending" (internal/rpc/handlers.go:831): in one life of the
\* daemon no approval is sent twice.
DoubleApproveLosesCleanly == \A i \in Ids : restarts = 0 => phone[i] <= 1
=============================================================================
