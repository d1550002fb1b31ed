--------------------------- MODULE MCSubscribers ----------------------------
(***************************************************************************)
(* The daemon, whose sends (settings, then echo) are serialised by liveMu. *)
(* With Permanent <- CliStayers, Callers = {waiter, s1}, Script <-         *)
(* CliScript and Exclusive = FALSE it is `gmcli send`, where WaitForReady  *)
(* runs in a goroutine of its own beside the send.                         *)
(***************************************************************************)
EXTENDS Subscribers

CONSTANTS pump, broadcaster, waiter, s1, s2

DaemonStayers == <<pump, broadcaster>>
CliStayers == <<pump>>

SendScript == <<"settings", "echo">>
DaemonScript == [c \in {s1, s2} |-> SendScript]
CliScript == [c \in {waiter, s1} |-> IF c = waiter THEN <<"ready">> ELSE SendScript]
=============================================================================
