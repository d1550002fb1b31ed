----------------------------- MODULE MCIdleExit -----------------------------
(***************************************************************************)
(* A claim about the idle timer that the daemon does not keep.             *)
(***************************************************************************)
EXTENDS IdleExit

\* Ticks since the last client was there, or since the start (history).
VARIABLE quiet

QuietInit == Init /\ quiet = 0

QuietNext ==
  /\ Next
  /\ quiet' = IF conns' # {} THEN 0 ELSE IF Tick /\ quiet < Period THEN quiet + 1 ELSE quiet

QuietSpec == QuietInit /\ [][QuietNext]_<<vars, quiet>>

\* "Idle fires once when the server has been client-free for Deps.IdleExit"
\* (internal/rpc/server.go:113): a whole period, and not only at the time.
FiresAfterPeriod == [][idleFired' /\ ~idleFired => quiet = Period]_<<vars, quiet>>
=============================================================================
