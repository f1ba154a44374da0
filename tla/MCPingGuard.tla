---------------------------- MODULE MCPingGuard ----------------------------
(***************************************************************************)
(* An instance of PingGuard for TLC.                                       *)
(***************************************************************************)
EXTENDS PingGuard, TLC

\* A keep-alive, which an update turns into a health check and back.
KeepAliveRow ==
  [mode |-> "keep_alive", keep_alive_enabled |-> TRUE, keep_alive_interval_seconds |-> 2,
   keep_alive_path |-> NULL, check_interval_seconds |-> 3, status |-> "pending",
   last_checked_at |-> NULL, next_check_at |-> 0, next_keep_alive_at |-> 0]
Rows == {KeepAliveRow}

OmitAll == [mode |-> Unset, keep_alive_enabled |-> Unset,
            keep_alive_interval_seconds |-> Unset, keep_alive_path |-> Unset,
            check_interval_seconds |-> Unset]
Updates ==
  {[OmitAll EXCEPT !.keep_alive_enabled = FALSE, !.check_interval_seconds = 2],
   [OmitAll EXCEPT !.keep_alive_enabled = TRUE, !.mode = "keep_alive",
                   !.keep_alive_interval_seconds = 2]}

SweepSymmetry == Permutations(Sweeps)
=============================================================================
