---------------------------- MODULE MCProbeTask ----------------------------
(***************************************************************************)
(* Instances of ProbeTask for TLC.                                         *)
(***************************************************************************)
EXTENDS ProbeTask, TLC

\* A monitor that has both checks, as create_monitor leaves it.
BothChecks ==
  [mode |-> "monitor_and_keep_alive", keep_alive_enabled |-> TRUE,
   keep_alive_interval_seconds |-> 1, keep_alive_path |-> NULL,
   check_interval_seconds |-> 1, status |-> "pending", last_checked_at |-> NULL,
   next_check_at |-> 0, next_keep_alive_at |-> 0]
OneMonitor == 1 :> BothChecks
SlowMonitor == 1 :> [BothChecks EXCEPT !.check_interval_seconds = 4, !.keep_alive_interval_seconds = 4]

Up      == [outcome |-> "up", transient |-> FALSE]
Down    == [outcome |-> "down", transient |-> FALSE]
Timeout == [outcome |-> "unreachable", transient |-> TRUE]

\* A flaky target, and one that never answers in time.
UpOrTimeout == {Up, Timeout}
UpOrDown    == {Up, Down}
OnlyTimeout == {Timeout}

WorkerSymmetry == Permutations(Workers)
=============================================================================
