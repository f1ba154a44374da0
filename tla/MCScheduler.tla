---------------------------- MODULE MCScheduler ----------------------------
(***************************************************************************)
(* Instances of Scheduler for TLC.                                         *)
(***************************************************************************)
EXTENDS Scheduler, TLC

\* A row as create_monitor leaves it at time 0: both schedules it has are
\* due at once.
Row(mode, interval, keep_alive_interval) ==
  LET enabled == mode \in keep_alive_modes IN
  [mode |-> mode, keep_alive_enabled |-> enabled,
   keep_alive_interval_seconds |-> keep_alive_interval, keep_alive_path |-> NULL,
   check_interval_seconds |-> interval, status |-> "pending",
   last_checked_at |-> NULL, next_check_at |-> 0,
   next_keep_alive_at |-> IF enabled THEN 0 ELSE NULL]

\* Every mode, with the two intervals the other way round.
MixedRows == {Row("monitor", 2, NULL), Row("monitor_and_keep_alive", 3, 2),
              Row("keep_alive", 2, 3)}

\* One row with keep-alive on and no interval, which the keep-alive loop skips
\* for ever (MonitorApi shows how racing updates make one), two that share
\* its batches, and a health check before them.
SharedTable == <<Row("keep_alive", 2, NULL), Row("keep_alive", 2, 2),
                 Row("monitor_and_keep_alive", 2, 2)>>
SharedRows  == {SharedTable[m] : m \in DOMAIN SharedTable}

\* FairSpec from that table alone.
SharedInit     == monitors = SharedTable /\ Init
SharedFairSpec == SharedInit /\ [][Next]_vars /\ Fairness

\* Any worker may run a sweep.
SweepSymmetry == Permutations(Sweeps)
=============================================================================
