---------------------------- MODULE MonitorModel ----------------------------
(***************************************************************************)
(* The data every PingGuard process shares: the rows of the `monitors`     *)
(* table (app/models.py), the enumerations (app/enums.py), the rules that  *)
(* tie a row's mode to its keep-alive columns (app/schemas.py) and the     *)
(* messages the Celery broker carries (app/tasks.py).  No variables: the   *)
(* state machines that share these definitions EXTEND this module.         *)
(***************************************************************************)
EXTENDS Integers, FiniteSets

CONSTANTS
  NULL,       \* Python's None, SQL's NULL, JSON's null
  Unset,      \* a field the client left out of a PATCH/PUT body
  Intervals,  \* the interval lengths a client may ask for, in clock ticks
  Paths       \* the relative keep-alive paths a client may ask for

ASSUME IntervalAssumption == Intervals \subseteq Nat \ {0}
ASSUME NullAssumption == NULL \notin Int /\ Unset \notin Int /\ NULL # Unset

-----------------------------------------------------------------------------
(* Enumerations *)

MonitorStatus == {"up", "degraded", "down", "pending"}
MonitorMode   == {"monitor", "keep_alive", "monitor_and_keep_alive"}
PingOutcome   == {"up", "degraded", "down", "unreachable"}
CheckType     == {"monitor", "keep_alive"}

monitoring_modes == {"monitor", "monitor_and_keep_alive"}
keep_alive_modes == {"keep_alive", "monitor_and_keep_alive"}

\* OUTCOME_TO_STATUS: a target that cannot be reached counts as down.
outcome_to_status(outcome) == IF outcome = "unreachable" THEN "down" ELSE outcome

-----------------------------------------------------------------------------
(* Rows of the monitors table.  name and url select nothing here: name is  *)
(* a NOT NULL column like check_interval_seconds, url cannot be updated.   *)

Monitor ==
  [mode                        : MonitorMode,
   keep_alive_enabled          : BOOLEAN,
   keep_alive_interval_seconds : Intervals \cup {NULL},
   keep_alive_path             : Paths \cup {NULL},
   check_interval_seconds      : Intervals,
   status                      : MonitorStatus,
   last_checked_at             : Nat \cup {NULL},
   next_check_at               : Nat,
   next_keep_alive_at          : Nat \cup {NULL}]

\* The rule shared by the create schema, the update schema and the merged
\* row of an update.  An argument that is NULL is one Python passed as None.
validate_keep_alive_rules(mode, enabled, interval, path, check_path_on_disable) ==
  /\ mode = "monitor" => enabled # TRUE
  /\ mode \in keep_alive_modes => enabled # FALSE
  /\ enabled = TRUE => interval # NULL
  /\ enabled = FALSE => /\ interval = NULL
                        /\ check_path_on_disable => path = NULL

Consistent(row) ==
  validate_keep_alive_rules(row.mode, row.keep_alive_enabled,
                            row.keep_alive_interval_seconds,
                            row.keep_alive_path, TRUE)

-----------------------------------------------------------------------------
(* The two independent schedules of a row, one per check type. *)

NextAt(row, kind) ==
  IF kind = "monitor" THEN row.next_check_at ELSE row.next_keep_alive_at

WithNextAt(row, kind, t) ==
  IF kind = "monitor" THEN [row EXCEPT !.next_check_at = t]
                      ELSE [row EXCEPT !.next_keep_alive_at = t]

IntervalOf(row, kind) ==
  IF kind = "monitor" THEN row.check_interval_seconds
                      ELSE row.keep_alive_interval_seconds

\* Mutant: the WHERE clause forgets that the row must be due.
DueEarly(row, kind, now) ==
  /\ kind = "monitor"    => row.mode \in monitoring_modes
  /\ kind = "keep_alive" => row.keep_alive_enabled /\ row.mode \in keep_alive_modes
  /\ NextAt(row, kind) # NULL

\* The WHERE clause of each sweep: eligible for this schedule and due at now.
Due(row, kind, now) ==
  /\ kind = "monitor"    => row.mode \in monitoring_modes
  /\ kind = "keep_alive" => row.keep_alive_enabled /\ row.mode \in keep_alive_modes
  /\ NextAt(row, kind) # NULL
  /\ NextAt(row, kind) <= now

-----------------------------------------------------------------------------
(* A task message: execute_ping ("monitor") or execute_keep_alive.  task is *)
(* the Celery task id, which retries and redeliveries keep; expires is an  *)
(* absolute time, NULL for a message sent without expiry.                  *)

Message == [task : Nat, kind : CheckType, mon : Nat, retries : Nat,
            eta : Nat, expires : Nat \cup {NULL}]

NewMessage(id, kind, mon, now, expires) ==
  [task |-> id, kind |-> kind, mon |-> mon, retries |-> 0, eta |-> now,
   expires |-> expires]

Expired(msg, now) == msg.expires # NULL /\ msg.expires < now
=============================================================================
