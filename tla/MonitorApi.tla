----------------------------- MODULE MonitorApi -----------------------------
(***************************************************************************)
(* The write side of the monitors API (app/main.py) over the monitors      *)
(* table.  FastAPI runs the handlers of one process concurrently: a        *)
(* handler gives up control at each await of the database, so what it read *)
(* may be stale when its commit reaches PostgreSQL.  Every handler is two  *)
(* steps, the read with all the code up to the next await, and the commit  *)
(* (or the publish).  A refused request (404, 409, 422, or the 500 of an   *)
(* explicit null mode) ends in its first step without changing anything    *)
(* and is not an action.                                                   *)
(***************************************************************************)
EXTENDS MonitorModel

CONSTANTS
  Requests,        \* request handlers that may be in progress together
  max_monitors,
  CreatePayloads,  \* bodies of POST
  UpdatePayloads,  \* bodies of PATCH and PUT
  MaxId,           \* bound: ids the monitors sequence hands out
  MaxTasks,        \* bound: on-demand checks published
  MaxClock         \* bound: the clock stops here

VARIABLES
  clock,     \* the time datetime.now(UTC) returns
  monitors,  \* the monitors table: id -> row, for the ids present
  next_id,   \* the id sequence, which a rollback does not wind back
  queue,     \* messages published
  sent,      \* how many messages were published: the next task id
  session    \* what each handler carries from its read to its commit

vars == <<clock, monitors, next_id, queue, sent, session>>

-----------------------------------------------------------------------------
(* Request bodies, as the schemas admit them. *)

MonitorCreate ==
  {p \in [mode : MonitorMode, keep_alive_enabled : BOOLEAN,
          keep_alive_interval_seconds : Intervals \cup {NULL},
          keep_alive_path : Paths \cup {NULL}, check_interval_seconds : Intervals] :
     validate_keep_alive_rules(p.mode, p.keep_alive_enabled,
                               p.keep_alive_interval_seconds, p.keep_alive_path, TRUE)}

\* A field the client left out reads as None in the schema's own validation.
OrNone(field) == IF field = Unset THEN NULL ELSE field

MonitorUpdate ==
  {p \in [mode : MonitorMode \cup {NULL, Unset},
          keep_alive_enabled : BOOLEAN \cup {NULL, Unset},
          keep_alive_interval_seconds : Intervals \cup {NULL, Unset},
          keep_alive_path : Paths \cup {NULL, Unset},
          check_interval_seconds : Intervals \cup {NULL, Unset}] :
     validate_keep_alive_rules(OrNone(p.mode), OrNone(p.keep_alive_enabled),
                               OrNone(p.keep_alive_interval_seconds),
                               OrNone(p.keep_alive_path), FALSE)}

ASSUME ApiAssumption ==
  /\ IsFiniteSet(Requests) /\ Requests # {}
  /\ max_monitors \in Nat \ {0}
  /\ CreatePayloads \subseteq MonitorCreate /\ UpdatePayloads \subseteq MonitorUpdate
  /\ MaxId \in Nat /\ MaxTasks \in Nat /\ MaxClock \in Nat

-----------------------------------------------------------------------------
(* What create and update compute before their commit. *)

NewRow(p, now) ==
  [mode |-> p.mode, keep_alive_enabled |-> p.keep_alive_enabled,
   keep_alive_interval_seconds |-> p.keep_alive_interval_seconds,
   keep_alive_path |-> p.keep_alive_path,
   check_interval_seconds |-> p.check_interval_seconds,
   status |-> "pending", last_checked_at |-> NULL, next_check_at |-> now,
   next_keep_alive_at |-> IF p.keep_alive_enabled THEN now ELSE NULL]

OrElse(field, default) == IF field = Unset THEN default ELSE field

\* keep_alive_enabled=False also clears what the client did not mention.
FillIn(p, row) ==
  IF p.keep_alive_enabled = FALSE
  THEN [p EXCEPT !.keep_alive_interval_seconds = OrElse(@, NULL),
                 !.keep_alive_path = OrElse(@, NULL),
                 !.mode = IF row.mode # "monitor" THEN OrElse(@, "monitor") ELSE @]
  ELSE p

\* The row with the client's fields over it.
Merged(p, row) ==
  LET data == FillIn(p, row) IN
  [row EXCEPT !.mode = OrElse(data.mode, @),
              !.keep_alive_enabled = OrElse(data.keep_alive_enabled, @),
              !.keep_alive_interval_seconds = OrElse(data.keep_alive_interval_seconds, @),
              !.keep_alive_path = OrElse(data.keep_alive_path, @),
              !.check_interval_seconds = OrElse(data.check_interval_seconds, @)]

Accepted(p, row) == Merged(p, row).mode # NULL /\ Consistent(Merged(p, row))

\* Mutant: the clock is started but never stopped.
SyncKeepAliveOn(row, now) ==
  [row EXCEPT !.next_keep_alive_at =
     IF row.keep_alive_enabled = TRUE /\ @ = NULL THEN now ELSE @]

\* The keep-alive clock follows the flag; a null flag counts as off.
SyncKeepAlive(row, now) ==
  [row EXCEPT !.next_keep_alive_at =
     IF row.keep_alive_enabled # TRUE THEN NULL ELSE IF @ = NULL THEN now ELSE @]

\* Mutant: an update makes the health check due at once.
UpdatedRestartsCheck(p, row, now) ==
  [SyncKeepAlive(Merged(p, row), now) EXCEPT !.next_check_at = now]

\* Mutant: an update starts a new interval of the health check.
UpdatedPostponesCheck(p, row, now) ==
  [SyncKeepAlive(Merged(p, row), now) EXCEPT !.next_check_at = now + row.check_interval_seconds]

Updated(p, row, now) == SyncKeepAlive(Merged(p, row), now)

\* The session's UPDATE names only the columns whose value the handler changed.
Changes(old, new) == [c \in {c \in DOMAIN old : new[c] # old[c]} |-> new[c]]
Write(row, changes) ==
  [c \in DOMAIN row |-> IF c \in DOMAIN changes THEN changes[c] ELSE row[c]]

\* NOT NULL columns a client can try to null.
Storable(changes) ==
  \A c \in DOMAIN changes \cap {"check_interval_seconds", "keep_alive_enabled"} :
    changes[c] # NULL

-----------------------------------------------------------------------------
Idle == [op |-> "idle"]
End(r) == session' = [session EXCEPT ![r] = Idle]

Init ==
  /\ clock = 0
  /\ monitors = [i \in {} |-> {}]
  /\ next_id = 1
  /\ queue = {} /\ sent = 0
  /\ session = [r \in Requests |-> Idle]

\* Mutant: the comparison with the cap is off by one.
BelowCapOffByOne == Cardinality(DOMAIN monitors) <= max_monitors

BelowCap == Cardinality(DOMAIN monitors) < max_monitors

\* POST: count the rows, then build the new one.
CreateCount(r) ==
  /\ session[r].op = "idle" /\ BelowCap
  /\ \E p \in CreatePayloads :
       session' = [session EXCEPT ![r] = [op |-> "create", row |-> NewRow(p, clock)]]
  /\ UNCHANGED <<clock, monitors, next_id, queue, sent>>

\* Mutant: the insert does not take its id from the sequence.
nextvalUnmoved == next_id

\* The sequence behind the autoincremented id.
nextval == next_id + 1

CreateCommit(r) ==
  /\ session[r].op = "create"
  /\ next_id <= MaxId
  /\ monitors' = [i \in DOMAIN monitors \cup {next_id} |->
                    IF i = next_id THEN session[r].row ELSE monitors[i]]
  /\ next_id' = nextval
  /\ End(r)
  /\ UNCHANGED <<clock, queue, sent>>

\* PATCH and PUT: read, merge, validate and compute the UPDATE.
UpdateGet(r) ==
  /\ session[r].op = "idle"
  /\ \E i \in DOMAIN monitors, p \in UpdatePayloads :
       /\ Accepted(p, monitors[i])
       /\ session' = [session EXCEPT ![r] =
            [op |-> "update", id |-> i,
             changes |-> Changes(monitors[i], Updated(p, monitors[i], clock))]]
  /\ UNCHANGED <<clock, monitors, next_id, queue, sent>>

\* Mutant: the commit is an upsert and does not notice that the row is gone.
UpdateCommitUpserts(r) ==
  /\ session[r].op = "update"
  /\ Storable(session[r].changes)
  /\ LET default == NewRow(CHOOSE p \in CreatePayloads : TRUE, clock)
         old == IF session[r].id \in DOMAIN monitors THEN monitors[session[r].id] ELSE default
     IN monitors' = [i \in DOMAIN monitors \cup {session[r].id} |->
          IF i = session[r].id THEN Write(old, session[r].changes) ELSE monitors[i]]
  /\ End(r)
  /\ UNCHANGED <<clock, next_id, queue, sent>>

UpdateCommit(r) ==
  /\ session[r].op = "update"
  /\ session[r].id \in DOMAIN monitors
  /\ Storable(session[r].changes)
  /\ monitors' = [monitors EXCEPT ![session[r].id] = Write(@, session[r].changes)]
  /\ End(r)
  /\ UNCHANGED <<clock, next_id, queue, sent>>

\* DELETE: read, then delete whatever row has that id by now.
DeleteGet(r) ==
  /\ session[r].op = "idle"
  /\ \E i \in DOMAIN monitors :
       session' = [session EXCEPT ![r] = [op |-> "delete", id |-> i]]
  /\ UNCHANGED <<clock, monitors, next_id, queue, sent>>

DeleteCommit(r) ==
  /\ session[r].op = "delete"
  /\ monitors' = [i \in DOMAIN monitors \ {session[r].id} |-> monitors[i]]
  /\ End(r)
  /\ UNCHANGED <<clock, next_id, queue, sent>>

\* POST .../check: read, give the connection back, publish without expiry.
CheckGet(r) ==
  /\ session[r].op = "idle"
  /\ \E i \in DOMAIN monitors :
       session' = [session EXCEPT ![r] = [op |-> "check", id |-> i]]
  /\ UNCHANGED <<clock, monitors, next_id, queue, sent>>

CheckEnqueue(r) ==
  /\ session[r].op = "check"
  /\ sent < MaxTasks
  /\ queue' = queue \cup {NewMessage(sent, "monitor", session[r].id, clock, NULL)}
  /\ sent' = sent + 1
  /\ End(r)
  /\ UNCHANGED <<clock, monitors, next_id>>

\* The request ends without its second step: the client went away, the
\* database or the broker refused, the row of the UPDATE is gone, or a NOT
\* NULL column would be null.  The transaction rolls back; a failed INSERT may
\* have taken an id from the sequence.
Abort(r) ==
  /\ session[r].op # "idle"
  /\ next_id' \in {next_id} \cup
       (IF session[r].op = "create" /\ next_id <= MaxId THEN {next_id + 1} ELSE {})
  /\ End(r)
  /\ UNCHANGED <<clock, monitors, queue, sent>>

Tick ==
  /\ clock < MaxClock
  /\ clock' = clock + 1
  /\ UNCHANGED <<monitors, next_id, queue, sent, session>>

Next == \/ Tick
        \/ \E r \in Requests :
             \/ CreateCount(r) \/ CreateCommit(r) \/ UpdateGet(r) \/ UpdateCommit(r)
             \/ DeleteGet(r) \/ DeleteCommit(r) \/ CheckGet(r) \/ CheckEnqueue(r)
             \/ Abort(r)

Spec == Init /\ [][Next]_vars

-----------------------------------------------------------------------------
(* Properties *)

Creating == {r \in Requests : session[r].op = "create"}

TypeOK ==
  /\ clock \in Nat /\ next_id \in Nat \ {0} /\ sent \in Nat
  /\ DOMAIN monitors \subseteq 1..(next_id - 1)
  /\ \A i \in DOMAIN monitors : monitors[i] \in Monitor
  /\ queue \subseteq Message
  /\ DOMAIN session = Requests
  /\ \A r \in Requests :
       /\ session[r].op \in {"idle", "create", "update", "delete", "check"}
       /\ session[r].op = "create" => session[r].row \in Monitor
       /\ session[r].op \in {"update", "delete", "check"} => session[r].id \in 1..(next_id - 1)

\* Creates that counted the same rows all insert, so the cap can be passed.  The
\* rows and the inserts on their way together never exceed it by as many as
\* there are handlers; what the inserts leave above it stays until a delete.
CapOvershootBounded ==
  Cardinality(DOMAIN monitors) + Cardinality(Creating)
    <= max_monitors + Cardinality(Requests) - 1

\* The documented meaning of MAX_MONITORS: an upper bound on the rows.
CapIsUpperBound == Cardinality(DOMAIN monitors) <= max_monitors

\* Whatever updates interleave, keep-alive is on exactly when its clock is set:
\* their column-wise writes never tear the two apart.
KeepAliveClockMatchesFlag ==
  \A i \in DOMAIN monitors :
    monitors[i].keep_alive_enabled <=> monitors[i].next_keep_alive_at # NULL

\* A deleted id stays deleted: an update or delete that read the row before
\* brings nothing back, and the sequence never hands the id out again.
NoResurrection ==
  [][/\ next_id' >= next_id
     /\ \A i \in DOMAIN monitors' : i \in DOMAIN monitors \/ i \in next_id..(next_id' - 1)]_vars

\* The rule every update checks on the merged row: keep-alive is never on
\* without an interval.
EnabledHasInterval ==
  \A i \in DOMAIN monitors :
    monitors[i].keep_alive_enabled => monitors[i].keep_alive_interval_seconds # NULL
=============================================================================
