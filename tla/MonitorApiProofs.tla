-------------------------- MODULE MonitorApiProofs --------------------------
(***************************************************************************)
(* Theorems about MonitorApi for every number of requests and every cap,   *)
(* and for every payload the schemas admit.                                *)
(***************************************************************************)
EXTENDS MonitorApi, FiniteSetTheorems, TLAPS

(* What create and update compute. *)

\* The schema of POST admits only what makes a row of the table, with the
\* keep-alive clock set exactly when keep-alive is on.
LEMMA NewRowOK ==
  ASSUME NEW p \in MonitorCreate, NEW now \in Nat
  PROVE  /\ NewRow(p, now) \in Monitor
         /\ NewRow(p, now).keep_alive_enabled <=> NewRow(p, now).next_keep_alive_at # NULL
BY NullAssumption DEF MonitorCreate, NewRow, Monitor, MonitorStatus

\* The columns an update may write, with the values it may try to write.
ChangesOK(changes) ==
  /\ DOMAIN changes \subseteq
       {"mode", "keep_alive_enabled", "keep_alive_interval_seconds",
        "keep_alive_path", "check_interval_seconds", "next_keep_alive_at"}
  /\ "mode" \in DOMAIN changes => changes["mode"] \in MonitorMode
  /\ "keep_alive_enabled" \in DOMAIN changes =>
       changes["keep_alive_enabled"] \in BOOLEAN \cup {NULL}
  /\ "keep_alive_interval_seconds" \in DOMAIN changes =>
       changes["keep_alive_interval_seconds"] \in Intervals \cup {NULL}
  /\ "keep_alive_path" \in DOMAIN changes => changes["keep_alive_path"] \in Paths \cup {NULL}
  /\ "check_interval_seconds" \in DOMAIN changes =>
       changes["check_interval_seconds"] \in Intervals \cup {NULL}
  /\ "next_keep_alive_at" \in DOMAIN changes =>
       changes["next_keep_alive_at"] \in Nat \cup {NULL}

On(columns) == columns["keep_alive_enabled"] = TRUE

\* An update the table can store writes the flag and the clock together or
\* neither, and they agree.
FlagWithClock(changes) ==
  Storable(changes) =>
  /\ "keep_alive_enabled" \in DOMAIN changes <=> "next_keep_alive_at" \in DOMAIN changes
  /\ "keep_alive_enabled" \in DOMAIN changes =>
       (On(changes) <=> changes["next_keep_alive_at"] # NULL)

FlagMatches(row) == row.keep_alive_enabled <=> row.next_keep_alive_at # NULL

\* A merged row differs from the row in the columns a client may set, and holds
\* in each what the client sent, NULL included, or what the row had.
MergedFrom(new, row) ==
  /\ new = [row EXCEPT !.mode = new.mode,
                       !.keep_alive_enabled = new.keep_alive_enabled,
                       !.keep_alive_interval_seconds = new.keep_alive_interval_seconds,
                       !.keep_alive_path = new.keep_alive_path,
                       !.check_interval_seconds = new.check_interval_seconds]
  /\ new.mode \in MonitorMode \cup {NULL}
  /\ new.keep_alive_enabled \in BOOLEAN \cup {NULL}
  /\ new.keep_alive_interval_seconds \in Intervals \cup {NULL}
  /\ new.keep_alive_path \in Paths \cup {NULL}
  /\ new.check_interval_seconds \in Intervals \cup {NULL}

LEMMA MergedOK ==
  ASSUME NEW row \in Monitor, NEW p \in MonitorUpdate
  PROVE  MergedFrom(Merged(p, row), row)
<1> DEFINE data == FillIn(p, row)
<1>1. /\ p.mode \in MonitorMode \cup {NULL, Unset}
      /\ p.keep_alive_enabled \in BOOLEAN \cup {NULL, Unset}
      /\ p.keep_alive_interval_seconds \in Intervals \cup {NULL, Unset}
      /\ p.keep_alive_path \in Paths \cup {NULL, Unset}
      /\ p.check_interval_seconds \in Intervals \cup {NULL, Unset}
  BY DEF MonitorUpdate
<1>2. /\ data.mode \in MonitorMode \cup {NULL, Unset}
      /\ data.keep_alive_enabled \in BOOLEAN \cup {NULL, Unset}
      /\ data.keep_alive_interval_seconds \in Intervals \cup {NULL, Unset}
      /\ data.keep_alive_path \in Paths \cup {NULL, Unset}
      /\ data.check_interval_seconds \in Intervals \cup {NULL, Unset}
  BY <1>1 DEF FillIn, OrElse, MonitorUpdate, MonitorMode
<1>3. /\ row.mode \in MonitorMode
      /\ row.keep_alive_enabled \in BOOLEAN
      /\ row.keep_alive_interval_seconds \in Intervals \cup {NULL}
      /\ row.keep_alive_path \in Paths \cup {NULL}
      /\ row.check_interval_seconds \in Intervals
  BY DEF Monitor
<1> QED
  BY <1>2, <1>3 DEF MergedFrom, Merged, OrElse, Monitor

\* The columns of an updated row: those of the merge, the keep-alive clock
\* brought in step, the rest as they were.
Columns == {"mode", "keep_alive_enabled", "keep_alive_interval_seconds",
            "keep_alive_path", "check_interval_seconds", "status",
            "last_checked_at", "next_check_at", "next_keep_alive_at"}

LEMMA RowColumns ==
  ASSUME NEW row \in Monitor
  PROVE  /\ DOMAIN row = Columns
         /\ row.mode \in MonitorMode
         /\ row.keep_alive_enabled \in BOOLEAN
         /\ On(row) <=> row.keep_alive_enabled
         /\ row.keep_alive_interval_seconds \in Intervals \cup {NULL}
         /\ row.keep_alive_path \in Paths \cup {NULL}
         /\ row.check_interval_seconds \in Intervals
         /\ row.status \in MonitorStatus
         /\ row.last_checked_at \in Nat \cup {NULL}
         /\ row.next_check_at \in Nat
         /\ row.next_keep_alive_at \in Nat \cup {NULL}
BY DEF Monitor, Columns, On

LEMMA RowFromColumns ==
  ASSUME NEW row, row = [c \in Columns |-> row[c]],
         row["mode"] \in MonitorMode,
         row["keep_alive_enabled"] \in BOOLEAN,
         row["keep_alive_interval_seconds"] \in Intervals \cup {NULL},
         row["keep_alive_path"] \in Paths \cup {NULL},
         row["check_interval_seconds"] \in Intervals,
         row["status"] \in MonitorStatus,
         row["last_checked_at"] \in Nat \cup {NULL},
         row["next_check_at"] \in Nat,
         row["next_keep_alive_at"] \in Nat \cup {NULL}
  PROVE  row \in Monitor
BY DEF Monitor, Columns

LEMMA SyncColumns ==
  ASSUME NEW row \in Monitor, NEW merged, MergedFrom(merged, row), NEW now \in Nat
  PROVE  LET new == SyncKeepAlive(merged, now) IN
         /\ DOMAIN new = Columns
         /\ new = [c \in Columns |-> new[c]]
         /\ new.mode = merged.mode
         /\ new.keep_alive_enabled = merged.keep_alive_enabled
         /\ new.keep_alive_interval_seconds = merged.keep_alive_interval_seconds
         /\ new.keep_alive_path = merged.keep_alive_path
         /\ new.check_interval_seconds = merged.check_interval_seconds
         /\ new.status = row.status
         /\ new.last_checked_at = row.last_checked_at
         /\ new.next_check_at = row.next_check_at
         /\ On(new) <=> On(merged)
         /\ ~On(new) => new.next_keep_alive_at = NULL
         /\ On(new) /\ row.next_keep_alive_at = NULL => new.next_keep_alive_at = now
         /\ On(new) /\ row.next_keep_alive_at # NULL =>
              new.next_keep_alive_at = row.next_keep_alive_at
<1>1. DOMAIN row = Columns
  BY RowColumns
<1>2. /\ DOMAIN merged = Columns
      /\ merged.status = row.status
      /\ merged.last_checked_at = row.last_checked_at
      /\ merged.next_check_at = row.next_check_at
      /\ merged.next_keep_alive_at = row.next_keep_alive_at
  BY <1>1 DEF MergedFrom, Columns
<1> QED
  BY <1>2 DEF SyncKeepAlive, Columns, On

\* An accepted update of a row whose flag and clock agree writes well-typed
\* columns, and keeps the two in step.
LEMMA UpdatedOK ==
  ASSUME NEW row \in Monitor, NEW p \in MonitorUpdate, NEW now \in Nat,
         Accepted(p, row), FlagMatches(row)
  PROVE  /\ ChangesOK(Changes(row, Updated(p, row, now)))
         /\ FlagWithClock(Changes(row, Updated(p, row, now)))
<1> DEFINE new == Updated(p, row, now)
           changes == Changes(row, new)
           written == {c \in DOMAIN row : new[c] # row[c]}
           merged == Merged(p, row)
<1>1. MergedFrom(merged, row)
  BY MergedOK
<1>2. merged.mode \in MonitorMode
  BY <1>1 DEF MergedFrom, Accepted
<1>3. new = SyncKeepAlive(merged, now)
  BY DEF Updated
<1> HIDE DEF merged, new
<1>4. /\ new.mode \in MonitorMode
      /\ new.keep_alive_enabled \in BOOLEAN \cup {NULL}
      /\ new.keep_alive_interval_seconds \in Intervals \cup {NULL}
      /\ new.keep_alive_path \in Paths \cup {NULL}
      /\ new.check_interval_seconds \in Intervals \cup {NULL}
  <2>1. /\ new.mode = merged.mode
        /\ new.keep_alive_enabled = merged.keep_alive_enabled
        /\ new.keep_alive_interval_seconds = merged.keep_alive_interval_seconds
        /\ new.keep_alive_path = merged.keep_alive_path
        /\ new.check_interval_seconds = merged.check_interval_seconds
    BY <1>1, <1>3, SyncColumns
  <2> QED
    BY <1>1, <1>2, <2>1 DEF MergedFrom
<1>5. /\ new.status = row.status
      /\ new.last_checked_at = row.last_checked_at
      /\ new.next_check_at = row.next_check_at
      /\ ~On(new) => new.next_keep_alive_at = NULL
      /\ On(new) /\ row.next_keep_alive_at = NULL => new.next_keep_alive_at = now
      /\ On(new) /\ row.next_keep_alive_at # NULL =>
           new.next_keep_alive_at = row.next_keep_alive_at
  BY <1>1, <1>3, SyncColumns
<1>6. changes = [c \in written |-> new[c]]
  BY DEF Changes
<1> HIDE DEF changes
<1>7. ChangesOK(changes)
  <2>1. new.next_keep_alive_at \in Nat \cup {NULL}
    BY <1>5, RowColumns
  <2> QED
    BY <1>4, <1>5, <1>6, <2>1, RowColumns DEF ChangesOK, Columns
<1>8. ASSUME Storable(changes)
      PROVE  /\ "keep_alive_enabled" \in DOMAIN changes <=> "next_keep_alive_at" \in DOMAIN changes
             /\ "keep_alive_enabled" \in DOMAIN changes =>
                  (On(changes) <=> changes["next_keep_alive_at"] # NULL)
  <2>1. new.keep_alive_enabled \in BOOLEAN
    <3>1. "keep_alive_enabled" \in DOMAIN changes <=>
            new.keep_alive_enabled # row.keep_alive_enabled
      BY <1>6, RowColumns DEF Columns
    <3>2. "keep_alive_enabled" \in DOMAIN changes =>
            changes["keep_alive_enabled"] = new.keep_alive_enabled
      BY <1>6
    <3>3. new.keep_alive_enabled # row.keep_alive_enabled => new.keep_alive_enabled # NULL
      BY <1>8, <3>1, <3>2 DEF Storable
    <3> QED
      BY <1>4, <3>3, RowColumns
  <2>2. On(row) <=> row.next_keep_alive_at # NULL
    BY RowColumns DEF FlagMatches
  <2>3. On(new) <=> new.next_keep_alive_at # NULL
    BY <1>5, NullAssumption
  <2>4. new.next_keep_alive_at # row.next_keep_alive_at <=> ~(On(new) <=> On(row))
    BY <1>5, <2>2, <2>3
  <2>5. new.keep_alive_enabled # row.keep_alive_enabled <=> ~(On(new) <=> On(row))
    BY <2>1, RowColumns DEF On
  <2>6. /\ "keep_alive_enabled" \in DOMAIN changes <=>
             new.keep_alive_enabled # row.keep_alive_enabled
        /\ "next_keep_alive_at" \in DOMAIN changes <=>
             new.next_keep_alive_at # row.next_keep_alive_at
    BY <1>6, RowColumns DEF Columns
  <2>7. "keep_alive_enabled" \in DOMAIN changes => (On(changes) <=> On(new))
    BY <1>6 DEF On
  <2>8. "next_keep_alive_at" \in DOMAIN changes =>
          changes["next_keep_alive_at"] = new.next_keep_alive_at
    BY <1>6
  <2> QED
    BY <2>3, <2>4, <2>5, <2>6, <2>7, <2>8
<1> QED
  BY <1>7, <1>8 DEF FlagWithClock, new, changes

\* Whatever row such an update meets at its commit, it leaves a row of the table
\* with flag and clock in agreement.
LEMMA WriteOK ==
  ASSUME NEW row \in Monitor, NEW changes,
         ChangesOK(changes), Storable(changes), FlagWithClock(changes), FlagMatches(row)
  PROVE  Write(row, changes) \in Monitor /\ FlagMatches(Write(row, changes))
<1> DEFINE new == Write(row, changes)
<1>1. new = [c \in Columns |-> IF c \in DOMAIN changes THEN changes[c] ELSE row[c]]
  BY RowColumns DEF Write
<1> HIDE DEF new
<1>2. /\ new["mode"] \in MonitorMode
      /\ new["keep_alive_enabled"] \in BOOLEAN
      /\ new["keep_alive_interval_seconds"] \in Intervals \cup {NULL}
      /\ new["keep_alive_path"] \in Paths \cup {NULL}
      /\ new["check_interval_seconds"] \in Intervals
      /\ new["status"] \in MonitorStatus
      /\ new["last_checked_at"] \in Nat \cup {NULL}
      /\ new["next_check_at"] \in Nat
      /\ new["next_keep_alive_at"] \in Nat \cup {NULL}
  BY <1>1, RowColumns DEF ChangesOK, Storable, Columns
<1>3. new = [c \in Columns |-> new[c]]
  BY <1>1
<1>4. new \in Monitor
  BY <1>2, <1>3, RowFromColumns
<1>5. FlagMatches(new)
  <2>1. On(row) <=> row.next_keep_alive_at # NULL
    BY RowColumns DEF FlagMatches
  <2>2. On(new) <=> IF "keep_alive_enabled" \in DOMAIN changes THEN On(changes) ELSE On(row)
    BY <1>1 DEF On, Columns
  <2>3. new["next_keep_alive_at"] =
          IF "next_keep_alive_at" \in DOMAIN changes THEN changes["next_keep_alive_at"]
                                                     ELSE row["next_keep_alive_at"]
    BY <1>1 DEF Columns
  <2>4. On(new) <=> new.next_keep_alive_at # NULL
    BY <2>1, <2>2, <2>3 DEF FlagWithClock
  <2> QED
    BY <1>4, <2>4, RowColumns DEF FlagMatches
<1> QED
  BY <1>4, <1>5 DEF new

-----------------------------------------------------------------------------
(* The inductive invariant. *)

\* What the sessions carry to their commits.
SessionsOK ==
  \A r \in Requests :
    /\ session[r].op = "create" => FlagMatches(session[r].row)
    /\ session[r].op = "update" =>
         ChangesOK(session[r].changes) /\ FlagWithClock(session[r].changes)

IInv == TypeOK /\ CapOvershootBounded /\ KeepAliveClockMatchesFlag /\ SessionsOK

LEMMA FiniteSets ==
  ASSUME TypeOK
  PROVE  /\ IsFiniteSet(DOMAIN monitors) /\ IsFiniteSet(Requests) /\ IsFiniteSet(Creating)
         /\ Cardinality(DOMAIN monitors) \in Nat
         /\ Cardinality(Requests) \in Nat /\ Cardinality(Creating) \in Nat
<1>1. IsFiniteSet(1..(next_id - 1))
  BY FS_Interval DEF TypeOK
<1>2. IsFiniteSet(DOMAIN monitors)
  BY <1>1, FS_Subset DEF TypeOK
<1>3. IsFiniteSet(Requests)
  BY ApiAssumption
<1>4. IsFiniteSet(Creating)
  BY <1>3, FS_Subset DEF Creating
<1> QED
  BY <1>2, <1>3, <1>4, FS_CardinalityType

\* Steps that insert no row and count no create keep the accounts.
LEMMA CapKept ==
  ASSUME TypeOK, CapOvershootBounded,
         DOMAIN monitors' \subseteq DOMAIN monitors, Creating' \subseteq Creating
  PROVE  CapOvershootBounded'
<1>1. /\ IsFiniteSet(DOMAIN monitors) /\ IsFiniteSet(Creating)
      /\ Cardinality(DOMAIN monitors) \in Nat /\ Cardinality(Creating) \in Nat
      /\ Cardinality(Requests) \in Nat /\ max_monitors \in Nat
  BY FiniteSets, ApiAssumption
<1>2. /\ Cardinality(DOMAIN monitors') <= Cardinality(DOMAIN monitors)
      /\ Cardinality(Creating') <= Cardinality(Creating)
      /\ IsFiniteSet(DOMAIN monitors') /\ IsFiniteSet(Creating')
  BY <1>1, FS_Subset
<1>3. Cardinality(DOMAIN monitors') \in Nat /\ Cardinality(Creating') \in Nat
  BY <1>2, FS_CardinalityType
<1> QED
  BY <1>1, <1>2, <1>3 DEF CapOvershootBounded

LEMMA InitIInv == Init => IInv
<1> SUFFICES ASSUME Init PROVE IInv
  OBVIOUS
<1>1. TypeOK
  BY DEF Init, TypeOK, Idle
<1>2. DOMAIN monitors = {} /\ Creating = {}
  BY DEF Init, Creating, Idle
<1>3. Cardinality({}) = 0
  BY FS_EmptySet
<1>4. Cardinality(Requests) \in Nat \ {0}
  BY ApiAssumption, FS_CardinalityType, FS_EmptySet
<1>5. CapOvershootBounded
  BY <1>2, <1>3, <1>4, ApiAssumption DEF CapOvershootBounded
<1>6. KeepAliveClockMatchesFlag /\ SessionsOK
  BY <1>2 DEF KeepAliveClockMatchesFlag, SessionsOK, Init, Idle
<1> QED
  BY <1>1, <1>5, <1>6 DEF IInv

-----------------------------------------------------------------------------
(* One lemma per action that writes the table or counts against the cap. *)

LEMMA CreateCountStep ==
  ASSUME IInv, NEW r \in Requests, CreateCount(r)
  PROVE  IInv'
<1> USE DEF IInv
<1>1. PICK p \in CreatePayloads :
        session' = [session EXCEPT ![r] = [op |-> "create", row |-> NewRow(p, clock)]]
  BY DEF CreateCount, BelowCap
<1>2. NewRow(p, clock) \in Monitor /\ FlagMatches(NewRow(p, clock))
  BY NewRowOK, ApiAssumption DEF TypeOK, FlagMatches
<1>3. /\ UNCHANGED <<clock, monitors, next_id, queue, sent>>
      /\ session[r].op = "idle"
      /\ Cardinality(DOMAIN monitors) < max_monitors
  BY DEF CreateCount, BelowCap
<1>4. TypeOK'
  BY <1>1, <1>2, <1>3 DEF TypeOK
<1>5. CapOvershootBounded'
  <2>1. Cardinality(Creating') <= Cardinality(Requests) /\ Cardinality(Creating') \in Nat
    BY ApiAssumption, FS_Subset, FS_CardinalityType DEF Creating
  <2>2. /\ Cardinality(DOMAIN monitors) \in Nat /\ Cardinality(Requests) \in Nat
        /\ max_monitors \in Nat
    BY FiniteSets, ApiAssumption
  <2> QED
    BY <1>3, <2>1, <2>2 DEF CapOvershootBounded
<1>6. KeepAliveClockMatchesFlag' /\ SessionsOK'
  BY <1>1, <1>2, <1>3 DEF KeepAliveClockMatchesFlag, SessionsOK, TypeOK
<1> QED
  BY <1>4, <1>5, <1>6

LEMMA CreateCommitStep ==
  ASSUME IInv, NEW r \in Requests, CreateCommit(r)
  PROVE  IInv'
<1> USE DEF IInv
<1>1. /\ session[r].op = "create" /\ session[r].row \in Monitor
      /\ FlagMatches(session[r].row)
      /\ next_id' = next_id + 1 /\ next_id \notin DOMAIN monitors
      /\ session' = [session EXCEPT ![r] = Idle]
      /\ UNCHANGED <<clock, queue, sent>>
  BY DEF CreateCommit, nextval, End, TypeOK, SessionsOK
<1>2. monitors' = [i \in DOMAIN monitors \cup {next_id} |->
                    IF i = next_id THEN session[r].row ELSE monitors[i]]
  BY DEF CreateCommit, nextval
<1>3. TypeOK'
  <2>1. next_id' \in Nat \ {0} /\ DOMAIN monitors' \subseteq 1..(next_id' - 1)
    BY <1>1, <1>2 DEF TypeOK
  <2>2. \A i \in DOMAIN monitors' : monitors'[i] \in Monitor
    BY <1>1, <1>2 DEF TypeOK
  <2>3. \A q \in Requests :
          /\ session'[q].op \in {"idle", "create", "update", "delete", "check"}
          /\ session'[q].op = "create" => session'[q].row \in Monitor
          /\ session'[q].op \in {"update", "delete", "check"} =>
               session'[q].id \in 1..(next_id' - 1)
    BY <1>1 DEF TypeOK, Idle
  <2> QED
    BY <1>1, <2>1, <2>2, <2>3 DEF TypeOK
<1>4. CapOvershootBounded'
  <2>1. Creating' = Creating \ {r} /\ r \in Creating
    BY <1>1 DEF Creating, TypeOK, Idle
  <2>2. /\ IsFiniteSet(DOMAIN monitors) /\ IsFiniteSet(Creating)
        /\ Cardinality(DOMAIN monitors) \in Nat /\ Cardinality(Creating) \in Nat
    BY FiniteSets
  <2>3. Cardinality(Creating') = Cardinality(Creating) - 1
    BY <2>1, <2>2, FS_RemoveElement
  <2>4. Cardinality(DOMAIN monitors') = Cardinality(DOMAIN monitors) + 1
    BY <1>1, <1>2, <2>2, FS_AddElement
  <2> QED
    BY <2>2, <2>3, <2>4 DEF CapOvershootBounded
<1>5. KeepAliveClockMatchesFlag'
  BY <1>1, <1>2 DEF KeepAliveClockMatchesFlag, FlagMatches
<1>6. SessionsOK'
  BY <1>1 DEF SessionsOK, TypeOK, Idle
<1> QED
  BY <1>3, <1>4, <1>5, <1>6

LEMMA UpdateGetStep ==
  ASSUME IInv, NEW r \in Requests, UpdateGet(r)
  PROVE  IInv'
<1> USE DEF IInv
<1>1. PICK i \in DOMAIN monitors, p \in UpdatePayloads :
        /\ Accepted(p, monitors[i])
        /\ session' = [session EXCEPT ![r] =
             [op |-> "update", id |-> i,
              changes |-> Changes(monitors[i], Updated(p, monitors[i], clock))]]
  BY DEF UpdateGet
<1> DEFINE changes == Changes(monitors[i], Updated(p, monitors[i], clock))
<1>2. ChangesOK(changes) /\ FlagWithClock(changes)
  BY <1>1, UpdatedOK, ApiAssumption
     DEF TypeOK, KeepAliveClockMatchesFlag, FlagMatches
<1> HIDE DEF changes
<1>3. /\ session' = [session EXCEPT ![r] = [op |-> "update", id |-> i, changes |-> changes]]
      /\ i \in 1..(next_id - 1)
      /\ UNCHANGED <<clock, monitors, next_id, queue, sent>>
  BY <1>1 DEF UpdateGet, TypeOK, changes
<1>4. TypeOK'
  BY <1>3 DEF TypeOK
<1>5. CapOvershootBounded'
  <2>1. Creating' \subseteq Creating
    BY <1>3 DEF Creating, TypeOK
  <2> QED
    BY <1>3, <2>1, CapKept
<1>6. KeepAliveClockMatchesFlag' /\ SessionsOK'
  BY <1>2, <1>3 DEF KeepAliveClockMatchesFlag, SessionsOK, TypeOK
<1> QED
  BY <1>4, <1>5, <1>6

LEMMA UpdateCommitStep ==
  ASSUME IInv, NEW r \in Requests, UpdateCommit(r)
  PROVE  IInv'
<1> USE DEF IInv
<1> DEFINE id == session[r].id
           changes == session[r].changes
           new == Write(monitors[id], changes)
<1>1. /\ session[r].op = "update" /\ id \in DOMAIN monitors /\ Storable(changes)
      /\ monitors' = [monitors EXCEPT ![id] = new]
      /\ session' = [session EXCEPT ![r] = Idle]
      /\ UNCHANGED <<clock, next_id, queue, sent>>
  BY DEF UpdateCommit, End
<1>2. new \in Monitor /\ FlagMatches(new)
  BY <1>1, WriteOK DEF TypeOK, SessionsOK, KeepAliveClockMatchesFlag, FlagMatches
<1> HIDE DEF new
<1>3. TypeOK'
  BY <1>1, <1>2 DEF TypeOK, Idle
<1>4. CapOvershootBounded'
  <2>1. Creating' \subseteq Creating /\ DOMAIN monitors' = DOMAIN monitors
    BY <1>1 DEF Creating, TypeOK, Idle
  <2> QED
    BY <2>1, CapKept
<1>5. KeepAliveClockMatchesFlag'
  BY <1>1, <1>2 DEF KeepAliveClockMatchesFlag, FlagMatches
<1>6. SessionsOK'
  BY <1>1 DEF SessionsOK, TypeOK, Idle
<1> QED
  BY <1>3, <1>4, <1>5, <1>6

LEMMA DeleteCommitStep ==
  ASSUME IInv, NEW r \in Requests, DeleteCommit(r)
  PROVE  IInv'
<1> USE DEF IInv
<1>1. /\ monitors' = [i \in DOMAIN monitors \ {session[r].id} |-> monitors[i]]
      /\ session' = [session EXCEPT ![r] = Idle]
      /\ UNCHANGED <<clock, next_id, queue, sent>>
  BY DEF DeleteCommit, End
<1>2. TypeOK'
  BY <1>1 DEF TypeOK, Idle
<1>3. CapOvershootBounded'
  <2>1. Creating' \subseteq Creating /\ DOMAIN monitors' \subseteq DOMAIN monitors
    BY <1>1 DEF Creating, TypeOK, Idle
  <2> QED
    BY <2>1, CapKept
<1>4. KeepAliveClockMatchesFlag' /\ SessionsOK'
  BY <1>1 DEF KeepAliveClockMatchesFlag, SessionsOK, TypeOK, Idle
<1> QED
  BY <1>2, <1>3, <1>4

\* The reads of DELETE and of the on-demand check note an id of the table.
LEMMA GetStep ==
  ASSUME IInv, NEW r \in Requests, DeleteGet(r) \/ CheckGet(r)
  PROVE  IInv'
<1> USE DEF IInv
<1>1. PICK i \in DOMAIN monitors, op \in {"delete", "check"} :
        session' = [session EXCEPT ![r] = [op |-> op, id |-> i]]
  BY DEF DeleteGet, CheckGet
<1>2. UNCHANGED <<clock, monitors, next_id, queue, sent>>
  BY DEF DeleteGet, CheckGet
<1>3. TypeOK'
  BY <1>1, <1>2 DEF TypeOK
<1>4. CapOvershootBounded'
  <2>1. Creating' \subseteq Creating
    BY <1>1 DEF Creating, TypeOK
  <2> QED
    BY <1>2, <2>1, CapKept
<1>5. KeepAliveClockMatchesFlag' /\ SessionsOK'
  BY <1>1, <1>2 DEF KeepAliveClockMatchesFlag, SessionsOK, TypeOK
<1> QED
  BY <1>3, <1>4, <1>5

LEMMA CheckEnqueueStep ==
  ASSUME IInv, NEW r \in Requests, CheckEnqueue(r)
  PROVE  IInv'
<1> USE DEF IInv
<1> DEFINE msg == NewMessage(sent, "monitor", session[r].id, clock, NULL)
<1>1. /\ queue' = queue \cup {msg} /\ sent' = sent + 1
      /\ session' = [session EXCEPT ![r] = Idle]
      /\ session[r].op = "check"
      /\ UNCHANGED <<clock, monitors, next_id>>
  BY DEF CheckEnqueue, End
<1>2. msg \in Message
  BY <1>1 DEF NewMessage, Message, CheckType, TypeOK
<1>3. TypeOK'
  BY <1>1, <1>2 DEF TypeOK, Idle
<1>4. CapOvershootBounded'
  <2>1. Creating' \subseteq Creating
    BY <1>1 DEF Creating, TypeOK, Idle
  <2> QED
    BY <1>1, <2>1, CapKept
<1>5. KeepAliveClockMatchesFlag' /\ SessionsOK'
  BY <1>1 DEF KeepAliveClockMatchesFlag, SessionsOK, TypeOK, Idle
<1> QED
  BY <1>3, <1>4, <1>5

LEMMA IntervalGrows ==
  ASSUME NEW m \in Nat, NEW n \in Nat, m <= n
  PROVE  1..(m - 1) \subseteq 1..(n - 1)
OBVIOUS

LEMMA AbortStep ==
  ASSUME IInv, NEW r \in Requests, Abort(r)
  PROVE  IInv'
<1> USE DEF IInv
<1>1. /\ next_id' \in {next_id, next_id + 1}
      /\ session' = [session EXCEPT ![r] = Idle]
      /\ UNCHANGED <<clock, monitors, queue, sent>>
  BY DEF Abort, End
<1>2. TypeOK'
  <2>1. next_id' \in Nat \ {0} /\ 1..(next_id - 1) \subseteq 1..(next_id' - 1)
    <3>1. next_id \in Nat \ {0}
      BY DEF TypeOK
    <3>2. next_id' \in Nat \ {0} /\ next_id' >= next_id
      BY <1>1, <3>1
    <3> QED
      BY <3>1, <3>2, IntervalGrows
  <2>2. \A q \in Requests :
          /\ session'[q].op \in {"idle", "create", "update", "delete", "check"}
          /\ session'[q].op = "create" => session'[q].row \in Monitor
          /\ session'[q].op \in {"update", "delete", "check"} =>
               session'[q].id \in 1..(next_id' - 1)
    BY <1>1, <2>1 DEF TypeOK, Idle
  <2> QED
    BY <1>1, <2>1, <2>2 DEF TypeOK
<1>3. CapOvershootBounded'
  <2>1. Creating' \subseteq Creating
    BY <1>1 DEF Creating, TypeOK, Idle
  <2> QED
    BY <1>1, <2>1, CapKept
<1>4. KeepAliveClockMatchesFlag' /\ SessionsOK'
  BY <1>1 DEF KeepAliveClockMatchesFlag, SessionsOK, TypeOK, Idle
<1> QED
  BY <1>2, <1>3, <1>4

LEMMA NextIInv == IInv /\ [Next]_vars => IInv'
<1> SUFFICES ASSUME IInv, [Next]_vars PROVE IInv'
  OBVIOUS
<1>1. CASE Tick
  BY <1>1 DEF Tick, IInv, TypeOK, CapOvershootBounded, Creating, KeepAliveClockMatchesFlag, SessionsOK
<1>2. CASE UNCHANGED vars
  BY <1>2 DEF vars, IInv, TypeOK, CapOvershootBounded, Creating, KeepAliveClockMatchesFlag, SessionsOK
<1>3. CASE \E r \in Requests : CreateCount(r) \/ CreateCommit(r)
  BY <1>3, CreateCountStep, CreateCommitStep
<1>4. CASE \E r \in Requests : UpdateGet(r) \/ UpdateCommit(r)
  BY <1>4, UpdateGetStep, UpdateCommitStep
<1>5. CASE \E r \in Requests : DeleteGet(r) \/ CheckGet(r)
  BY <1>5, GetStep
<1>6. CASE \E r \in Requests : DeleteCommit(r) \/ CheckEnqueue(r) \/ Abort(r)
  BY <1>6, DeleteCommitStep, CheckEnqueueStep, AbortStep
<1> QED
  BY <1>1, <1>2, <1>3, <1>4, <1>5, <1>6 DEF Next

LEMMA Invariance == Spec => []IInv
BY InitIInv, NextIInv, PTL DEF Spec

-----------------------------------------------------------------------------
(* The theorems. *)

\* Every variable keeps its type.
THEOREM TypeCorrect == Spec => []TypeOK
<1>1. IInv => TypeOK
  BY DEF IInv
<1> QED
  BY Invariance, <1>1, PTL

\* A create in progress is charged against the cap before its row is inserted:
\* rows and pending inserts together pass max_monitors by at most one less than
\* the number of handlers, for any number of concurrent creates and deletes.
THEOREM OvershootIsBounded == Spec => []CapOvershootBounded
<1>1. IInv => CapOvershootBounded
  BY DEF IInv
<1> QED
  BY Invariance, <1>1, PTL

\* However updates interleave, a row has a keep-alive clock exactly when
\* keep-alive is on.
THEOREM ClockFollowsFlag == Spec => []KeepAliveClockMatchesFlag
<1>1. IInv => KeepAliveClockMatchesFlag
  BY DEF IInv
<1> QED
  BY Invariance, <1>1, PTL

\* Neither a late update or delete nor the sequence brings a deleted id back.
THEOREM DeletedStaysDeleted == Spec => NoResurrection
<1>1. ASSUME TypeOK, [Next]_vars
      PROVE  /\ next_id' >= next_id
             /\ \A i \in DOMAIN monitors' :
                  i \in DOMAIN monitors \/ i \in next_id..(next_id' - 1)
  <2> USE DEF TypeOK
  <2>1. CASE UNCHANGED monitors /\ next_id' \in {next_id, next_id + 1}
    BY <1>1, <2>1
  <2>2. CASE UNCHANGED vars
    BY <2>1, <2>2 DEF vars
  <2>3. CASE Tick
    BY <2>1, <2>3 DEF Tick
  <2>4. ASSUME NEW r \in Requests, CreateCommit(r)
        PROVE  /\ DOMAIN monitors' = DOMAIN monitors \cup {next_id}
               /\ next_id' = next_id + 1
    BY <2>4 DEF CreateCommit, nextval
  <2>5. ASSUME NEW r \in Requests, UpdateCommit(r)
        PROVE  DOMAIN monitors' = DOMAIN monitors /\ next_id' = next_id
    BY <2>5 DEF UpdateCommit
  <2>6. ASSUME NEW r \in Requests, DeleteCommit(r)
        PROVE  DOMAIN monitors' \subseteq DOMAIN monitors /\ next_id' = next_id
    BY <2>6 DEF DeleteCommit
  <2>7. ASSUME NEW r \in Requests,
               \/ CreateCount(r) \/ UpdateGet(r) \/ DeleteGet(r) \/ CheckGet(r)
               \/ CheckEnqueue(r) \/ Abort(r)
        PROVE  UNCHANGED monitors /\ next_id' \in {next_id, next_id + 1}
    BY <2>7 DEF CreateCount, UpdateGet, DeleteGet, CheckGet, CheckEnqueue, Abort
  <2>8. next_id \in next_id..((next_id + 1) - 1)
    BY <1>1
  <2> QED
    BY <1>1, <2>1, <2>2, <2>3, <2>4, <2>5, <2>6, <2>7, <2>8 DEF Next
<1>2. TypeOK /\ [Next]_vars =>
        [/\ next_id' >= next_id
         /\ \A i \in DOMAIN monitors' :
              i \in DOMAIN monitors \/ i \in next_id..(next_id' - 1)]_vars
  BY <1>1
<1> QED
  BY <1>2, TypeCorrect, PTL DEF Spec, NoResurrection
=============================================================================
