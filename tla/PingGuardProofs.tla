-------------------------- MODULE PingGuardProofs --------------------------
(***************************************************************************)
(* Theorems about PingGuard, for every number of sweeps, handlers, rows,   *)
(* bodies, intervals and batches: its types; that health claims stay       *)
(* exclusive under the writes of the API; that no run is lost silently;    *)
(* that edits never raise the rate at which a monitor is checked; that the *)
(* keep-alive clock runs exactly while keep-alive is on.                   *)
(***************************************************************************)
EXTENDS PingGuard, FiniteSetTheorems, WellFoundedInduction, TLAPS

LEMMA IntervalTypes == \A i \in Intervals : i \in Nat /\ i > 0
BY IntervalAssumption

LEMMA MonsTypes == \A m \in Mons : m \in Nat /\ m > 0
BY PingGuardAssumption DEF Mons

\* The two instances and PingGuard itself read the same MonitorModel.
LEMMA OneModel ==
  /\ Api!MonitorMode = MonitorMode /\ Api!Monitor = Monitor /\ Api!Message = Message
  /\ Sched!Monitor = Monitor /\ Sched!Message = Message /\ Sched!CheckType = CheckType
BY DEF Api!MonitorMode, MonitorMode, Api!MonitorStatus, Sched!MonitorMode,
       Sched!MonitorStatus, MonitorStatus, Api!Monitor, Sched!Monitor, Monitor,
       Api!CheckType, Sched!CheckType, CheckType, Api!Message, Sched!Message, Message

LEMMA OneModelOperators ==
  /\ \A row, kind, t : Sched!WithNextAt(row, kind, t) = WithNextAt(row, kind, t)
  /\ \A row, kind : Sched!IntervalOf(row, kind) = IntervalOf(row, kind)
  /\ \A row, now : Sched!Due(row, "monitor", now) => row.next_check_at <= now
BY DEF Sched!WithNextAt, WithNextAt, Sched!IntervalOf, IntervalOf, Sched!Due, Sched!NextAt

(* The rows, as a sweep and as an update write them. *)

LEMMA WithNextAtRow ==
  ASSUME NEW row \in Monitor, NEW kind \in CheckType, NEW t \in Nat
  PROVE  /\ WithNextAt(row, kind, t) \in Monitor
         /\ WithNextAt(row, "monitor", t).next_check_at = t
         /\ kind # "monitor" =>
              WithNextAt(row, kind, t).next_check_at = row.next_check_at
BY DEF Monitor, WithNextAt, CheckType

LEMMA RowTypes ==
  ASSUME NEW row \in Monitor, NEW kind \in CheckType
  PROVE  /\ IntervalOf(row, kind) \in Intervals \cup {NULL}
         /\ IntervalOf(row, "monitor") \in Intervals
BY DEF Monitor, IntervalOf, CheckType

Columns == {"mode", "keep_alive_enabled", "keep_alive_interval_seconds",
            "keep_alive_path", "check_interval_seconds", "status",
            "last_checked_at", "next_check_at", "next_keep_alive_at"}

\* What may be in a column of a row, whoever wrote it last.
Domain(c) ==
  CASE c = "mode" -> MonitorMode
    [] c = "keep_alive_enabled" -> BOOLEAN
    [] c = "keep_alive_interval_seconds" -> Intervals \cup {NULL}
    [] c = "keep_alive_path" -> Paths \cup {NULL}
    [] c = "check_interval_seconds" -> Intervals
    [] c = "status" -> MonitorStatus
    [] c = "last_checked_at" -> Nat \cup {NULL}
    [] c = "next_check_at" -> Nat
    [] c = "next_keep_alive_at" -> Nat \cup {NULL}

LEMMA RowColumns ==
  ASSUME NEW row \in Monitor
  PROVE  /\ DOMAIN row = Columns /\ row = [c \in Columns |-> row[c]]
         /\ \A c \in Columns : row[c] \in Domain(c)
BY DEF Monitor, Columns, Domain

LEMMA RowFromColumns ==
  ASSUME NEW row, row = [c \in Columns |-> row[c]],
         \A c \in Columns : row[c] \in Domain(c)
  PROVE  row \in Monitor
<1>1. /\ row["mode"] \in MonitorMode
      /\ row["keep_alive_enabled"] \in BOOLEAN
      /\ row["keep_alive_interval_seconds"] \in Intervals \cup {NULL}
      /\ row["keep_alive_path"] \in Paths \cup {NULL}
      /\ row["check_interval_seconds"] \in Intervals
      /\ row["status"] \in MonitorStatus
      /\ row["last_checked_at"] \in Nat \cup {NULL}
      /\ row["next_check_at"] \in Nat
      /\ row["next_keep_alive_at"] \in Nat \cup {NULL}
  BY DEF Columns, Domain
<1> QED
  BY <1>1 DEF Monitor, Columns

\* The columns an update writes: those a client may set and the clock that
\* follows them, never the clock of the health checks.
Editable == {"mode", "keep_alive_enabled", "keep_alive_interval_seconds",
             "keep_alive_path", "check_interval_seconds", "next_keep_alive_at"}

\* NULL may be among the values of a column that is NOT NULL, but then the table
\* does not store it.
ChangesOK(changes) ==
  /\ DOMAIN changes \subseteq Editable
  /\ \A c \in DOMAIN changes :
       \/ changes[c] \in Domain(c)
       \/ c \in {"check_interval_seconds", "keep_alive_enabled"} /\ changes[c] = NULL

LEMMA WriteOK ==
  ASSUME NEW row \in Monitor, NEW changes, ChangesOK(changes), Api!Storable(changes)
  PROVE  /\ Api!Write(row, changes) \in Monitor
         /\ Api!Write(row, changes).next_check_at = row.next_check_at
<1> DEFINE new == Api!Write(row, changes)
<1>1. new = [c \in Columns |-> IF c \in DOMAIN changes THEN changes[c] ELSE row[c]]
  BY RowColumns DEF Api!Write
<1>2. \A c \in DOMAIN changes : changes[c] \in Domain(c)
  BY DEF ChangesOK, Api!Storable
<1>3. \A c \in Columns : new[c] \in Domain(c)
  BY <1>1, <1>2, RowColumns
<1>4. new = [c \in Columns |-> new[c]]
  BY <1>1
<1>5. new["next_check_at"] = row["next_check_at"]
  BY <1>1 DEF ChangesOK, Editable, Columns
<1> QED
  BY <1>3, <1>4, <1>5, RowFromColumns

\* The columns of a merged row a client may have set.
MergedTypes(row) ==
  /\ row.mode \in MonitorMode \cup {NULL}
  /\ row.keep_alive_enabled \in BOOLEAN \cup {NULL}
  /\ row.keep_alive_interval_seconds \in Intervals \cup {NULL}
  /\ row.keep_alive_path \in Paths \cup {NULL}
  /\ row.check_interval_seconds \in Intervals \cup {NULL}

LEMMA MergedOK ==
  ASSUME NEW row \in Monitor, NEW p \in Api!MonitorUpdate
  PROVE  /\ MergedTypes(Api!Merged(p, row))
         /\ DOMAIN Api!Merged(p, row) = Columns
         /\ \A c \in {"status", "last_checked_at", "next_check_at", "next_keep_alive_at"} :
              Api!Merged(p, row)[c] = row[c]
<1> DEFINE data == Api!FillIn(p, row)
<1>1. /\ p.mode \in MonitorMode \cup {NULL, Unset}
      /\ p.keep_alive_enabled \in BOOLEAN \cup {NULL, Unset}
      /\ p.keep_alive_interval_seconds \in Intervals \cup {NULL, Unset}
      /\ p.keep_alive_path \in Paths \cup {NULL, Unset}
      /\ p.check_interval_seconds \in Intervals \cup {NULL, Unset}
  BY OneModel DEF Api!MonitorUpdate
<1>2. /\ data.mode \in MonitorMode \cup {NULL, Unset}
      /\ data.keep_alive_enabled \in BOOLEAN \cup {NULL, Unset}
      /\ data.keep_alive_interval_seconds \in Intervals \cup {NULL, Unset}
      /\ data.keep_alive_path \in Paths \cup {NULL, Unset}
      /\ data.check_interval_seconds \in Intervals \cup {NULL, Unset}
  BY <1>1 DEF Api!FillIn, Api!OrElse, Api!MonitorUpdate, MonitorMode
<1>3. /\ row.mode \in MonitorMode
      /\ row.keep_alive_enabled \in BOOLEAN
      /\ row.keep_alive_interval_seconds \in Intervals \cup {NULL}
      /\ row.keep_alive_path \in Paths \cup {NULL}
      /\ row.check_interval_seconds \in Intervals
  BY DEF Monitor
<1> HIDE DEF data
<1>4. Api!Merged(p, row) =
        [row EXCEPT !.mode = Api!OrElse(data.mode, @),
              !.keep_alive_enabled = Api!OrElse(data.keep_alive_enabled, @),
              !.keep_alive_interval_seconds = Api!OrElse(data.keep_alive_interval_seconds, @),
              !.keep_alive_path = Api!OrElse(data.keep_alive_path, @),
              !.check_interval_seconds = Api!OrElse(data.check_interval_seconds, @)]
  BY DEF Api!Merged, data
<1>5. MergedTypes(Api!Merged(p, row))
  BY <1>2, <1>3, <1>4 DEF MergedTypes, Api!OrElse, Monitor
<1>6. DOMAIN Api!Merged(p, row) = Columns
  BY <1>4, RowColumns
<1>7. \A c \in {"status", "last_checked_at", "next_check_at", "next_keep_alive_at"} :
        Api!Merged(p, row)[c] = row[c]
  BY <1>4, RowColumns DEF Columns
<1> QED
  BY <1>5, <1>6, <1>7

LEMMA UpdatedOK ==
  ASSUME NEW row \in Monitor, NEW p \in Api!MonitorUpdate, NEW now \in Nat,
         Api!Accepted(p, row)
  PROVE  ChangesOK(Api!Changes(row, Api!Updated(p, row, now)))
<1> DEFINE merged == Api!Merged(p, row)
           new == Api!Updated(p, row, now)
           written == {c \in DOMAIN row : new[c] # row[c]}
           changes == Api!Changes(row, new)
<1>1. /\ MergedTypes(merged) /\ DOMAIN merged = Columns
      /\ \A c \in {"status", "last_checked_at", "next_check_at", "next_keep_alive_at"} :
           merged[c] = row[c]
  BY MergedOK
<1>2. merged.mode \in MonitorMode
  BY <1>1 DEF MergedTypes, Api!Accepted
<1>3. new = Api!SyncKeepAlive(merged, now)
  BY DEF Api!Updated
<1> HIDE DEF merged, new
<1>4. /\ \A c \in Columns \ {"next_keep_alive_at"} : new[c] = merged[c]
      /\ new["next_keep_alive_at"] \in {NULL, now, merged["next_keep_alive_at"]}
  BY <1>1, <1>3 DEF Api!SyncKeepAlive, Columns
<1>5. changes = [c \in written |-> new[c]]
  BY DEF Api!Changes
<1> HIDE DEF changes
<1>6. written \subseteq Editable
  <2>1. \A c \in {"status", "last_checked_at", "next_check_at"} : new[c] = row[c]
    BY <1>1, <1>4 DEF Columns
  <2>2. written \subseteq Columns \ {"status", "last_checked_at", "next_check_at"}
    BY <2>1, RowColumns
  <2> QED
    BY <2>2 DEF Columns, Editable
<1>7. row["next_keep_alive_at"] \in Nat \cup {NULL}
  BY DEF Monitor
<1>8. /\ new["mode"] \in MonitorMode
      /\ new["keep_alive_enabled"] \in BOOLEAN \cup {NULL}
      /\ new["keep_alive_interval_seconds"] \in Intervals \cup {NULL}
      /\ new["keep_alive_path"] \in Paths \cup {NULL}
      /\ new["check_interval_seconds"] \in Intervals \cup {NULL}
      /\ new["next_keep_alive_at"] \in Nat \cup {NULL}
  BY <1>1, <1>2, <1>4, <1>7 DEF MergedTypes, Columns
<1>9. \A c \in Editable :
        \/ new[c] \in Domain(c)
        \/ c \in {"check_interval_seconds", "keep_alive_enabled"} /\ new[c] = NULL
  BY <1>8 DEF Editable, Domain
<1>10. ChangesOK(changes)
  BY <1>5, <1>6, <1>9 DEF ChangesOK
<1> QED
  BY <1>10 DEF changes, new

-----------------------------------------------------------------------------
(* The local state of a sweep. *)

LEMMA IdleType == Sched!IdleSweep \in Sched!SweepState
BY PingGuardAssumption, OneModel DEF Sched!IdleSweep, Sched!SweepState, CheckType

\* Where a loop or a batch leaves a sweep: holding nothing, its start unchanged.
Released(new, st) ==
  /\ new \in Sched!SweepState
  /\ new.rows = {} /\ new.items = {}
  /\ new.pc \in {"idle", "select"}
  /\ new.pc = "select" => new.now = st.now

LEMMA AfterLoopType ==
  ASSUME NEW st \in Sched!SweepState
  PROVE  Released(Sched!AfterLoop(st), st)
<1>1. CASE st.kind = "monitor"
  <2> DEFINE new == [st EXCEPT !.pc = "select", !.kind = "keep_alive",
                               !.batches = sweep_max_batches,
                               !.rows = {}, !.items = {}]
  <2>1. sweep_max_batches \in 0..sweep_max_batches
    BY PingGuardAssumption
  <2>2. new \in Sched!SweepState
    BY <2>1, OneModel DEF Sched!SweepState, CheckType
  <2>3. /\ new.rows = {} /\ new.items = {} /\ new.pc = "select"
        /\ new.now = st.now
    BY DEF Sched!SweepState
  <2>4. Sched!AfterLoop(st) = new
    BY <1>1 DEF Sched!AfterLoop
  <2> QED
    BY <2>2, <2>3, <2>4 DEF Released
<1>2. CASE st.kind # "monitor"
  <2>1. Sched!AfterLoop(st) = Sched!IdleSweep
    BY <1>2 DEF Sched!AfterLoop
  <2>2. /\ Sched!IdleSweep.rows = {} /\ Sched!IdleSweep.items = {}
        /\ Sched!IdleSweep.pc = "idle"
    BY DEF Sched!IdleSweep
  <2> QED
    BY <2>1, <2>2, IdleType DEF Released
<1> QED
  BY <1>1, <1>2

LEMMA AfterBatchType ==
  ASSUME NEW st \in Sched!SweepState, st.rows = {}, st.items = {}
  PROVE  Released(Sched!AfterBatch(st), st)
<1>1. CASE st.batches > 1
  <2>1. st.batches - 1 \in 0..sweep_max_batches
    BY <1>1, PingGuardAssumption DEF Sched!SweepState
  <2> QED
    BY <1>1, <2>1 DEF Sched!AfterBatch, Sched!SweepState, Released
<1>2. CASE ~(st.batches > 1)
  BY <1>2, AfterLoopType DEF Sched!AfterBatch
<1> QED
  BY <1>1, <1>2

-----------------------------------------------------------------------------
(* The inductive invariant.                                                *)

\* No id is handed out here, so the table only shrinks.
Ids == DOMAIN monitors \subseteq Mons

\* An update in progress will write columns of a row only.
SessionsOK ==
  \A r \in Requests : session[r].op = "update" => ChangesOK(session[r].changes)

\* A row a sweep has locked cannot be deleted under it.
RowsPresent == \A s \in Sweeps : sweep[s].rows \subseteq DOMAIN monitors

\* A sweep holds rows while it claims, items while it publishes or resets, and
\* is killed at the hard limit.
Shape(st, now) ==
  /\ st.pc # "claim" => st.rows = {}
  /\ st.pc \notin {"dispatch", "recover"} => st.items = {}
  /\ st.pc # "idle" => st.now <= now /\ now < st.now + HardLimit
SweepShape == \A s \in Sweeps : Shape(sweep[s], clock)

Base == TypeOK /\ Ids /\ SessionsOK /\ RowsPresent /\ SweepShape

\* What HealthClaimsAreExclusive says, in two parts.
Exclusive ==
  \A s, t \in Sweeps :
    s # t /\ sweep[s].kind = "monitor" /\ sweep[t].kind = "monitor" =>
      Sched!Holding(s) \cap Sched!Holding(t) = {}
Own ==
  \A s \in Sweeps : sweep[s].kind = "monitor" =>
    \A item \in sweep[s].items :
      item[1] \in DOMAIN monitors =>
        monitors[item[1]].next_check_at = sweep[s].now + item[2]

LEMMA TwoParts == HealthClaimsAreExclusive <=> Exclusive /\ Own
BY DEF HealthClaimsAreExclusive, Exclusive, Own

LEMMA SweepTypes ==
  ASSUME TypeOK, NEW s \in Sweeps
  PROVE  /\ sweep[s] \in Sched!SweepState /\ sweep[s].kind \in CheckType
         /\ sweep[s].now \in Nat /\ sweep[s].rows \subseteq Mons
         /\ sweep[s].items \subseteq Mons \X Intervals
         /\ Sched!ItemMons(s) \subseteq Mons
BY OneModel DEF TypeOK, Sched!SweepState, Sched!ItemMons, Sched!Mon

\* What a claim writes.
LEMMA ClaimRows ==
  ASSUME Base, NEW s \in Sweeps, Sched!Claim(s), NEW m \in DOMAIN monitors
  PROVE  /\ monitors'[m] \in Monitor
         /\ m \notin Sched!Claimable(s) \/ sweep[s].kind # "monitor" =>
              monitors'[m].next_check_at = monitors[m].next_check_at
         /\ m \in Sched!Claimable(s) /\ sweep[s].kind = "monitor" =>
              monitors'[m].next_check_at = sweep[s].now + IntervalOf(monitors[m], "monitor")
<1> DEFINE kind == sweep[s].kind
           next == sweep[s].now + IntervalOf(monitors[m], kind)
<1>1. monitors[m] \in Monitor /\ kind \in CheckType /\ sweep[s].now \in Nat
  BY SweepTypes, OneModel DEF Base, TypeOK, Api!TypeOK
<1>2. monitors'[m] = IF m \in Sched!Claimable(s)
                     THEN WithNextAt(monitors[m], kind, next) ELSE monitors[m]
  BY OneModelOperators DEF Sched!Claim, Sched!NextRun
<1>3. m \in Sched!Claimable(s) => next \in Nat
  BY <1>1, RowTypes, IntervalTypes, OneModelOperators DEF Sched!Claimable
<1> QED
  BY <1>1, <1>2, <1>3, WithNextAtRow

LEMMA ClaimItems ==
  ASSUME Base, NEW s \in Sweeps, Sched!Claim(s)
  PROVE  /\ Sched!Claimable(s) \subseteq sweep[s].rows
         /\ Sched!Claimable(s) \subseteq Mons
         /\ sweep'[s] = [sweep[s] EXCEPT !.pc = "dispatch", !.rows = {}, !.items =
              {<<m, IntervalOf(monitors[m], sweep[s].kind)>> : m \in Sched!Claimable(s)}]
         /\ sweep'[s].items =
              {<<m, IntervalOf(monitors[m], sweep[s].kind)>> : m \in Sched!Claimable(s)}
         /\ sweep'[s].items \subseteq Mons \X Intervals
<1> DEFINE items == {<<m, IntervalOf(monitors[m], sweep[s].kind)>> : m \in Sched!Claimable(s)}
<1>1. /\ Sched!Claimable(s) \subseteq sweep[s].rows /\ sweep[s].rows \subseteq DOMAIN monitors
      /\ Sched!Claimable(s) \subseteq Mons
  BY SweepTypes DEF Base, RowsPresent, Sched!Claimable
<1>2. items = {<<m, Sched!IntervalOf(monitors[m], sweep[s].kind)>> : m \in Sched!Claimable(s)}
  BY OneModelOperators
<1>3. sweep'[s] = [sweep[s] EXCEPT !.pc = "dispatch", !.rows = {}, !.items = items]
  BY <1>2 DEF Sched!Claim, Sched!NextRun, Base, TypeOK, Sched!SweepState
<1>4. sweep'[s].items = items
  BY <1>3, SweepTypes DEF Base, Sched!SweepState
<1>5. \A m \in Sched!Claimable(s) : IntervalOf(monitors[m], sweep[s].kind) \in Intervals
  <2> SUFFICES ASSUME NEW m \in Sched!Claimable(s)
               PROVE  IntervalOf(monitors[m], sweep[s].kind) \in Intervals
    OBVIOUS
  <2>1. monitors[m] \in Monitor /\ sweep[s].kind \in CheckType
    BY <1>1, SweepTypes, OneModel DEF Base, TypeOK, Api!TypeOK
  <2>2. IntervalOf(monitors[m], sweep[s].kind) # NULL
    BY OneModelOperators DEF Sched!Claimable
  <2> QED
    BY <2>1, <2>2, RowTypes
<1>6. items \subseteq Mons \X Intervals
  BY <1>1, <1>5
<1> QED
  BY <1>1, <1>3, <1>4, <1>6

\* What a reset writes.
LEMMA RecoverRows ==
  ASSUME Base, NEW s \in Sweeps, Sched!Recover(s), NEW m \in DOMAIN monitors
  PROVE  /\ monitors'[m] \in Monitor
         /\ m \notin Sched!ItemMons(s) \/ sweep[s].kind # "monitor" =>
              monitors'[m].next_check_at = monitors[m].next_check_at
<1>1. monitors[m] \in Monitor /\ sweep[s].kind \in CheckType /\ sweep[s].now \in Nat
  BY SweepTypes, OneModel DEF Base, TypeOK, Api!TypeOK
<1>2. monitors'[m] = IF m \in Sched!ItemMons(s)
                     THEN WithNextAt(monitors[m], sweep[s].kind, sweep[s].now)
                     ELSE monitors[m]
  BY OneModelOperators DEF Sched!Recover
<1> QED
  BY <1>1, <1>2, WithNextAtRow

-----------------------------------------------------------------------------
(* Type correctness, with the ids, the sessions and the sweeps' shape. *)

LEMMA PublishType ==
  ASSUME TypeOK, NEW s \in Sweeps, NEW item \in sweep[s].items, Sched!Publish(s, item)
  PROVE  queue' \subseteq Message /\ sent' \in Nat
<1>1. /\ sweep[s].kind \in CheckType /\ item[1] \in Mons /\ item[2] \in Intervals
      /\ clock \in Nat /\ sent \in Nat /\ queue \subseteq Message
  BY SweepTypes, OneModel DEF TypeOK, Api!TypeOK
<1>2. item[1] \in Nat /\ clock + item[2] \in Nat
  BY <1>1, MonsTypes, IntervalTypes
<1>3. Sched!NewMessage(sent, sweep[s].kind, Sched!Mon(item), clock, clock + item[2]) \in Message
  BY <1>1, <1>2 DEF Sched!NewMessage, Sched!Mon, Message
<1> QED
  BY <1>1, <1>3 DEF Sched!Publish

\* The parts of TypeOK, as a step preserves them.
TableTypes ==
  /\ DOMAIN monitors \subseteq Mons /\ DOMAIN monitors \subseteq 1..(next_id - 1)
  /\ \A m \in DOMAIN monitors : monitors[m] \in Monitor
SharedTypes ==
  /\ clock \in Nat /\ sent \in Nat /\ queue \subseteq Message
  /\ faults \in 0..MaxFaults /\ lost \subseteq CheckType \X Mons
SessionTypes ==
  /\ next_id \in Nat \ {0} /\ DOMAIN session = Requests
  /\ \A r \in Requests :
       /\ session[r].op \in {"idle", "create", "update", "delete", "check"}
       /\ session[r].op = "create" => session[r].row \in Monitor
       /\ session[r].op \in {"update", "delete", "check"} => session[r].id \in 1..(next_id - 1)
SweepsTypes == sweep \in [Sweeps -> Sched!SweepState]
StartTypes == starts \in [Mons -> 0..MaxStarts]

LEMMA TypeParts ==
  TypeOK /\ Ids <=> TableTypes /\ SharedTypes /\ SessionTypes /\ SweepsTypes /\ StartTypes
BY OneModel DEF TypeOK, Api!TypeOK, Ids, TableTypes, SharedTypes, SessionTypes,
                SweepsTypes, StartTypes

\* Only the claim and the reset write rows, and they write rows of the table.
LEMMA SweepKeepsTable ==
  ASSUME Base, NEW s \in Sweeps, SweepStep(s)
  PROVE  /\ DOMAIN monitors' = DOMAIN monitors
         /\ \A m \in DOMAIN monitors : monitors'[m] \in Monitor
<1>1. CASE Sched!Claim(s)
  BY <1>1, ClaimRows DEF Sched!Claim
<1>2. CASE Sched!Recover(s)
  BY <1>2, RecoverRows DEF Sched!Recover
<1>3. CASE ~Sched!Claim(s) /\ ~Sched!Recover(s)
  <2>1. monitors' = monitors
    BY <1>3 DEF SweepStep, Sched!Step, Sched!Begin, Sched!SelectNone, Sched!SelectBatch,
       Sched!Enqueue, Sched!EnqueueFails, Sched!EndBatch, Sched!RecoverFails, Sched!Crash
  <2> QED
    BY <2>1, TypeParts DEF Base, TableTypes
<1> QED
  BY <1>1, <1>2, <1>3

LEMMA SweepKeepsShared ==
  ASSUME Base, NEW s \in Sweeps, SweepStep(s)
  PROVE  SharedTypes'
<1>1. /\ SharedTypes /\ clock' = clock
      /\ sweep[s].kind \in CheckType /\ Sched!ItemMons(s) \subseteq Mons
  BY SweepTypes, TypeParts DEF Base, SweepStep, Sched!Step, Sched!Begin, Sched!SelectNone,
     Sched!SelectBatch, Sched!Claim, Sched!Enqueue, Sched!EnqueueFails, Sched!EndBatch,
     Sched!Recover, Sched!RecoverFails, Sched!Crash
<1>2. CASE Sched!Enqueue(s)
  <2>1. PICK item \in sweep[s].items : Sched!Publish(s, item)
    BY <1>2 DEF Sched!Enqueue
  <2> QED
    BY <1>1, <1>2, <2>1, PublishType DEF Base, SharedTypes, Sched!Enqueue
<1>3. CASE Sched!EnqueueFails(s)
  <2>1. PICK item \in sweep[s].items : Sched!Publish(s, item) \/ UNCHANGED <<queue, sent>>
    BY <1>3 DEF Sched!EnqueueFails
  <2>2. queue' \subseteq Message /\ sent' \in Nat
    BY <1>1, <2>1, PublishType DEF Base, SharedTypes
  <2>3. faults' \in 0..MaxFaults /\ lost' = lost
    BY <1>1, <1>3, PingGuardAssumption DEF SharedTypes, Sched!EnqueueFails
  <2> QED
    BY <1>1, <2>2, <2>3 DEF SharedTypes
<1>4. CASE Sched!RecoverFails(s) \/ Sched!Crash(s)
  <2>1. {sweep[s].kind} \X Sched!ItemMons(s) \subseteq CheckType \X Mons
    BY <1>1
  <2>2. faults' \in 0..MaxFaults
    BY <1>1, <1>4, PingGuardAssumption DEF SharedTypes, Sched!RecoverFails, Sched!Crash
  <2> QED
    BY <1>1, <1>4, <2>1, <2>2 DEF SharedTypes, Sched!RecoverFails, Sched!Crash
<1>5. CASE Sched!Claim(s)
  BY <1>1, <1>5 DEF SharedTypes, Sched!Claim
<1>6. CASE \/ Sched!Begin(s) \/ Sched!SelectNone(s) \/ Sched!SelectBatch(s)
           \/ Sched!EndBatch(s) \/ Sched!Recover(s)
  BY <1>1, <1>6 DEF SharedTypes, Sched!Begin, Sched!SelectNone, Sched!SelectBatch,
     Sched!EndBatch, Sched!Recover
<1> QED
  BY <1>2, <1>3, <1>4, <1>5, <1>6 DEF SweepStep, Sched!Step

\* The state a step leaves its sweep in.
LEMMA SweepKeepsState ==
  ASSUME Base, NEW s \in Sweeps, SweepStep(s)
  PROVE  /\ SweepsTypes'
         /\ \A t \in Sweeps \ {s} : sweep'[t] = sweep[t]
         /\ clock' = clock
<1>1. sweep \in [Sweeps -> Sched!SweepState] /\ sweep[s] \in Sched!SweepState /\ clock \in Nat
  BY TypeParts DEF Base, SweepsTypes, SharedTypes
<1>2. SUFFICES sweep' = [sweep EXCEPT ![s] = sweep'[s]] /\ sweep'[s] \in Sched!SweepState
               /\ clock' = clock
  BY <1>1, <1>2 DEF SweepsTypes
<1>3. CASE Sched!Begin(s)
  <2>1. sweep_max_batches \in 0..sweep_max_batches
    BY PingGuardAssumption
  <2>2. [Sched!IdleSweep EXCEPT !.pc = "select", !.now = clock,
                                !.batches = sweep_max_batches] \in Sched!SweepState
    BY <1>1, <2>1, IdleType DEF Sched!SweepState
  <2> QED
    BY <1>1, <1>3, <2>2 DEF Sched!Begin
<1>4. CASE Sched!SelectNone(s) \/ Sched!Recover(s) \/ Sched!RecoverFails(s)
  BY <1>1, <1>4, AfterLoopType
     DEF Released, Sched!SelectNone, Sched!Recover, Sched!RecoverFails
<1>5. CASE Sched!SelectBatch(s)
  <2>1. PICK B \in SUBSET Sched!DueRows(s) :
          sweep' = [sweep EXCEPT ![s].pc = "claim", ![s].rows = B]
    BY <1>5 DEF Sched!SelectBatch
  <2>2. B \in SUBSET Mons
    BY DEF Sched!DueRows, Base, Ids
  <2>3. [sweep[s] EXCEPT !.pc = "claim", !.rows = B] \in Sched!SweepState
    BY <1>1, <2>2 DEF Sched!SweepState
  <2> QED
    BY <1>1, <1>5, <2>1, <2>3 DEF Sched!SelectBatch
<1>6. CASE Sched!Claim(s)
  <2>1. /\ sweep'[s] = [sweep[s] EXCEPT !.pc = "dispatch", !.rows = {},
                                        !.items = sweep'[s].items]
        /\ sweep'[s].items \in SUBSET (Mons \X Intervals)
    BY <1>6, ClaimItems
  <2>2. sweep'[s] \in Sched!SweepState
    BY <1>1, <2>1 DEF Sched!SweepState
  <2> QED
    BY <1>1, <1>6, <2>2 DEF Sched!Claim, Sched!NextRun
<1>7. CASE Sched!Enqueue(s)
  <2>1. PICK item \in sweep[s].items :
          sweep' = [sweep EXCEPT ![s].items = @ \ {item}]
    BY <1>7 DEF Sched!Enqueue
  <2>2. [sweep[s] EXCEPT !.items = @ \ {item}] \in Sched!SweepState
    BY <1>1 DEF Sched!SweepState
  <2> QED
    BY <1>1, <1>7, <2>1, <2>2 DEF Sched!Enqueue
<1>8. CASE Sched!EnqueueFails(s)
  <2>1. sweep' = [sweep EXCEPT ![s].pc = "recover", ![s].items = sweep[s].items]
    BY <1>8 DEF Sched!EnqueueFails, Sched!Failed
  <2>2. [sweep[s] EXCEPT !.pc = "recover", !.items = sweep[s].items] \in Sched!SweepState
    BY <1>1 DEF Sched!SweepState
  <2> QED
    BY <1>1, <1>8, <2>1, <2>2 DEF Sched!EnqueueFails
<1>9. CASE Sched!EndBatch(s)
  <2>1. sweep[s].rows = {} /\ sweep[s].items = {}
    BY <1>9 DEF Base, SweepShape, Shape, Sched!EndBatch
  <2> QED
    BY <1>1, <1>9, <2>1, AfterBatchType DEF Released, Sched!EndBatch
<1>10. CASE Sched!Crash(s)
  BY <1>1, <1>10, IdleType DEF Sched!Crash
<1> QED
  BY <1>3, <1>4, <1>5, <1>6, <1>7, <1>8, <1>9, <1>10 DEF SweepStep, Sched!Step

-----------------------------------------------------------------------------
(* What a sweep holds. *)

\* A step of a sweep that neither locks nor claims lets go of some of what it
\* holds, and touches rows only when it lets go of all.
LEMMA StepReleases ==
  ASSUME Base, NEW s \in Sweeps, SweepStep(s), ~Sched!SelectBatch(s), ~Sched!Claim(s)
  PROVE  /\ sweep'[s].rows \subseteq sweep[s].rows
         /\ sweep'[s].items \subseteq sweep[s].items
         /\ sweep'[s].rows # {} \/ sweep'[s].items # {} =>
              sweep'[s].kind = sweep[s].kind /\ sweep'[s].now = sweep[s].now
         /\ Shape(sweep'[s], clock)
         /\ \A m \in DOMAIN monitors :
              \/ monitors'[m].next_check_at = monitors[m].next_check_at
              \/ sweep[s].kind = "monitor" /\ m \in Sched!ItemMons(s) /\ sweep'[s].items = {}
<1>1. /\ sweep[s] \in Sched!SweepState /\ Shape(sweep[s], clock) /\ clock \in Nat
      /\ DOMAIN sweep = Sweeps /\ HardLimit \in Nat \ {0}
  BY SweepTypes, PingGuardAssumption, TypeParts
     DEF Base, SweepShape, SharedTypes, SweepsTypes
<1>2. CASE Sched!Begin(s)
  <2> DEFINE new == [Sched!IdleSweep EXCEPT !.pc = "select", !.now = clock,
                                            !.batches = sweep_max_batches]
  <2>1. /\ new.rows = {} /\ new.items = {} /\ new.now = clock /\ new.pc = "select"
    BY DEF Sched!IdleSweep
  <2>2. sweep'[s] = new /\ monitors' = monitors
    BY <1>1, <1>2 DEF Sched!Begin
  <2> QED
    BY <1>1, <2>1, <2>2 DEF Shape
<1>3. CASE Sched!SelectNone(s) \/ Sched!RecoverFails(s) \/ Sched!EndBatch(s)
  <2>1. sweep[s].pc # "idle" /\ monitors' = monitors
    BY <1>3 DEF Sched!SelectNone, Sched!RecoverFails, Sched!EndBatch
  <2>2. Released(sweep'[s], sweep[s])
    BY <1>1, <1>3, AfterLoopType, AfterBatchType
       DEF Shape, Sched!SelectNone, Sched!RecoverFails, Sched!EndBatch
  <2> QED
    BY <1>1, <2>1, <2>2 DEF Shape, Released
<1>4. CASE Sched!Enqueue(s)
  <2>1. PICK item \in sweep[s].items :
          sweep' = [sweep EXCEPT ![s].items = @ \ {item}]
    BY <1>4 DEF Sched!Enqueue
  <2>2. /\ sweep'[s].rows = sweep[s].rows /\ sweep'[s].items \subseteq sweep[s].items
        /\ sweep'[s].pc = sweep[s].pc /\ sweep'[s].now = sweep[s].now
        /\ sweep'[s].kind = sweep[s].kind
    BY <1>1, <2>1 DEF Sched!SweepState
  <2> QED
    BY <1>1, <1>4, <2>2 DEF Shape, Sched!Enqueue
<1>5. CASE Sched!EnqueueFails(s)
  <2>1. sweep' = [sweep EXCEPT ![s].pc = "recover", ![s].items = sweep[s].items]
    BY <1>5 DEF Sched!EnqueueFails, Sched!Failed
  <2>2. /\ sweep'[s].rows = sweep[s].rows /\ sweep'[s].items = sweep[s].items
        /\ sweep'[s].pc = "recover" /\ sweep'[s].now = sweep[s].now
        /\ sweep'[s].kind = sweep[s].kind
    BY <1>1, <2>1 DEF Sched!SweepState
  <2> QED
    BY <1>1, <1>5, <2>2 DEF Shape, Sched!EnqueueFails
<1>6. CASE Sched!Crash(s)
  <2>1. sweep'[s] = Sched!IdleSweep /\ monitors' = monitors
    BY <1>1, <1>6 DEF Sched!Crash
  <2>2. /\ Sched!IdleSweep.rows = {} /\ Sched!IdleSweep.items = {}
        /\ Sched!IdleSweep.pc = "idle"
    BY DEF Sched!IdleSweep
  <2> QED
    BY <2>1, <2>2 DEF Shape
<1>7. CASE Sched!Recover(s)
  <2>1. Released(sweep'[s], sweep[s]) /\ sweep[s].pc = "recover"
    BY <1>1, <1>7, AfterLoopType DEF Sched!Recover
  <2>2. \A m \in DOMAIN monitors :
          \/ monitors'[m].next_check_at = monitors[m].next_check_at
          \/ sweep[s].kind = "monitor" /\ m \in Sched!ItemMons(s)
    BY <1>7, RecoverRows
  <2> QED
    BY <1>1, <2>1, <2>2 DEF Shape, Released
<1> QED
  BY <1>2, <1>3, <1>4, <1>5, <1>6, <1>7 DEF SweepStep, Sched!Step

\* A health check one sweep holds is not due for another that is alive: the
\* claim wrote a time in the future of every sweep younger than an interval.
LEMMA HeldNotDue ==
  ASSUME Sched!LimitBelowIntervals, Base, Own, NEW s \in Sweeps, NEW t \in Sweeps,
         sweep[s].kind = "monitor", sweep[t].kind = "monitor", sweep[t].pc # "idle",
         NEW m \in Sched!ItemMons(s), m \in DOMAIN monitors
  PROVE  ~Sched!Due(monitors[m], "monitor", sweep[t].now)
<1>1. PICK item \in sweep[s].items : m = item[1]
  BY DEF Sched!ItemMons, Sched!Mon
<1>2. /\ item[2] \in Intervals /\ sweep[s].now \in Nat /\ sweep[t].now \in Nat
      /\ clock \in Nat /\ HardLimit \in Nat
  BY SweepTypes, PingGuardAssumption, TypeParts DEF Base, SharedTypes
<1>3. monitors[m].next_check_at = sweep[s].now + item[2]
  BY <1>1 DEF Own
<1>4. clock < sweep[s].now + HardLimit /\ sweep[t].now <= clock
  BY <1>1 DEF Base, SweepShape, Shape
<1>5. HardLimit <= item[2] /\ item[2] \in Nat
  BY <1>2, IntervalTypes DEF Sched!LimitBelowIntervals
<1>6. ~(monitors[m].next_check_at <= sweep[t].now)
  BY <1>2, <1>3, <1>4, <1>5
<1> QED
  BY <1>6, OneModelOperators

LEMMA ReleaseStep ==
  ASSUME Base, Exclusive, Own, NEW s \in Sweeps,
         SweepStep(s), ~Sched!SelectBatch(s), ~Sched!Claim(s)
  PROVE  Exclusive' /\ Own'
<1>1. /\ \A t \in Sweeps \ {s} : sweep'[t] = sweep[t]
      /\ clock' = clock /\ DOMAIN monitors' = DOMAIN monitors
  BY SweepKeepsState, SweepKeepsTable
<1>2. /\ sweep'[s].rows \subseteq sweep[s].rows
      /\ sweep'[s].items \subseteq sweep[s].items
      /\ sweep'[s].rows # {} \/ sweep'[s].items # {} =>
           sweep'[s].kind = sweep[s].kind /\ sweep'[s].now = sweep[s].now
      /\ Shape(sweep'[s], clock)
      /\ \A m \in DOMAIN monitors :
           \/ monitors'[m].next_check_at = monitors[m].next_check_at
           \/ sweep[s].kind = "monitor" /\ m \in Sched!ItemMons(s) /\ sweep'[s].items = {}
  BY StepReleases
<1>3. Exclusive'
  <2> SUFFICES ASSUME NEW t \in Sweeps, NEW u \in Sweeps, t # u,
                      sweep'[t].kind = "monitor", sweep'[u].kind = "monitor",
                      NEW m, m \in Sched!Holding(t)', m \in Sched!Holding(u)'
               PROVE  FALSE
    BY DEF Exclusive
  <2>1. m \in Sched!Holding(t) /\ m \in Sched!Holding(u)
    BY <1>1, <1>2 DEF Sched!Holding, Sched!ItemMons
  <2>2. sweep[t].kind = "monitor" /\ sweep[u].kind = "monitor"
    BY <1>1, <1>2 DEF Sched!Holding, Sched!ItemMons
  <2> QED
    BY <2>1, <2>2 DEF Exclusive
<1>4. Own'
  <2> SUFFICES ASSUME NEW t \in Sweeps, sweep'[t].kind = "monitor",
                      NEW item \in sweep'[t].items, item[1] \in DOMAIN monitors'
               PROVE  monitors'[item[1]].next_check_at = sweep'[t].now + item[2]
    BY DEF Own
  <2>1. /\ item \in sweep[t].items /\ sweep[t].kind = "monitor"
        /\ sweep'[t].now = sweep[t].now
    BY <1>1, <1>2
  <2>2. item[1] \in Sched!ItemMons(t)
    BY <2>1 DEF Sched!ItemMons, Sched!Mon
  <2>3. monitors'[item[1]].next_check_at = monitors[item[1]].next_check_at
    <3>1. CASE t = s
      BY <1>1, <1>2, <3>1
    <3>2. CASE t # s
      <4>1. sweep[s].kind = "monitor" => item[1] \notin Sched!ItemMons(s)
        BY <2>1, <2>2, <3>2 DEF Exclusive, Sched!Holding
      <4> QED
        BY <1>1, <1>2, <4>1
    <3> QED
      BY <3>1, <3>2
  <2> QED
    BY <1>1, <2>1, <2>3 DEF Own
<1> QED
  BY <1>3, <1>4

\* The locking read takes rows nobody has locked and no live claim makes due.
LEMMA SelectBatchStep ==
  ASSUME Sched!LimitBelowIntervals, Base, Exclusive, Own, NEW s \in Sweeps,
         SweepStep(s), Sched!SelectBatch(s)
  PROVE  Exclusive' /\ Own'
<1>1. PICK B \in SUBSET Sched!DueRows(s) :
        sweep' = [sweep EXCEPT ![s].pc = "claim", ![s].rows = B]
  BY DEF Sched!SelectBatch
<1>2. /\ sweep'[s].pc = "claim" /\ sweep'[s].rows = B
      /\ sweep'[s].items = sweep[s].items /\ sweep'[s].kind = sweep[s].kind
      /\ sweep'[s].now = sweep[s].now
      /\ \A t \in Sweeps \ {s} : sweep'[t] = sweep[t]
  BY <1>1, SweepTypes, TypeParts DEF Base, SweepsTypes, Sched!SweepState
<1>3. /\ monitors' = monitors /\ clock' = clock
      /\ sweep[s].pc = "select" /\ sweep[s].items = {}
  BY DEF Sched!SelectBatch, Base, SweepShape, Shape
<1>4. \A m \in B : /\ m \in DOMAIN monitors
                   /\ Sched!Due(monitors[m], sweep[s].kind, sweep[s].now)
                   /\ \A t \in Sweeps : m \notin sweep[t].rows
  BY DEF Sched!DueRows, Sched!Locked
<1>5. Own'
  BY <1>2, <1>3 DEF Own
<1>6. ASSUME NEW t \in Sweeps \ {s}, sweep[s].kind = "monitor", sweep[t].kind = "monitor"
      PROVE  B \cap Sched!Holding(t) = {}
  BY <1>3, <1>4, <1>6, HeldNotDue DEF Sched!Holding
<1>7. \A t \in Sweeps \ {s} : Sched!Holding(t)' = Sched!Holding(t)
  BY <1>2 DEF Sched!Holding, Sched!ItemMons
<1>8. Sched!Holding(s)' = B
  BY <1>2, <1>3 DEF Sched!Holding, Sched!ItemMons
<1>9. Exclusive'
  BY <1>2, <1>6, <1>7, <1>8 DEF Exclusive
<1> QED
  BY <1>5, <1>9

\* The claim turns locked rows into items that carry the time it wrote.
LEMMA ClaimStep ==
  ASSUME Base, Exclusive, Own, NEW s \in Sweeps, SweepStep(s), Sched!Claim(s)
  PROVE  Exclusive' /\ Own'
<1> DEFINE kind == sweep[s].kind
<1>1. /\ \A t \in Sweeps \ {s} : sweep'[t] = sweep[t]
      /\ clock' = clock /\ DOMAIN monitors' = DOMAIN monitors
      /\ sweep[s].pc = "claim"
  BY SweepKeepsState, SweepKeepsTable DEF Sched!Claim
<1>2. /\ Sched!Claimable(s) \subseteq sweep[s].rows
      /\ sweep'[s].items = {<<m, IntervalOf(monitors[m], kind)>> : m \in Sched!Claimable(s)}
      /\ sweep'[s].pc = "dispatch" /\ sweep'[s].rows = {}
      /\ sweep'[s].kind = kind /\ sweep'[s].now = sweep[s].now
  BY ClaimItems, SweepTypes DEF Base, Sched!SweepState
<1>3. Sched!ItemMons(s)' \subseteq Sched!Claimable(s)
  BY <1>2 DEF Sched!ItemMons, Sched!Mon
<1>4. Exclusive'
  <2>1. Sched!Holding(s)' \subseteq Sched!Holding(s)
    BY <1>2, <1>3 DEF Sched!Holding
  <2>2. \A t \in Sweeps \ {s} : Sched!Holding(t)' = Sched!Holding(t)
    BY <1>1 DEF Sched!Holding, Sched!ItemMons
  <2> QED
    BY <1>1, <1>2, <2>1, <2>2 DEF Exclusive
<1>5. Own'
  <2> SUFFICES ASSUME NEW t \in Sweeps, sweep'[t].kind = "monitor",
                      NEW item \in sweep'[t].items, item[1] \in DOMAIN monitors'
               PROVE  monitors'[item[1]].next_check_at = sweep'[t].now + item[2]
    BY DEF Own
  <2>1. CASE t = s
    <3>1. PICK m \in Sched!Claimable(s) : item = <<m, IntervalOf(monitors[m], kind)>>
      BY <1>2, <2>1
    <3>2. monitors'[m].next_check_at = sweep[s].now + IntervalOf(monitors[m], "monitor")
      BY <1>1, <1>2, <2>1, <3>1, ClaimRows
    <3> QED
      BY <1>2, <2>1, <3>1, <3>2
  <2>2. CASE t # s
    <3>1. item \in sweep[t].items /\ sweep'[t] = sweep[t] /\ sweep[t].kind = "monitor"
      BY <1>1, <2>2
    <3>2. item[1] \in Sched!ItemMons(t)
      BY <3>1 DEF Sched!ItemMons, Sched!Mon
    <3>3. item[1] \notin Sched!Claimable(s) \/ kind # "monitor"
      BY <1>2, <2>2, <3>1, <3>2 DEF Exclusive, Sched!Holding
    <3>4. monitors'[item[1]].next_check_at = monitors[item[1]].next_check_at
      BY <1>1, <3>3, ClaimRows
    <3> QED
      BY <1>1, <3>1, <3>4 DEF Own
  <2> QED
    BY <2>1, <2>2
<1> QED
  BY <1>4, <1>5

\* No step lets a sweep hold a row that is gone, or outlive the hard limit.
LEMMA SweepKeepsShape ==
  ASSUME Base, NEW s \in Sweeps, SweepStep(s)
  PROVE  RowsPresent' /\ SweepShape'
<1>1. /\ \A t \in Sweeps \ {s} : sweep'[t] = sweep[t]
      /\ clock' = clock /\ DOMAIN monitors' = DOMAIN monitors
  BY SweepKeepsState, SweepKeepsTable
<1>2. SUFFICES sweep'[s].rows \subseteq DOMAIN monitors /\ Shape(sweep'[s], clock)
  BY <1>1, <1>2 DEF Base, RowsPresent, SweepShape
<1>3. CASE ~Sched!SelectBatch(s) /\ ~Sched!Claim(s)
  BY <1>3, StepReleases DEF Base, RowsPresent
<1>4. CASE Sched!SelectBatch(s)
  <2>1. PICK B \in SUBSET Sched!DueRows(s) :
          sweep' = [sweep EXCEPT ![s].pc = "claim", ![s].rows = B]
    BY <1>4 DEF Sched!SelectBatch
  <2>2. /\ sweep'[s].pc = "claim" /\ sweep'[s].rows = B
        /\ sweep'[s].items = sweep[s].items /\ sweep'[s].now = sweep[s].now
    BY <2>1, SweepTypes, TypeParts DEF Base, SweepsTypes, Sched!SweepState
  <2> QED
    BY <1>4, <2>2 DEF Sched!SelectBatch, Sched!DueRows, Base, SweepShape, Shape
<1>5. CASE Sched!Claim(s)
  <2>1. /\ sweep'[s].pc = "dispatch" /\ sweep'[s].rows = {}
        /\ sweep'[s].now = sweep[s].now
    BY <1>5, ClaimItems, SweepTypes DEF Base, Sched!SweepState
  <2> QED
    BY <1>5, <2>1 DEF Sched!Claim, Base, SweepShape, Shape
<1> QED
  BY <1>3, <1>4, <1>5

-----------------------------------------------------------------------------
(* The steps of the API. *)

\* The rows a step of a handler leaves are those there were, with the clock of
\* the health checks untouched, and no row a sweep has locked goes away.
HandlerFrame ==
  /\ sweep' = sweep /\ clock' = clock
  /\ DOMAIN monitors' \subseteq DOMAIN monitors
  /\ DOMAIN monitors \cap Sched!Locked \subseteq DOMAIN monitors'
  /\ \A m \in DOMAIN monitors' :
       monitors'[m].next_check_at = monitors[m].next_check_at

LEMMA HandlerKeepsShape ==
  ASSUME Base, HandlerFrame
  PROVE  RowsPresent' /\ SweepShape'
BY DEF Base, RowsPresent, SweepShape, HandlerFrame, Sched!Locked

LEMMA HandlerKeepsClaims ==
  ASSUME Exclusive, Own, HandlerFrame
  PROVE  Exclusive' /\ Own'
BY DEF Exclusive, Own, HandlerFrame, Sched!Holding, Sched!ItemMons

\* The sequence may move on.
LEMMA IdsGrow ==
  ASSUME NEW n \in Nat \ {0}, NEW next \in {n, n + 1}
  PROVE  next \in Nat \ {0} /\ 1..(n - 1) \subseteq 1..(next - 1)
<1>1. CASE next = n
  BY <1>1
<1>2. CASE next = n + 1
  <2>1. next \in Nat \ {0} /\ next - 1 = n
    BY <1>2
  <2>2. \A i \in 1..(n - 1) : i \in 1..n
    OBVIOUS
  <2> QED
    BY <2>1, <2>2
<1> QED
  BY <1>1, <1>2

LEMMA HandlerStepOK ==
  ASSUME Base, NEW r \in Requests, HandlerStep(r)
  PROVE  Base' /\ HandlerFrame
<1>1. /\ TableTypes /\ SharedTypes /\ SessionTypes /\ SweepsTypes /\ StartTypes
      /\ SessionsOK
  BY TypeParts DEF Base
<1>2. /\ monitors' = monitors /\ clock' = clock
      /\ UNCHANGED <<queue, sent, sweeps, starts>>
  BY DEF HandlerStep, Api!UpdateGet, Api!DeleteGet, Api!Abort
<1>3. SessionTypes' /\ SessionsOK' /\ next_id' \in {next_id, next_id + 1}
  <2>1. CASE Api!UpdateGet(r)
    <3>1. PICK i \in DOMAIN monitors, p \in UpdatePayloads :
            /\ Api!Accepted(p, monitors[i])
            /\ session' = [session EXCEPT ![r] =
                 [op |-> "update", id |-> i, changes |->
                    Api!Changes(monitors[i], Api!Updated(p, monitors[i], clock))]]
      BY <2>1 DEF Api!UpdateGet
    <3>2. /\ p \in Api!MonitorUpdate /\ monitors[i] \in Monitor /\ clock \in Nat
          /\ i \in 1..(next_id - 1)
      BY <1>1, PingGuardAssumption DEF TableTypes, SharedTypes
    <3>3. ChangesOK(Api!Changes(monitors[i], Api!Updated(p, monitors[i], clock)))
      BY <3>1, <3>2, UpdatedOK
    <3>4. next_id' = next_id
      BY <2>1 DEF Api!UpdateGet
    <3> QED
      BY <1>1, <3>1, <3>2, <3>3, <3>4 DEF SessionTypes, SessionsOK
  <2>2. CASE Api!DeleteGet(r)
    <3>1. PICK i \in DOMAIN monitors :
            session' = [session EXCEPT ![r] = [op |-> "delete", id |-> i]]
      BY <2>2 DEF Api!DeleteGet
    <3> QED
      BY <1>1, <2>2, <3>1 DEF Api!DeleteGet, SessionTypes, SessionsOK, TableTypes
  <2>3. CASE Api!Abort(r)
    <3>1. session' = [session EXCEPT ![r] = Api!Idle] /\ next_id' \in {next_id, next_id + 1}
      BY <2>3 DEF Api!Abort, Api!End
    <3>2. next_id' \in Nat \ {0} /\ 1..(next_id - 1) \subseteq 1..(next_id' - 1)
      BY <1>1, <3>1, IdsGrow DEF SessionTypes
    <3> QED
      BY <1>1, <3>1, <3>2 DEF SessionTypes, SessionsOK, Api!Idle
  <2> QED
    BY <2>1, <2>2, <2>3 DEF HandlerStep
<1>4. TableTypes'
  <2>1. 1..(next_id - 1) \subseteq 1..(next_id' - 1)
    BY <1>1, <1>3, IdsGrow DEF SessionTypes
  <2> QED
    BY <1>1, <1>2, <2>1 DEF TableTypes
<1>5. SharedTypes' /\ SweepsTypes' /\ StartTypes'
  BY <1>1, <1>2 DEF SharedTypes, SweepsTypes, StartTypes, sweeps
<1>6. HandlerFrame
  BY <1>2 DEF HandlerFrame, sweeps
<1>7. TypeOK' /\ Ids'
  BY <1>3, <1>4, <1>5, TypeParts, PTL
<1> QED
  BY <1>3, <1>6, <1>7, HandlerKeepsShape DEF Base

LEMMA UpdateCommitOK ==
  ASSUME Base, NEW r \in Requests, UpdateCommit(r)
  PROVE  Base' /\ HandlerFrame
<1> DEFINE id == session[r].id
<1>1. /\ TableTypes /\ SharedTypes /\ SessionTypes /\ SweepsTypes /\ StartTypes
      /\ SessionsOK
  BY TypeParts DEF Base
<1>2. /\ session[r].op = "update" /\ id \in DOMAIN monitors
      /\ Api!Storable(session[r].changes)
      /\ monitors' = [monitors EXCEPT ![id] = Api!Write(@, session[r].changes)]
      /\ session' = [session EXCEPT ![r] = Api!Idle]
      /\ UNCHANGED <<clock, next_id, queue, sent, sweeps>>
  BY DEF UpdateCommit, Api!UpdateCommit, Api!End
<1>3. /\ Api!Write(monitors[id], session[r].changes) \in Monitor
      /\ Api!Write(monitors[id], session[r].changes).next_check_at =
           monitors[id].next_check_at
  BY <1>1, <1>2, WriteOK DEF TableTypes, SessionsOK
<1>4. /\ DOMAIN monitors' = DOMAIN monitors
      /\ \A m \in DOMAIN monitors :
           /\ monitors'[m] \in Monitor
           /\ monitors'[m].next_check_at = monitors[m].next_check_at
  BY <1>1, <1>2, <1>3 DEF TableTypes
<1>5. TableTypes' /\ SharedTypes' /\ SweepsTypes'
  BY <1>1, <1>2, <1>4 DEF TableTypes, SharedTypes, SweepsTypes, sweeps
<1>6. SessionTypes' /\ SessionsOK'
  BY <1>1, <1>2 DEF SessionTypes, SessionsOK, Api!Idle
<1>7. StartTypes'
  <2>1. /\ id \in Mons /\ starts[id] \in Nat
        /\ starts' = [starts EXCEPT ![id] = IF StartsClock(session[r].changes) THEN @ + 1 ELSE @]
        /\ starts'[id] <= MaxStarts
    BY <1>1, <1>2, PingGuardAssumption DEF UpdateCommit, TableTypes, StartTypes
  <2>2. starts'[id] \in {starts[id], starts[id] + 1}
    BY <1>1, <2>1 DEF StartTypes
  <2>3. starts'[id] \in 0..MaxStarts
    BY <2>1, <2>2, PingGuardAssumption
  <2>4. starts' = [starts EXCEPT ![id] = starts'[id]]
    BY <1>1, <2>1 DEF StartTypes
  <2> QED
    BY <1>1, <2>3, <2>4 DEF StartTypes
<1>8. HandlerFrame
  BY <1>2, <1>4 DEF HandlerFrame, sweeps
<1>9. TypeOK' /\ Ids'
  BY <1>5, <1>6, <1>7, TypeParts, PTL
<1> QED
  BY <1>6, <1>8, <1>9, HandlerKeepsShape DEF Base

LEMMA DeleteCommitOK ==
  ASSUME Base, NEW r \in Requests, DeleteCommit(r)
  PROVE  Base' /\ HandlerFrame
<1>1. /\ TableTypes /\ SharedTypes /\ SessionTypes /\ SweepsTypes /\ StartTypes
      /\ SessionsOK
  BY TypeParts DEF Base
<1>2. /\ monitors' = [i \in DOMAIN monitors \ {session[r].id} |-> monitors[i]]
      /\ session' = [session EXCEPT ![r] = Api!Idle]
      /\ session[r].id \notin Sched!Locked
      /\ UNCHANGED <<clock, next_id, queue, sent, sweeps, starts>>
  BY DEF DeleteCommit, Api!DeleteCommit, Api!End, Unlocked
<1>3. /\ TableTypes' /\ SharedTypes' /\ SweepsTypes' /\ StartTypes'
  BY <1>1, <1>2 DEF TableTypes, SharedTypes, SweepsTypes, StartTypes, sweeps
<1>4. SessionTypes' /\ SessionsOK'
  BY <1>1, <1>2 DEF SessionTypes, SessionsOK, Api!Idle
<1>5. HandlerFrame
  BY <1>2 DEF HandlerFrame, sweeps
<1>6. TypeOK' /\ Ids'
  BY <1>3, <1>4, TypeParts, PTL
<1> QED
  BY <1>4, <1>5, <1>6, HandlerKeepsShape DEF Base

-----------------------------------------------------------------------------
(* The results. *)

LEMMA SweepStepOK ==
  ASSUME Base, NEW s \in Sweeps, SweepStep(s)
  PROVE  Base'
<1>1. UNCHANGED <<handlers, starts>>
  BY DEF SweepStep
<1>2. TableTypes /\ SessionTypes /\ StartTypes /\ SessionsOK
  BY TypeParts DEF Base
<1>3. /\ DOMAIN monitors' = DOMAIN monitors
      /\ \A m \in DOMAIN monitors : monitors'[m] \in Monitor
  BY SweepKeepsTable
<1>4. TableTypes' /\ SessionTypes' /\ StartTypes' /\ SessionsOK'
  BY <1>1, <1>2, <1>3 DEF TableTypes, SessionTypes, StartTypes, SessionsOK, handlers
<1>5. SharedTypes' /\ SweepsTypes'
  BY SweepKeepsShared, SweepKeepsState
<1>6. TypeOK' /\ Ids'
  BY <1>4, <1>5, TypeParts, PTL
<1> QED
  BY <1>4, <1>6, SweepKeepsShape DEF Base

\* Time passes only while every live sweep stays younger than the hard limit.
LEMMA TickOK ==
  ASSUME Base, Tick \/ UNCHANGED vars
  PROVE  Base'
<1>1. /\ UNCHANGED <<monitors, queue, sent, sweep, faults, lost, handlers, starts>>
      /\ clock' \in {clock, clock + 1}
  BY DEF Tick, Sched!Tick, vars, table, sweeps
<1>2. TableTypes /\ SharedTypes /\ SessionTypes /\ SweepsTypes /\ StartTypes
  BY TypeParts DEF Base
<1>3. TableTypes' /\ SharedTypes' /\ SessionTypes' /\ SweepsTypes' /\ StartTypes'
  BY <1>1, <1>2
     DEF TableTypes, SharedTypes, SessionTypes, SweepsTypes, StartTypes, handlers
<1>4. SweepShape'
  <2>1. clock \in Nat /\ \A s \in Sweeps : sweep[s].now \in Nat
    BY <1>2, SweepTypes DEF SharedTypes, Base
  <2>2. \A s \in Sweeps : sweep[s].pc # "idle" => clock' < sweep[s].now + HardLimit
    BY DEF Tick, Sched!Tick, vars, table, sweeps, Base, SweepShape, Shape
  <2> QED
    BY <1>1, <2>1, <2>2 DEF Base, SweepShape, Shape
<1>5. SessionsOK' /\ RowsPresent'
  BY <1>1 DEF Base, SessionsOK, RowsPresent, handlers
<1>6. TypeOK' /\ Ids'
  BY <1>3, TypeParts, PTL
<1> QED
  BY <1>4, <1>5, <1>6 DEF Base

LEMMA InitOK == Init => Base /\ Exclusive /\ Own
<1> SUFFICES ASSUME Init
             PROVE  Base /\ Exclusive /\ Own
  OBVIOUS
<1>1. /\ MaxId \in Nat \ {0} /\ MaxFaults \in Nat /\ MaxStarts \in Nat
      /\ InitialRows \subseteq Monitor
  BY PingGuardAssumption
<1>2. TableTypes
  BY <1>1 DEF Init, TableTypes, Mons
<1>3. SharedTypes /\ SweepsTypes /\ StartTypes
  BY <1>1, IdleType DEF Init, SharedTypes, SweepsTypes, StartTypes
<1>4. SessionTypes /\ SessionsOK
  BY <1>1 DEF Init, SessionTypes, SessionsOK, Api!Idle
<1>5. \A s \in Sweeps : /\ sweep[s].pc = "idle" /\ sweep[s].rows = {}
                        /\ sweep[s].items = {}
  BY DEF Init, Sched!IdleSweep
<1>6. RowsPresent /\ SweepShape /\ Exclusive /\ Own
  BY <1>5 DEF RowsPresent, SweepShape, Shape, Exclusive, Own, Sched!Holding, Sched!ItemMons
<1> QED
  BY <1>2, <1>3, <1>4, <1>6, TypeParts DEF Base

LEMMA BaseStep == Base /\ [Next]_vars => Base'
BY SweepStepOK, HandlerStepOK, UpdateCommitOK, DeleteCommitOK, TickOK DEF Next

\* The types of the two components survive each other's writes, whatever the
\* intervals and the limits.
THEOREM TypeCorrect == Spec => []TypeOK
<1>1. Base => TypeOK
  BY DEF Base
<1> QED
  BY <1>1, InitOK, BaseStep, PTL DEF Spec

LEMMA ClaimsStep ==
  Sched!LimitBelowIntervals /\ Base /\ Exclusive /\ Own /\ [Next]_vars => Exclusive' /\ Own'
<1> SUFFICES ASSUME Sched!LimitBelowIntervals, Base, Exclusive, Own, [Next]_vars
             PROVE  Exclusive' /\ Own'
  OBVIOUS
<1>1. ASSUME NEW s \in Sweeps, SweepStep(s)
      PROVE  Exclusive' /\ Own'
  BY <1>1, ReleaseStep, SelectBatchStep, ClaimStep
<1>2. ASSUME NEW r \in Requests, HandlerStep(r) \/ UpdateCommit(r) \/ DeleteCommit(r)
      PROVE  Exclusive' /\ Own'
  BY <1>2, HandlerStepOK, UpdateCommitOK, DeleteCommitOK, HandlerKeepsClaims
<1>3. CASE Tick \/ UNCHANGED vars
  <2>1. UNCHANGED <<monitors, sweep>>
    BY <1>3 DEF Tick, Sched!Tick, vars, table, sweeps
  <2> QED
    BY <2>1 DEF Exclusive, Own, Sched!Holding, Sched!ItemMons
<1> QED
  BY <1>1, <1>2, <1>3 DEF Next

\* While the hard limit is no longer than any interval a client may ask for,
\* no interleaving of sweeps with edits and deletes lets two sweeps hold the
\* health check of one row, or a reset undo another's claim.
THEOREM HealthClaimsStayExclusive ==
  ASSUME Sched!LimitBelowIntervals
  PROVE  Spec => []HealthClaimsAreExclusive
<1>1. Exclusive /\ Own => HealthClaimsAreExclusive
  BY TwoParts
<1> QED
  BY <1>1, InitOK, BaseStep, ClaimsStep, PTL DEF Spec

-----------------------------------------------------------------------------
(* No run is lost silently.  The invariant names the item: one that carries *)
(* the very time the row waits for, so that a sweep whose claim is no longer *)
(* the row's may drop its own.  It needs no limit on the life of a sweep.   *)

Waits(m, k) == NextAt(monitors[m], k) # NULL /\ ~(NextAt(monitors[m], k) <= clock)
HasItem(m, k) ==
  \E s \in Sweeps : \E item \in sweep[s].items :
    /\ sweep[s].kind = k /\ item[1] = m
    /\ NextAt(monitors[m], k) = sweep[s].now + item[2]
HasMessage(m, k) ==
  \E msg \in queue : /\ msg.kind = k /\ msg.mon = m /\ msg.expires # NULL
                     /\ msg.expires >= NextAt(monitors[m], k)
Covered(m, k) == Waits(m, k) => <<k, m>> \in lost \/ HasItem(m, k) \/ HasMessage(m, k)

AllCovered == \A m \in DOMAIN monitors, k \in CheckType : Covered(m, k)

\* The keep-alive clock an update will write has passed, or is none.
ClocksPast ==
  \A r \in Requests :
    session[r].op = "update" /\ "next_keep_alive_at" \in DOMAIN session[r].changes =>
      session[r].changes["next_keep_alive_at"] \in {NULL} \cup 0..clock

LEMMA CoveredIsNoSilentLoss == AllCovered => NoSilentLoss
<1> SUFFICES ASSUME AllCovered, NEW m \in DOMAIN monitors, NEW k \in CheckType, Waits(m, k)
             PROVE  \/ <<k, m>> \in lost
                    \/ \E s \in Sweeps : sweep[s].kind = k /\ m \in Sched!ItemMons(s)
                    \/ HasMessage(m, k)
  BY DEF NoSilentLoss, Waits, HasMessage
<1>1. \A s \in Sweeps : \A item \in sweep[s].items : item[1] = m => m \in Sched!ItemMons(s)
  BY DEF Sched!ItemMons, Sched!Mon
<1> QED
  BY <1>1 DEF AllCovered, Covered, HasItem

LEMMA NextAtTypes ==
  ASSUME NEW row \in Monitor, NEW kind \in CheckType, NEW k \in CheckType, NEW t \in Nat
  PROVE  /\ NextAt(row, k) \in Nat \cup {NULL}
         /\ NextAt(WithNextAt(row, kind, t), k) = IF k = kind THEN t ELSE NextAt(row, k)
BY DEF Monitor, NextAt, WithNextAt, CheckType

\* A step keeps each item for this run, publishes it or counts it as lost.
ItemsKept(m, k) ==
  \A s \in Sweeps : \A item \in sweep[s].items :
    sweep[s].kind = k /\ item[1] = m =>
      \/ /\ item \in sweep'[s].items
         /\ sweep'[s].kind = k /\ sweep'[s].now = sweep[s].now
      \/ <<k, m>> \in lost'
      \/ \E msg \in queue' : /\ msg.kind = k /\ msg.mon = m /\ msg.expires # NULL
                             /\ msg.expires >= sweep[s].now + item[2]

LEMMA StaysCovered ==
  ASSUME Base, NEW m \in DOMAIN monitors, NEW k \in CheckType, Covered(m, k),
         NextAt(monitors'[m], k) = NextAt(monitors[m], k),
         clock' \in {clock, clock + 1}, queue \subseteq queue',
         <<k, m>> \in lost => <<k, m>> \in lost', ItemsKept(m, k)
  PROVE  Covered(m, k)'
<1>1. monitors[m] \in Monitor /\ clock \in Nat
  BY TypeParts DEF Base, TableTypes, SharedTypes
<1>2. NextAt(monitors[m], k) \in Nat \cup {NULL}
  BY <1>1, NextAtTypes
<1>3. Waits(m, k)' => Waits(m, k)
  BY <1>1, <1>2 DEF Waits
<1>4. HasMessage(m, k) => HasMessage(m, k)'
  BY DEF HasMessage
<1>5. HasItem(m, k) => <<k, m>> \in lost' \/ HasItem(m, k)' \/ HasMessage(m, k)'
  BY DEF HasItem, HasMessage, ItemsKept
<1> QED
  BY <1>3, <1>4, <1>5 DEF Covered

LEMMA SweepCovers ==
  ASSUME Base, AllCovered, NEW s \in Sweeps, SweepStep(s)
  PROVE  AllCovered'
<1> SUFFICES ASSUME NEW m \in DOMAIN monitors, NEW k \in CheckType
             PROVE  Covered(m, k)'
  BY SweepKeepsTable DEF AllCovered
<1> DEFINE next == NextAt(monitors[m], k)
           kind == sweep[s].kind
<1>1. /\ Covered(m, k) /\ monitors[m] \in Monitor /\ clock \in Nat
      /\ clock' = clock /\ \A t \in Sweeps \ {s} : sweep'[t] = sweep[t]
      /\ Shape(sweep[s], clock) /\ kind \in CheckType /\ sweep[s].now \in Nat
      /\ sweep[s] \in Sched!SweepState /\ DOMAIN sweep = Sweeps
      /\ sweep[s].items \subseteq Mons \X Intervals
  BY SweepTypes, SweepKeepsState, TypeParts
     DEF AllCovered, Base, TableTypes, SharedTypes, SweepsTypes, SweepShape
<1>2. CASE \/ Sched!Begin(s) \/ Sched!SelectNone(s) \/ Sched!SelectBatch(s)
           \/ Sched!EndBatch(s)
  <2>1. monitors' = monitors /\ queue' = queue /\ lost' = lost /\ sweep[s].items = {}
    BY <1>1, <1>2 DEF Shape, Sched!Begin, Sched!SelectNone, Sched!SelectBatch, Sched!EndBatch
  <2>2. ItemsKept(m, k)
    BY <1>1, <2>1 DEF ItemsKept
  <2> QED
    BY <1>1, <2>1, <2>2, StaysCovered
<1>3. CASE Sched!EnqueueFails(s)
  <2>1. sweep' = [sweep EXCEPT ![s].pc = "recover", ![s].items = sweep[s].items]
    BY <1>3 DEF Sched!EnqueueFails, Sched!Failed
  <2>2. /\ sweep'[s].items = sweep[s].items /\ sweep'[s].kind = kind
        /\ sweep'[s].now = sweep[s].now
    BY <1>1, <2>1 DEF Sched!SweepState
  <2>3. monitors' = monitors /\ queue \subseteq queue' /\ lost' = lost
    BY <1>3 DEF Sched!EnqueueFails, Sched!Publish
  <2>4. ItemsKept(m, k)
    BY <1>1, <2>2 DEF ItemsKept
  <2> QED
    BY <1>1, <2>3, <2>4, StaysCovered
<1>4. CASE Sched!Enqueue(s)
  <2>1. PICK item \in sweep[s].items :
          Sched!Publish(s, item) /\ sweep' = [sweep EXCEPT ![s].items = @ \ {item}]
    BY <1>4 DEF Sched!Enqueue
  <2>2. /\ sweep'[s].items = sweep[s].items \ {item} /\ sweep'[s].kind = kind
        /\ sweep'[s].now = sweep[s].now
    BY <1>1, <2>1 DEF Sched!SweepState
  <2>3. monitors' = monitors /\ queue \subseteq queue' /\ lost' = lost
    BY <1>4, <2>1 DEF Sched!Enqueue, Sched!Publish
  <2> DEFINE msg == Sched!NewMessage(sent, kind, item[1], clock, clock + item[2])
  <2>4. /\ msg \in queue' /\ msg.kind = kind /\ msg.mon = item[1]
        /\ msg.expires = clock + item[2]
    BY <2>1 DEF Sched!Publish, Sched!Mon, Sched!NewMessage
  <2>5. item[2] \in Nat /\ sweep[s].now <= clock
    BY <1>1, <1>4, IntervalTypes DEF Shape, Sched!Enqueue
  <2>6. clock + item[2] # NULL /\ clock + item[2] >= sweep[s].now + item[2]
    BY <1>1, <2>5, NullAssumption
  <2> HIDE DEF msg
  <2>7. ASSUME NEW t \in Sweeps, NEW other \in sweep[t].items,
               sweep[t].kind = k, other[1] = m
        PROVE  \/ /\ other \in sweep'[t].items
                  /\ sweep'[t].kind = k /\ sweep'[t].now = sweep[t].now
               \/ \E sent_msg \in queue' :
                    /\ sent_msg.kind = k /\ sent_msg.mon = m /\ sent_msg.expires # NULL
                    /\ sent_msg.expires >= sweep[t].now + other[2]
    <3>1. CASE t = s /\ other = item
      BY <2>4, <2>6, <2>7, <3>1
    <3>2. CASE ~(t = s /\ other = item)
      BY <1>1, <2>2, <2>7, <3>2
    <3> QED
      BY <3>1, <3>2
  <2>8. ItemsKept(m, k)
    BY <2>7 DEF ItemsKept
  <2> QED
    BY <1>1, <2>3, <2>8, StaysCovered
<1>5. CASE Sched!RecoverFails(s) \/ Sched!Crash(s)
  <2>1. /\ monitors' = monitors /\ queue' = queue
        /\ lost' = lost \cup ({kind} \X Sched!ItemMons(s))
    BY <1>5 DEF Sched!RecoverFails, Sched!Crash
  <2>2. \A item \in sweep[s].items : kind = k /\ item[1] = m => <<k, m>> \in lost'
    BY <2>1 DEF Sched!ItemMons, Sched!Mon
  <2>3. ItemsKept(m, k)
    BY <1>1, <2>2 DEF ItemsKept
  <2> QED
    BY <1>1, <2>1, <2>3, StaysCovered
<1>6. CASE Sched!Claim(s)
  <2> DEFINE i == IntervalOf(monitors[m], kind)
  <2>1. /\ queue' = queue /\ lost' = lost \ ({kind} \X Sched!Claimable(s))
        /\ sweep[s].items = {}
        /\ monitors'[m] = IF m \in Sched!Claimable(s)
             THEN WithNextAt(monitors[m], kind, sweep[s].now + i) ELSE monitors[m]
    BY <1>1, <1>6, OneModelOperators DEF Shape, Sched!Claim, Sched!NextRun
  <2>2. m \in Sched!Claimable(s) => sweep[s].now + i \in Nat
    BY <1>1, RowTypes, IntervalTypes, OneModelOperators DEF Sched!Claimable
  <2>3. CASE m \in Sched!Claimable(s) /\ k = kind
    <3>1. NextAt(monitors'[m], k) = sweep[s].now + i
      BY <1>1, <2>1, <2>2, <2>3, NextAtTypes
    <3>2. /\ <<m, i>> \in sweep'[s].items
          /\ sweep'[s].kind = kind /\ sweep'[s].now = sweep[s].now
      <4>1. /\ sweep'[s].items =
                 {<<n, IntervalOf(monitors[n], kind)>> : n \in Sched!Claimable(s)}
            /\ sweep'[s] = [sweep[s] EXCEPT !.pc = "dispatch", !.rows = {},
                                            !.items = sweep'[s].items]
        BY <1>6, ClaimItems
      <4>2. <<m, i>> \in sweep'[s].items
        BY <2>3, <4>1
      <4> QED
        BY <1>1, <4>1, <4>2 DEF Sched!SweepState
    <3>3. <<m, i>>[1] = m /\ <<m, i>>[2] = i
      OBVIOUS
    <3>4. HasItem(m, k)'
      BY <2>3, <3>1, <3>2, <3>3 DEF HasItem
    <3> QED
      BY <3>4 DEF Covered
  <2>4. CASE ~(m \in Sched!Claimable(s) /\ k = kind)
    <3>1. NextAt(monitors'[m], k) = next
      BY <1>1, <2>1, <2>2, <2>4, NextAtTypes
    <3>2. <<k, m>> \in lost => <<k, m>> \in lost'
      BY <2>1, <2>4
    <3>3. ItemsKept(m, k)
      BY <1>1, <2>1 DEF ItemsKept
    <3> QED
      BY <1>1, <2>1, <3>1, <3>2, <3>3, StaysCovered
  <2> QED
    BY <2>3, <2>4
<1>7. CASE Sched!Recover(s)
  <2>1. /\ queue' = queue /\ lost' = lost /\ sweep[s].now <= clock
        /\ monitors'[m] = IF m \in Sched!ItemMons(s)
             THEN WithNextAt(monitors[m], kind, sweep[s].now) ELSE monitors[m]
    BY <1>1, <1>7, OneModelOperators DEF Shape, Sched!Recover
  <2>2. CASE m \in Sched!ItemMons(s) /\ k = kind
    <3>1. NextAt(monitors'[m], k) = sweep[s].now
      BY <1>1, <2>1, <2>2, NextAtTypes
    <3> QED
      BY <1>1, <2>1, <3>1 DEF Covered, Waits
  <2>3. CASE ~(m \in Sched!ItemMons(s) /\ k = kind)
    <3>1. NextAt(monitors'[m], k) = next
      BY <1>1, <2>1, <2>3, NextAtTypes
    <3>2. \A item \in sweep[s].items : ~(kind = k /\ item[1] = m)
      BY <2>3 DEF Sched!ItemMons, Sched!Mon
    <3>3. ItemsKept(m, k)
      BY <1>1, <3>2 DEF ItemsKept
    <3> QED
      BY <1>1, <2>1, <3>1, <3>3, StaysCovered
  <2> QED
    BY <2>2, <2>3
<1> QED
  BY <1>2, <1>3, <1>4, <1>5, <1>6, <1>7 DEF SweepStep, Sched!Step

\* An update sets the clock of the keep-alive to the time it read, if at all.
LEMMA ChangesPast ==
  ASSUME NEW row \in Monitor, NEW p \in Api!MonitorUpdate, NEW now \in Nat,
         "next_keep_alive_at" \in DOMAIN Api!Changes(row, Api!Updated(p, row, now))
  PROVE  Api!Changes(row, Api!Updated(p, row, now))["next_keep_alive_at"] \in {NULL, now}
<1> DEFINE merged == Api!Merged(p, row)
           new == Api!Updated(p, row, now)
           written == {c \in DOMAIN row : new[c] # row[c]}
<1>1. DOMAIN merged = Columns /\ merged["next_keep_alive_at"] = row["next_keep_alive_at"]
  BY MergedOK
<1>2. new = Api!SyncKeepAlive(merged, now)
  BY DEF Api!Updated
<1> HIDE DEF merged, new
<1>3. new["next_keep_alive_at"] \in {NULL, now, row["next_keep_alive_at"]}
  BY <1>1, <1>2 DEF Api!SyncKeepAlive, Columns
<1>4. Api!Changes(row, new) = [c \in written |-> new[c]]
  BY DEF Api!Changes
<1>5. /\ "next_keep_alive_at" \in DOMAIN Api!Changes(row, new)
         => new["next_keep_alive_at"] # row["next_keep_alive_at"]
      /\ "next_keep_alive_at" \in DOMAIN Api!Changes(row, new)
         => Api!Changes(row, new)["next_keep_alive_at"] = new["next_keep_alive_at"]
  BY <1>4
<1> QED
  BY <1>3, <1>5 DEF new

LEMMA ClocksPastStep ==
  Base /\ ClocksPast /\ [Next]_vars => ClocksPast'
<1> SUFFICES ASSUME Base, ClocksPast, [Next]_vars
             PROVE  ClocksPast'
  OBVIOUS
<1>1. TableTypes /\ SharedTypes /\ SessionTypes
  BY TypeParts DEF Base
<1>2. ASSUME NEW r \in Requests, Api!UpdateGet(r)
      PROVE  ClocksPast'
  <2>1. PICK i \in DOMAIN monitors, p \in UpdatePayloads :
          session' = [session EXCEPT ![r] =
            [op |-> "update", id |-> i, changes |->
               Api!Changes(monitors[i], Api!Updated(p, monitors[i], clock))]]
    BY <1>2 DEF Api!UpdateGet
  <2>2. p \in Api!MonitorUpdate /\ monitors[i] \in Monitor /\ clock \in Nat
    BY <1>1, PingGuardAssumption DEF TableTypes, SharedTypes
  <2> DEFINE changes == Api!Changes(monitors[i], Api!Updated(p, monitors[i], clock))
  <2>3. "next_keep_alive_at" \in DOMAIN changes =>
          changes["next_keep_alive_at"] \in {NULL} \cup 0..clock
    BY <2>2, ChangesPast
  <2> HIDE DEF changes
  <2>4. /\ session'[r].changes = changes
        /\ \A q \in Requests \ {r} : session'[q] = session[q]
    BY <1>1, <2>1 DEF SessionTypes, changes
  <2>5. clock' = clock
    BY <1>2 DEF Api!UpdateGet
  <2> QED
    BY <2>3, <2>4, <2>5 DEF ClocksPast
<1>3. ASSUME NEW r \in Requests,
             \/ Api!DeleteGet(r) \/ Api!Abort(r)
             \/ UpdateCommit(r) \/ DeleteCommit(r)
      PROVE  ClocksPast'
  <2>1. /\ clock' = clock /\ session'[r].op # "update"
        /\ \A q \in Requests \ {r} : session'[q] = session[q]
    BY <1>1, <1>3 DEF SessionTypes, Api!DeleteGet, Api!Abort, UpdateCommit, Api!UpdateCommit,
                      DeleteCommit, Api!DeleteCommit, Api!End, Api!Idle
  <2> QED
    BY <2>1 DEF ClocksPast
<1>4. ASSUME session' = session, clock' \in {clock, clock + 1}
      PROVE  ClocksPast'
  <2>1. 0..clock \subseteq 0..clock'
    BY <1>1, <1>4 DEF SharedTypes
  <2> QED
    BY <1>4, <2>1 DEF ClocksPast
<1>5. CASE Tick \/ UNCHANGED vars
  BY <1>4, <1>5 DEF Tick, Sched!Tick, vars, handlers
<1>6. ASSUME NEW s \in Sweeps, SweepStep(s)
      PROVE  ClocksPast'
  <2>1. session' = session
    BY <1>6 DEF SweepStep, handlers
  <2> QED
    BY <1>4, <1>6, <2>1, SweepKeepsState
<1> QED
  BY <1>2, <1>3, <1>5, <1>6 DEF Next, HandlerStep

\* A step that writes nothing a sweep goes by.
LEMMA IdleCovers ==
  ASSUME Base, AllCovered, UNCHANGED <<queue, sweeps>>, clock' \in {clock, clock + 1},
         DOMAIN monitors' \subseteq DOMAIN monitors,
         NEW m \in DOMAIN monitors', NEW k \in CheckType,
         NextAt(monitors'[m], k) = NextAt(monitors[m], k)
  PROVE  Covered(m, k)'
<1>1. /\ sweep' = sweep /\ lost' = lost /\ queue \subseteq queue'
      /\ m \in DOMAIN monitors
  BY DEF sweeps
<1>2. ItemsKept(m, k) /\ Covered(m, k)
  BY <1>1 DEF ItemsKept, AllCovered
<1> QED
  BY <1>1, <1>2, StaysCovered

\* What an update writes into the clock of the keep-alive is due at once.
LEMMA UpdateCovers ==
  ASSUME Base, ClocksPast, AllCovered, NEW r \in Requests, UpdateCommit(r)
  PROVE  AllCovered'
<1> DEFINE id == session[r].id
           changes == session[r].changes
<1>1. TableTypes /\ SharedTypes /\ SessionsOK
  BY TypeParts DEF Base
<1>2. /\ session[r].op = "update" /\ id \in DOMAIN monitors /\ Api!Storable(changes)
      /\ monitors' = [monitors EXCEPT ![id] = Api!Write(@, changes)]
      /\ UNCHANGED <<clock, queue, sweeps>>
  BY DEF UpdateCommit, Api!UpdateCommit
<1>3. ChangesOK(changes) /\ monitors[id] \in Monitor /\ clock \in Nat
  BY <1>1, <1>2 DEF SessionsOK, TableTypes, SharedTypes
<1> SUFFICES ASSUME NEW m \in DOMAIN monitors', NEW k \in CheckType
             PROVE  Covered(m, k)'
  BY DEF AllCovered
<1>4. DOMAIN monitors' = DOMAIN monitors
  BY <1>2
<1>5. Api!Write(monitors[id], changes)["next_keep_alive_at"] =
        IF "next_keep_alive_at" \in DOMAIN changes
        THEN changes["next_keep_alive_at"] ELSE monitors[id]["next_keep_alive_at"]
  BY <1>3, RowColumns DEF Api!Write, Columns
<1>6. CASE m = id /\ k = "keep_alive" /\ "next_keep_alive_at" \in DOMAIN changes
  <2>1. NextAt(monitors'[m], k) = changes["next_keep_alive_at"]
    BY <1>2, <1>5, <1>6 DEF NextAt
  <2>2. changes["next_keep_alive_at"] \in {NULL} \cup 0..clock
    BY <1>2, <1>6 DEF ClocksPast
  <2>3. ~Waits(m, k)'
    BY <1>2, <1>3, <2>1, <2>2 DEF Waits
  <2> QED
    BY <2>3 DEF Covered
<1>7. CASE ~(m = id /\ k = "keep_alive" /\ "next_keep_alive_at" \in DOMAIN changes)
  <2>1. NextAt(monitors'[m], k) = NextAt(monitors[m], k)
    BY <1>2, <1>3, <1>5, <1>7, WriteOK DEF NextAt, CheckType
  <2> QED
    BY <1>2, <1>4, <2>1, IdleCovers
<1> QED
  BY <1>6, <1>7

LEMMA CoveredStep ==
  Base /\ ClocksPast /\ AllCovered /\ [Next]_vars => AllCovered'
<1> SUFFICES ASSUME Base, ClocksPast, AllCovered, [Next]_vars
             PROVE  AllCovered'
  OBVIOUS
<1>1. ASSUME NEW s \in Sweeps, SweepStep(s)
      PROVE  AllCovered'
  BY <1>1, SweepCovers
<1>2. ASSUME NEW r \in Requests, UpdateCommit(r)
      PROVE  AllCovered'
  BY <1>2, UpdateCovers
<1>3. ASSUME \/ \E r \in Requests : HandlerStep(r) \/ DeleteCommit(r)
             \/ Tick \/ UNCHANGED vars
      PROVE  AllCovered'
  <2>1. /\ UNCHANGED <<queue, sweeps>> /\ clock' \in {clock, clock + 1}
        /\ DOMAIN monitors' \subseteq DOMAIN monitors
        /\ \A m \in DOMAIN monitors' : monitors'[m] = monitors[m]
    BY <1>3 DEF HandlerStep, Api!UpdateGet, Api!DeleteGet, Api!Abort, DeleteCommit,
                Api!DeleteCommit, Tick, Sched!Tick, vars, table, sweeps
  <2> QED
    BY <2>1, IdleCovers DEF AllCovered
<1> QED
  BY <1>1, <1>2, <1>3 DEF Next

\* No row waits for a time to come at the start, and no update is under way.
LEMMA CoveredInit == Init => ClocksPast /\ AllCovered
<1> SUFFICES ASSUME Init
             PROVE  ClocksPast /\ AllCovered
  OBVIOUS
<1>1. \A r \in Requests : session[r].op # "update"
  BY DEF Init, Api!Idle
<1>2. \A m \in DOMAIN monitors, k \in CheckType : NextAt(monitors[m], k) \in {0, NULL}
  BY PingGuardAssumption DEF Init
<1>3. \A m \in DOMAIN monitors, k \in CheckType : ~Waits(m, k)
  BY <1>2 DEF Init, Waits
<1> QED
  BY <1>1, <1>3 DEF ClocksPast, AllCovered, Covered

\* A run that is put off to a later time leaves a message, an open claim or a
\* counted fault behind, under every interleaving of sweeps, refused publishes,
\* kills, edits and deletes, for every length of the intervals and limits.
THEOREM NoRunLostSilently == Spec => []NoSilentLoss
BY InitOK, BaseStep, CoveredInit, ClocksPastStep, CoveredStep, CoveredIsNoSilentLoss, PTL
   DEF Spec

-----------------------------------------------------------------------------
(* How often a schedule is published.  Every message or open claim of it is *)
(* paid for by a period of its next-run column, by a fault or by an update  *)
(* that set the column; a reset takes back what its claim paid.             *)

LEMMA LeastNatural ==
  ASSUME NEW S, S \subseteq Nat, S # {}
  PROVE  \E i \in S : \A j \in S : i <= j
<1> DEFINE R == {p \in Nat \X Nat : p[1] < p[2]}
<1>1. IsWellFoundedOn(R, Nat)
  BY NatLessThanWellFounded, Zenon DEF OpToRel
<1> HIDE DEF R
<1>2. PICK i \in S : \A j \in S : <<j, i>> \notin R
  BY <1>1, WFMin
<1>3. ASSUME NEW j \in S
      PROVE  i <= j
  <2>1. <<j, i>> \notin R /\ i \in Nat /\ j \in Nat
    BY <1>2
  <2>2. ~(j < i)
    BY <2>1 DEF R
  <2> QED
    BY <2>1, <2>2
<1> QED
  BY <1>3

LEMMA ShortestType ==
  Shortest \in Intervals /\ Shortest \in Nat \ {0} /\ \A i \in Intervals : Shortest <= i
<1>1. Intervals \subseteq Nat /\ Intervals # {}
  BY IntervalAssumption, PingGuardAssumption
<1>2. \E i \in Intervals : \A j \in Intervals : i <= j
  BY <1>1, LeastNatural
<1>3. Shortest \in Intervals /\ \A i \in Intervals : Shortest <= i
  BY <1>2 DEF Shortest
<1> QED
  BY <1>3, IntervalAssumption

LEMMA Products ==
  ASSUME NEW a \in Int, NEW b \in Int, NEW i \in Nat
  PROVE  /\ a * i \in Int /\ (a + 1) * i = a * i + i /\ (a - 1) * i = a * i - i
         /\ (a - 2) * i = a * i - i - i
         /\ a <= b => a * i <= b * i
         /\ i > 0 /\ a * i < b * i => a < b
<1>1. a * i \in Int /\ b * i \in Int
  BY SMT
<1>2. (a + 1) * i = a * i + i /\ (a - 1) * i = a * i - i
  BY SMT
<1>3. (a - 2) * i = a * i - i - i
  BY SMT
<1>4. a <= b => a * i <= b * i
  BY SMT
<1>5. b <= a => b * i <= a * i
  BY SMT
<1> QED
  BY <1>1, <1>2, <1>3, <1>4, <1>5

LEMMA Quotient ==
  ASSUME NEW a \in Nat, NEW i \in Nat \ {0}
  PROVE  (a \div i) \in Nat /\ a < ((a \div i) + 1) * i
BY SMT

Count(p) == IF p THEN 1 ELSE 0

\* Two sets that differ in one element at most.
LEMMA OneChanges ==
  ASSUME NEW S, IsFiniteSet(S), NEW A \in SUBSET S, NEW B \in SUBSET S, NEW s,
         A \ {s} = B \ {s}
  PROVE  /\ Cardinality(A) \in Nat /\ Cardinality(B) \in Nat
         /\ Cardinality(B) = Cardinality(A) + Count(s \in B) - Count(s \in A)
<1>1. IsFiniteSet(A) /\ IsFiniteSet(B)
  BY FS_Subset
<1>2. Cardinality(A) \in Nat /\ Cardinality(B) \in Nat
  BY <1>1, FS_CardinalityType
<1>3. CASE s \in A /\ s \notin B
  <2>1. B = A \ {s}
    BY <1>3
  <2> QED
    BY <1>1, <1>2, <1>3, <2>1, FS_RemoveElement DEF Count
<1>4. CASE s \notin A /\ s \in B
  <2>1. A = B \ {s}
    BY <1>4
  <2> QED
    BY <1>1, <1>2, <1>4, <2>1, FS_RemoveElement DEF Count
<1>5. CASE s \in A <=> s \in B
  <2>1. A = B
    BY <1>5
  <2> QED
    BY <1>2, <2>1 DEF Count
<1> QED
  BY <1>2, <1>3, <1>4, <1>5

(* What the argument needs of locks, items and messages. *)

\* Messages are counted by their number.
Numbered == IsFiniteSet(queue) /\ \A msg \in queue : msg.task < sent

\* A batch holds a row once.
OneEach == \A s \in Sweeps : \A i, j \in sweep[s].items : i[1] = j[1] => i = j

\* A row is locked by one transaction, and stays due as the locking read saw it.
LocksApart == \A s, t \in Sweeps : s # t => sweep[s].rows \cap sweep[t].rows = {}
LockedDue ==
  \A s \in Sweeps : \A m \in sweep[s].rows :
    Sched!Due(monitors[m], sweep[s].kind, sweep[s].now)

LockInv == Numbered /\ OneEach /\ LocksApart /\ LockedDue

\* The sweeps with an open claim of a schedule, and those about to reset it.
Holders(m, k) == {s \in Sweeps : sweep[s].kind = k /\ m \in Sched!ItemMons(s)}
Returning(m, k) == {s \in Holders(m, k) : sweep[s].pc = "recover"}

\* What a schedule has been sent and may still be, less what faults and updates
\* that set its clock account for.
Load(m, k) ==
  IF k = "monitor"
  THEN Cardinality(Sent(m, k)) + Cardinality(Holders(m, k)) - faults
  ELSE Cardinality(Sent(m, k)) + Cardinality(Holders(m, k))
         + Cardinality(Returning(m, k)) - 2 * (faults + starts[m])

\* A period has passed for each, or will before the row is due again.  The reset
\* of a health check leaves a time its own claim found due; that of a keep-alive
\* may overwrite a newer one, and then a whole period is to spare.
Paced(m, k) ==
  /\ Load(m, k) * Shortest <= clock + Shortest
  /\ m \in DOMAIN monitors /\ NextAt(monitors[m], k) # NULL =>
       IF k = "monitor"
       THEN /\ Load(m, k) * Shortest <= NextAt(monitors[m], k)
            /\ \A s \in Holders(m, k) : (Load(m, k) - 1) * Shortest <= sweep[s].now
       ELSE \/ Load(m, k) * Shortest <= NextAt(monitors[m], k)
            \/ Load(m, k) * Shortest + Shortest <= clock + 1

AllPaced == \A m \in Mons, k \in CheckType : Paced(m, k)

\* Rows that some sweep has locked are written by nobody, but by its own claim.
LEMMA RowUntouched ==
  ASSUME Base, LocksApart, NEW s \in Sweeps, SweepStep(s),
         NEW t \in Sweeps, NEW m \in sweep[t].rows, t # s \/ ~Sched!Claim(s)
  PROVE  monitors'[m] = monitors[m]
<1>1. m \in DOMAIN monitors /\ m \in Sched!Locked
  BY DEF Base, RowsPresent, Sched!Locked
<1>2. CASE Sched!Claim(s)
  <2>1. m \notin Sched!Claimable(s)
    BY <1>2, ClaimItems DEF LocksApart
  <2> QED
    BY <1>1, <1>2, <2>1 DEF Sched!Claim
<1>3. CASE Sched!Recover(s)
  BY <1>1, <1>3 DEF Sched!Recover
<1>4. CASE ~Sched!Claim(s) /\ ~Sched!Recover(s)
  BY <1>4 DEF SweepStep, Sched!Step, Sched!Begin, Sched!SelectNone, Sched!SelectBatch,
     Sched!Enqueue, Sched!EnqueueFails, Sched!EndBatch, Sched!RecoverFails, Sched!Crash
<1> QED
  BY <1>2, <1>3, <1>4

LEMMA PublishNumbered ==
  ASSUME TypeOK, Numbered, NEW s \in Sweeps, NEW item \in sweep[s].items,
         Sched!Publish(s, item)
  PROVE  /\ Numbered'
         /\ \A m, k : /\ Cardinality(Sent(m, k)) \in Nat
                      /\ Cardinality(Sent(m, k)') = Cardinality(Sent(m, k))
                           + Count(m = item[1] /\ k = sweep[s].kind)
<1> DEFINE msg == Sched!NewMessage(sent, sweep[s].kind, item[1], clock, clock + item[2])
<1>1. queue' = queue \cup {msg} /\ sent' = sent + 1 /\ sent \in Nat
  BY DEF Sched!Publish, Sched!Mon, TypeOK, Api!TypeOK
<1>2. /\ msg.task = sent /\ msg.kind = sweep[s].kind /\ msg.mon = item[1]
      /\ msg.expires = clock + item[2]
  BY DEF Sched!NewMessage
<1>3. clock + item[2] # NULL
  BY SweepTypes, IntervalTypes, NullAssumption DEF TypeOK, Api!TypeOK
<1> HIDE DEF msg
<1>4. \A other \in queue : other.task \in Nat /\ other.task < sent
  BY OneModel DEF Numbered, TypeOK, Api!TypeOK, Message
<1>5. msg \notin queue
  BY <1>1, <1>2, <1>4
<1>6. Numbered'
  <2>1. IsFiniteSet(queue')
    BY <1>1, FS_AddElement DEF Numbered
  <2> QED
    BY <1>1, <1>2, <1>4, <2>1 DEF Numbered
<1>7. ASSUME NEW m, NEW k
      PROVE  /\ Cardinality(Sent(m, k)) \in Nat
             /\ Cardinality(Sent(m, k)') = Cardinality(Sent(m, k))
                  + Count(m = item[1] /\ k = sweep[s].kind)
  <2> DEFINE old == Sent(m, k)
             new == Sent(m, k)'
  <2>1. /\ IsFiniteSet(queue') /\ old \in SUBSET queue' /\ new \in SUBSET queue'
        /\ old \ {msg} = new \ {msg} /\ msg \notin old
        /\ msg \in new <=> m = item[1] /\ k = sweep[s].kind
    BY <1>1, <1>2, <1>3, <1>5, <1>6 DEF Sent, Numbered
  <2> HIDE DEF old, new
  <2>2. /\ Cardinality(old) \in Nat
        /\ Cardinality(new) = Cardinality(old) + Count(msg \in new) - Count(msg \in old)
    BY <2>1, OneChanges
  <2>3. Count(msg \in old) = 0 /\ Count(msg \in new) = Count(m = item[1] /\ k = sweep[s].kind)
    BY <2>1 DEF Count
  <2>4. Count(msg \in new) \in {0, 1}
    BY DEF Count
  <2> QED
    BY <2>2, <2>3, <2>4 DEF old, new
<1> QED
  BY <1>6, <1>7

LEMMA LockStep ==
  ASSUME Base, LockInv, NEW s \in Sweeps, SweepStep(s)
  PROVE  LockInv'
<1>1. /\ \A t \in Sweeps \ {s} : sweep'[t] = sweep[t]
      /\ DOMAIN monitors' = DOMAIN monitors
  BY SweepKeepsState, SweepKeepsTable
<1>2. Numbered'
  <2>1. CASE \E item \in sweep[s].items : Sched!Publish(s, item)
    BY <2>1, PublishNumbered DEF Base, LockInv
  <2>2. CASE UNCHANGED <<queue, sent>>
    BY <2>2 DEF LockInv, Numbered
  <2> QED
    BY <2>1, <2>2 DEF SweepStep, Sched!Step, Sched!Begin, Sched!SelectNone,
       Sched!SelectBatch, Sched!Claim, Sched!Enqueue, Sched!EnqueueFails, Sched!EndBatch,
       Sched!Recover, Sched!RecoverFails, Sched!Crash
<1>3. CASE Sched!SelectBatch(s)
  <2>1. PICK B \in SUBSET Sched!DueRows(s) :
          sweep' = [sweep EXCEPT ![s].pc = "claim", ![s].rows = B]
    BY <1>3 DEF Sched!SelectBatch
  <2>2. /\ sweep'[s].rows = B /\ sweep'[s].items = sweep[s].items
        /\ sweep'[s].kind = sweep[s].kind /\ sweep'[s].now = sweep[s].now
    BY <2>1, SweepTypes, TypeParts DEF Base, SweepsTypes, Sched!SweepState
  <2>3. \A m \in B : /\ Sched!Due(monitors[m], sweep[s].kind, sweep[s].now)
                     /\ \A t \in Sweeps : m \notin sweep[t].rows
    BY DEF Sched!DueRows, Sched!Locked
  <2>4. monitors' = monitors
    BY <1>3 DEF Sched!SelectBatch
  <2>5. OneEach'
    BY <1>1, <2>2 DEF LockInv, OneEach
  <2>6. LocksApart'
    BY <1>1, <2>2, <2>3 DEF LockInv, LocksApart
  <2>7. LockedDue'
    BY <1>1, <2>2, <2>3, <2>4 DEF LockInv, LockedDue
  <2> QED
    BY <1>2, <2>5, <2>6, <2>7 DEF LockInv
<1>4. CASE Sched!Claim(s)
  <2>1. /\ sweep'[s].rows = {}
        /\ sweep'[s].items =
             {<<m, IntervalOf(monitors[m], sweep[s].kind)>> : m \in Sched!Claimable(s)}
    BY <1>4, ClaimItems, SweepTypes DEF Base, Sched!SweepState
  <2>2. OneEach'
    BY <1>1, <2>1 DEF LockInv, OneEach
  <2>3. LocksApart'
    BY <1>1, <2>1 DEF LockInv, LocksApart
  <2>4. LockedDue'
    BY <1>1, <2>1, RowUntouched DEF LockInv, LockedDue
  <2> QED
    BY <1>2, <2>2, <2>3, <2>4 DEF LockInv
<1>5. CASE ~Sched!SelectBatch(s) /\ ~Sched!Claim(s)
  <2>1. /\ sweep'[s].rows \subseteq sweep[s].rows
        /\ sweep'[s].items \subseteq sweep[s].items
        /\ sweep'[s].rows # {} =>
             sweep'[s].kind = sweep[s].kind /\ sweep'[s].now = sweep[s].now
    BY <1>5, StepReleases
  <2>2. OneEach'
    BY <1>1, <2>1 DEF LockInv, OneEach
  <2>3. LocksApart'
    BY <1>1, <2>1 DEF LockInv, LocksApart
  <2>4. \A t \in Sweeps : \A m \in sweep[t].rows : monitors'[m] = monitors[m]
    BY <1>5, RowUntouched DEF LockInv
  <2>5. LockedDue'
    BY <1>1, <2>1, <2>4 DEF LockInv, LockedDue
  <2> QED
    BY <1>2, <2>2, <2>3, <2>5 DEF LockInv
<1> QED
  BY <1>3, <1>4, <1>5

\* A step of a handler leaves locked rows alone.
LEMMA HandlerKeepsLocks ==
  ASSUME LockInv, UNCHANGED <<queue, sent, sweep>>,
         \A m \in Sched!Locked : monitors'[m] = monitors[m]
  PROVE  LockInv'
<1>1. Numbered' /\ OneEach' /\ LocksApart'
  BY DEF LockInv, Numbered, OneEach, LocksApart
<1>2. LockedDue'
  BY DEF LockInv, LockedDue, Sched!Locked
<1> QED
  BY <1>1, <1>2 DEF LockInv

(* The load of a schedule, as a step of a sweep changes it. *)

LEMMA HoldersChange ==
  ASSUME Base, NEW s \in Sweeps, SweepStep(s), NEW m, NEW k
  PROVE  /\ Cardinality(Holders(m, k)) \in Nat /\ Cardinality(Returning(m, k)) \in Nat
         /\ Cardinality(Holders(m, k)') \in Nat /\ Cardinality(Returning(m, k)') \in Nat
         /\ Cardinality(Holders(m, k)') = Cardinality(Holders(m, k))
              + Count(s \in Holders(m, k)') - Count(s \in Holders(m, k))
         /\ Cardinality(Returning(m, k)') = Cardinality(Returning(m, k))
              + Count(s \in Returning(m, k)') - Count(s \in Returning(m, k))
<1> DEFINE h == Holders(m, k)
           hn == Holders(m, k)'
           r == Returning(m, k)
           rn == Returning(m, k)'
<1>1. IsFiniteSet(Sweeps) /\ \A t \in Sweeps \ {s} : sweep'[t] = sweep[t]
  BY PingGuardAssumption, SweepKeepsState
<1>2. /\ h \in SUBSET Sweeps /\ hn \in SUBSET Sweeps /\ h \ {s} = hn \ {s}
      /\ r \in SUBSET Sweeps /\ rn \in SUBSET Sweeps /\ r \ {s} = rn \ {s}
  BY <1>1 DEF Holders, Returning, Sched!ItemMons
<1> HIDE DEF h, hn, r, rn
<1>3. /\ Cardinality(h) \in Nat /\ Cardinality(hn) \in Nat
      /\ Cardinality(hn) = Cardinality(h) + Count(s \in hn) - Count(s \in h)
  BY <1>1, <1>2, OneChanges
<1>4. /\ Cardinality(r) \in Nat /\ Cardinality(rn) \in Nat
      /\ Cardinality(rn) = Cardinality(r) + Count(s \in rn) - Count(s \in r)
  BY <1>1, <1>2, OneChanges
<1> QED
  BY <1>3, <1>4 DEF h, hn, r, rn

\* Nothing is claimed or reset: the load does not grow.
Keeps(s, m, k) ==
  /\ Load(m, k)' <= Load(m, k)
  /\ m \in DOMAIN monitors => NextAt(monitors'[m], k) = NextAt(monitors[m], k)
  /\ s \in Holders(m, k)' => s \in Holders(m, k) /\ sweep'[s].now = sweep[s].now

\* A claim, of a time that had come.
Advances(s, m, k) ==
  /\ m \in DOMAIN monitors /\ m \in sweep[s].rows /\ sweep[s].kind = k
  /\ NextAt(monitors[m], k) # NULL /\ NextAt(monitors[m], k) <= sweep[s].now
  /\ NextAt(monitors'[m], k) \in Nat
  /\ NextAt(monitors'[m], k) >= sweep[s].now + Shortest
  /\ Load(m, k)' = Load(m, k) + 1
  /\ sweep'[s].now = sweep[s].now /\ sweep[s].now <= clock
  /\ clock < sweep[s].now + HardLimit

\* A reset, to the time the sweep began.
Returns(s, m, k) ==
  /\ s \in Holders(m, k) /\ s \notin Holders(m, k)'
  /\ m \in DOMAIN monitors => NextAt(monitors'[m], k) = sweep[s].now
  /\ Load(m, k)' = IF k = "monitor" THEN Load(m, k) - 1 ELSE Load(m, k) - 2

LEMMA SentTypes ==
  ASSUME TypeOK, Numbered, NEW m, NEW k
  PROVE  Cardinality(Sent(m, k)) \in Nat
<1>1. IsFiniteSet(Sent(m, k))
  BY FS_Subset DEF Numbered, Sent
<1> QED
  BY <1>1, FS_CardinalityType

\* The load, from what a step does to its parts.
LEMMA LoadChange ==
  ASSUME Base, Base', LockInv, NEW s \in Sweeps, SweepStep(s),
         NEW m \in Mons, NEW k \in CheckType,
         NEW d \in {0, 1}, Cardinality(Sent(m, k)') = Cardinality(Sent(m, k)) + d,
         NEW f \in {0, 1}, faults' = faults + f
  PROVE  /\ Load(m, k) \in Int /\ Load(m, k)' \in Int
         /\ k = "monitor" => Load(m, k)' = Load(m, k) + d - f
              + Count(s \in Holders(m, k)') - Count(s \in Holders(m, k))
         /\ k # "monitor" => Load(m, k)' = Load(m, k) + d - 2 * f
              + Count(s \in Holders(m, k)') - Count(s \in Holders(m, k))
              + Count(s \in Returning(m, k)') - Count(s \in Returning(m, k))
<1> DEFINE c == Cardinality(Sent(m, k))
           cn == Cardinality(Sent(m, k)')
           h == Cardinality(Holders(m, k))
           hn == Cardinality(Holders(m, k)')
           r == Cardinality(Returning(m, k))
           rn == Cardinality(Returning(m, k)')
           n == starts[m]
           nn == starts'[m]
           dh == Count(s \in Holders(m, k)') - Count(s \in Holders(m, k))
           dr == Count(s \in Returning(m, k)') - Count(s \in Returning(m, k))
<1>1. /\ h \in Nat /\ hn \in Nat /\ r \in Nat /\ rn \in Nat
      /\ dh \in Int /\ dr \in Int /\ hn = h + dh /\ rn = r + dr
  <2>1. \A p : Count(p) \in {0, 1}
    BY DEF Count
  <2> HIDE DEF h, hn, r, rn
  <2>2. /\ h \in Nat /\ hn \in Nat /\ r \in Nat /\ rn \in Nat
        /\ hn = h + Count(s \in Holders(m, k)') - Count(s \in Holders(m, k))
        /\ rn = r + Count(s \in Returning(m, k)') - Count(s \in Returning(m, k))
    BY HoldersChange DEF h, hn, r, rn
  <2> QED
    BY <2>1, <2>2
<1>2. c \in Nat
  BY SentTypes DEF Base, LockInv
<1>3. faults \in Nat /\ n \in Nat /\ nn = n
  <2>1. SharedTypes /\ StartTypes
    BY TypeParts DEF Base
  <2>2. starts' = starts
    BY DEF SweepStep
  <2> QED
    BY <2>1, <2>2, PingGuardAssumption DEF SharedTypes, StartTypes
<1>4. cn = c + d
  OBVIOUS
<1>5. /\ Load(m, k) = IF k = "monitor" THEN c + h - faults ELSE c + h + r - 2 * (faults + n)
      /\ Load(m, k)' = IF k = "monitor" THEN cn + hn - faults'
                       ELSE cn + hn + rn - 2 * (faults' + nn)
  BY DEF Load
<1> HIDE DEF c, cn, h, hn, r, rn, n, nn, dh, dr
<1>6. /\ Load(m, k) \in Int /\ Load(m, k)' \in Int
      /\ k = "monitor" => Load(m, k)' = Load(m, k) + d - f + dh
      /\ k # "monitor" => Load(m, k)' = Load(m, k) + d - 2 * f + dh + dr
  BY <1>1, <1>2, <1>3, <1>4, <1>5
<1>7. \A p : Count(p) \in {0, 1}
  BY DEF Count
<1> QED
  BY <1>6, <1>7 DEF dh, dr

LEMMA SweepLoad ==
  ASSUME Base, Base', LockInv, NEW s \in Sweeps, SweepStep(s),
         NEW m \in Mons, NEW k \in CheckType
  PROVE  Keeps(s, m, k) \/ Advances(s, m, k) \/ Returns(s, m, k)
<1> DEFINE kind == sweep[s].kind
           held == s \in Holders(m, k)
           helds == s \in Holders(m, k)'
           back == s \in Returning(m, k)
           backs == s \in Returning(m, k)'
<1>1. /\ sweep[s] \in Sched!SweepState /\ DOMAIN sweep = Sweeps /\ Shape(sweep[s], clock)
      /\ kind \in CheckType /\ sweep[s].now \in Nat /\ clock \in Nat
      /\ faults \in Nat /\ Load(m, k) \in Int
      /\ Cardinality(Sent(m, k)) \in Nat /\ \A i \in DOMAIN monitors : monitors[i] \in Monitor
  <2>1. SharedTypes /\ TableTypes /\ SweepsTypes
    BY TypeParts DEF Base
  <2>2. faults \in Nat
    BY <2>1, PingGuardAssumption DEF SharedTypes
  <2>3. Cardinality(Sent(m, k)) \in Nat
    BY SentTypes DEF Base, LockInv
  <2>4. Load(m, k) \in Int
    <3>1. \A p : Count(p) \in {0, 1}
      BY DEF Count
    <3>2. Cardinality(Holders(m, k)) \in Nat /\ Cardinality(Returning(m, k)) \in Nat
      BY HoldersChange
    <3>3. starts[m] \in Nat
      BY TypeParts, PingGuardAssumption DEF Base, StartTypes
    <3> QED
      BY <2>2, <2>3, <3>2, <3>3 DEF Load
  <2> QED
    BY <2>1, <2>2, <2>3, <2>4, SweepTypes DEF Base, SharedTypes, TableTypes, SweepsTypes, SweepShape
<1>2. /\ held <=> kind = k /\ \E item \in sweep[s].items : item[1] = m
      /\ back <=> held /\ sweep[s].pc = "recover"
      /\ helds <=> sweep'[s].kind = k /\ \E item \in sweep'[s].items : item[1] = m
      /\ backs <=> helds /\ sweep'[s].pc = "recover"
  BY DEF Holders, Returning, Sched!ItemMons, Sched!Mon
<1> HIDE DEF held, helds, back, backs
<1>3. ASSUME NEW d \in {0, 1}, Cardinality(Sent(m, k)') = Cardinality(Sent(m, k)) + d,
             NEW f \in {0, 1}, faults' = faults + f
      PROVE  /\ k = "monitor" => Load(m, k)' = Load(m, k) + d - f + Count(helds) - Count(held)
             /\ k # "monitor" => Load(m, k)' = Load(m, k) + d - 2 * f
                  + Count(helds) - Count(held) + Count(backs) - Count(back)
  BY <1>3, LoadChange DEF held, helds, back, backs
<1>4. ASSUME queue' = queue
      PROVE  Cardinality(Sent(m, k)') = Cardinality(Sent(m, k)) + 0
  BY <1>1, <1>4 DEF Sent
<1>5. faults + 0 = faults /\ Count(TRUE) = 1 /\ Count(FALSE) = 0 /\ 0 \in {0, 1} /\ 1 \in {0, 1}
  BY <1>1 DEF Count
<1>6. CASE \/ Sched!Begin(s) \/ Sched!SelectNone(s) \/ Sched!SelectBatch(s)
           \/ Sched!EndBatch(s)
  <2>1. /\ monitors' = monitors /\ queue' = queue /\ faults' = faults /\ sweep[s].items = {}
        /\ ~Sched!Claim(s)
    BY <1>1, <1>6
       DEF Shape, Sched!Begin, Sched!SelectNone, Sched!SelectBatch, Sched!EndBatch, Sched!Claim
  <2>2. sweep'[s].items = {}
    <3>1. CASE Sched!SelectBatch(s)
      BY <1>1, <2>1, <3>1 DEF Sched!SelectBatch, Sched!SweepState
    <3> QED
      BY <2>1, <3>1, StepReleases
  <2>3. ~held /\ ~helds /\ ~back /\ ~backs
    BY <1>2, <2>2, <2>1
  <2>4. Load(m, k)' = Load(m, k)
    BY <1>1, <1>3, <1>4, <1>5, <2>1, <2>3 DEF Count
  <2> QED
    BY <1>1, <2>1, <2>3, <2>4 DEF Keeps, helds
<1>7. CASE Sched!Enqueue(s)
  <2>1. PICK item \in sweep[s].items :
          Sched!Publish(s, item) /\ sweep' = [sweep EXCEPT ![s].items = @ \ {item}]
    BY <1>7 DEF Sched!Enqueue
  <2>2. /\ sweep'[s].items = sweep[s].items \ {item} /\ sweep'[s].kind = kind
        /\ sweep'[s].now = sweep[s].now /\ sweep'[s].pc = sweep[s].pc
        /\ sweep[s].pc = "dispatch" /\ monitors' = monitors /\ faults' = faults
    BY <1>1, <1>7, <2>1 DEF Sched!SweepState, Sched!Enqueue
  <2>3. ~back /\ ~backs
    BY <1>2, <2>2
  <2>4. \A other \in sweep[s].items : other[1] = item[1] => other = item
    BY DEF LockInv, OneEach
  <2>5. CASE m = item[1] /\ k = kind
    <3>1. held /\ ~helds
      BY <1>2, <2>2, <2>4, <2>5
    <3>2. Cardinality(Sent(m, k)') = Cardinality(Sent(m, k)) + 1
      BY <1>5, <2>1, <2>5, PublishNumbered DEF Base, LockInv, Count
    <3>3. Load(m, k)' = Load(m, k)
      BY <1>1, <1>3, <1>5, <2>2, <2>3, <3>1, <3>2 DEF Count
    <3> QED
      BY <1>1, <2>2, <3>1, <3>3 DEF Keeps, helds
  <2>6. CASE ~(m = item[1] /\ k = kind)
    <3>1. held <=> helds
      BY <1>2, <2>2, <2>6
    <3>2. Cardinality(Sent(m, k)') = Cardinality(Sent(m, k)) + 0
      BY <2>1, <2>6, PublishNumbered DEF Base, LockInv, Count
    <3>3. Load(m, k)' = Load(m, k)
      BY <1>1, <1>3, <1>5, <2>2, <2>3, <3>1, <3>2 DEF Count
    <3> QED
      BY <1>1, <2>2, <3>1, <3>3 DEF Keeps, helds, held
  <2> QED
    BY <2>5, <2>6
<1>8. CASE Sched!EnqueueFails(s)
  <2>1. PICK item \in sweep[s].items :
          /\ Sched!Publish(s, item) \/ UNCHANGED <<queue, sent>>
          /\ sweep' = [sweep EXCEPT ![s].pc = "recover", ![s].items = sweep[s].items]
    BY <1>8 DEF Sched!EnqueueFails, Sched!Failed
  <2>2. /\ sweep'[s].items = sweep[s].items /\ sweep'[s].kind = kind
        /\ sweep'[s].now = sweep[s].now /\ sweep'[s].pc = "recover"
        /\ sweep[s].pc = "dispatch" /\ monitors' = monitors /\ faults' = faults + 1
    BY <1>1, <1>8, <2>1 DEF Sched!SweepState, Sched!EnqueueFails
  <2>3. /\ held <=> helds
        /\ ~back /\ Count(helds) = Count(held) /\ Count(backs) \in {0, 1}
    BY <1>2, <2>2 DEF Count
  <2>4. PICK d \in {0, 1} : Cardinality(Sent(m, k)') = Cardinality(Sent(m, k)) + d
    <3>1. CASE queue' = queue
      BY <1>4, <3>1
    <3>2. CASE Sched!Publish(s, item)
      BY <3>2, PublishNumbered DEF Base, LockInv, Count
    <3> QED
      BY <2>1, <3>1, <3>2
  <2>5. Load(m, k)' <= Load(m, k)
    <3>1. Count(held) \in {0, 1} /\ Count(back) = 0
      BY <2>3 DEF Count
    <3>2. /\ k = "monitor" =>
               Load(m, k)' = Load(m, k) + d - 1 + Count(helds) - Count(held)
          /\ k # "monitor" =>
               Load(m, k)' = Load(m, k) + d - 2 * 1
                 + Count(helds) - Count(held) + Count(backs) - Count(back)
      BY <1>3, <1>5, <2>2, <2>4
    <3> QED
      BY <1>1, <2>3, <3>1, <3>2
  <2> QED
    BY <2>2, <2>3, <2>5 DEF Keeps, helds, held
<1>9. CASE Sched!RecoverFails(s) \/ Sched!Crash(s)
  <2>1. /\ monitors' = monitors /\ queue' = queue /\ faults' = faults + 1
        /\ sweep'[s].items = {}
    BY <1>1, <1>9, AfterLoopType DEF Released, Sched!RecoverFails, Sched!Crash, Sched!IdleSweep
  <2>2. /\ ~helds /\ ~backs /\ Count(held) \in {0, 1} /\ Count(back) \in {0, 1}
    BY <1>2, <2>1 DEF Count
  <2>3. Load(m, k)' <= Load(m, k)
    BY <1>1, <1>3, <1>4, <1>5, <2>1, <2>2 DEF Count
  <2> QED
    BY <2>1, <2>2, <2>3 DEF Keeps, helds
<1>10. CASE Sched!Claim(s)
  <2>1. /\ queue' = queue /\ faults' = faults /\ sweep[s].items = {} /\ sweep[s].pc = "claim"
        /\ sweep[s].now <= clock /\ clock < sweep[s].now + HardLimit
    BY <1>1, <1>10 DEF Shape, Sched!Claim
  <2>2. /\ sweep'[s].items = {<<i, IntervalOf(monitors[i], kind)>> : i \in Sched!Claimable(s)}
        /\ sweep'[s].kind = kind /\ sweep'[s].now = sweep[s].now /\ sweep'[s].pc = "dispatch"
    BY <1>10, ClaimItems, SweepTypes DEF Base, Sched!SweepState
  <2>3. ~held /\ ~back /\ ~backs /\ (helds <=> kind = k /\ m \in Sched!Claimable(s))
    <3>1. \A i : <<i, IntervalOf(monitors[i], kind)>>[1] = i
      OBVIOUS
    <3>2. (\E item \in sweep'[s].items : item[1] = m) <=> m \in Sched!Claimable(s)
      <4>1. ASSUME NEW item \in sweep'[s].items, item[1] = m
            PROVE  m \in Sched!Claimable(s)
        <5>1. PICK i \in Sched!Claimable(s) : item = <<i, IntervalOf(monitors[i], kind)>>
          BY <2>2
        <5> QED
          BY <3>1, <4>1, <5>1
      <4>2. ASSUME m \in Sched!Claimable(s)
            PROVE  \E item \in sweep'[s].items : item[1] = m
        <5>1. <<m, IntervalOf(monitors[m], kind)>> \in sweep'[s].items
          BY <2>2, <4>2
        <5> QED
          BY <3>1, <5>1
      <4> QED
        BY <4>1, <4>2
    <3> QED
      BY <1>2, <2>1, <2>2, <3>2
  <2>4. CASE m \in Sched!Claimable(s) /\ k = kind
    <3> DEFINE i == IntervalOf(monitors[m], k)
    <3>1. m \in sweep[s].rows /\ m \in DOMAIN monitors
      BY <2>4 DEF Sched!Claimable, Base, RowsPresent
    <3>2. i \in Intervals
      BY <1>1, <2>4, <3>1, RowTypes, OneModelOperators DEF Sched!Claimable
    <3>3. /\ NextAt(monitors[m], k) # NULL
          /\ NextAt(monitors[m], k) <= sweep[s].now
      BY <2>4, <3>1 DEF LockInv, LockedDue, Sched!Due, Sched!NextAt, NextAt
    <3>4. i \in Nat /\ Shortest \in Nat /\ Shortest <= i
      BY <3>2, IntervalTypes, ShortestType
    <3>5. NextAt(monitors'[m], k) = sweep[s].now + i
      <4>1. monitors'[m] = WithNextAt(monitors[m], k, sweep[s].now + i)
        BY <1>10, <2>4, <3>1, OneModelOperators DEF Sched!Claim, Sched!NextRun
      <4>2. sweep[s].now + i \in Nat
        BY <1>1, <3>4
      <4> HIDE DEF i
      <4> QED
        BY <1>1, <3>1, <4>1, <4>2, NextAtTypes
    <3> HIDE DEF i
    <3>6. Load(m, k)' = Load(m, k) + 1
      <4>1. Count(helds) = 1 /\ Count(held) = 0 /\ Count(backs) = 0 /\ Count(back) = 0
        BY <2>3, <2>4 DEF Count
      <4>2. Cardinality(Sent(m, k)') = Cardinality(Sent(m, k)) + 0 /\ faults' = faults + 0
        BY <1>4, <1>5, <2>1
      <4>3. /\ k = "monitor" =>
                 Load(m, k)' = Load(m, k) + 0 - 0 + Count(helds) - Count(held)
            /\ k # "monitor" =>
                 Load(m, k)' = Load(m, k) + 0 - 2 * 0
                   + Count(helds) - Count(held) + Count(backs) - Count(back)
        BY <1>3, <1>5, <4>2
      <4> QED
        BY <1>1, <4>1, <4>3
    <3>7. NextAt(monitors'[m], k) \in Nat /\ NextAt(monitors'[m], k) >= sweep[s].now + Shortest
      BY <1>1, <3>4, <3>5
    <3> QED
      BY <2>1, <2>2, <2>4, <3>1, <3>3, <3>6, <3>7 DEF Advances
  <2>5. CASE ~(m \in Sched!Claimable(s) /\ k = kind)
    <3>1. Load(m, k)' = Load(m, k)
      BY <1>1, <1>3, <1>4, <1>5, <2>1, <2>3, <2>5 DEF Count
    <3>2. m \in DOMAIN monitors => NextAt(monitors'[m], k) = NextAt(monitors[m], k)
      <4>1. SUFFICES ASSUME m \in DOMAIN monitors
                     PROVE  NextAt(monitors'[m], k) = NextAt(monitors[m], k)
        OBVIOUS
      <4>2. CASE m \notin Sched!Claimable(s)
        BY <1>10, <4>1, <4>2 DEF Sched!Claim
      <4>3. CASE m \in Sched!Claimable(s)
        <5> DEFINE i == IntervalOf(monitors[m], kind)
        <5>1. monitors'[m] = WithNextAt(monitors[m], kind, sweep[s].now + i)
          BY <1>10, <4>1, <4>3, OneModelOperators DEF Sched!Claim, Sched!NextRun
        <5>2. i \in Intervals
          BY <1>1, <4>1, <4>3, RowTypes, OneModelOperators DEF Sched!Claimable
        <5>3. sweep[s].now + i \in Nat
          BY <1>1, <5>2, IntervalTypes
        <5> HIDE DEF i
        <5> QED
          BY <1>1, <2>5, <4>1, <4>3, <5>1, <5>3, NextAtTypes
      <4> QED
        BY <4>2, <4>3
    <3>3. ~helds
      BY <2>3, <2>5
    <3> QED
      BY <1>1, <3>1, <3>2, <3>3 DEF Keeps, helds
  <2> QED
    BY <2>4, <2>5
<1>11. CASE Sched!Recover(s)
  <2>1. /\ queue' = queue /\ faults' = faults /\ sweep[s].pc = "recover"
        /\ \A i \in DOMAIN monitors :
             monitors'[i] = IF i \in Sched!ItemMons(s)
                            THEN WithNextAt(monitors[i], kind, sweep[s].now) ELSE monitors[i]
        /\ sweep'[s].items = {}
    BY <1>1, <1>11, AfterLoopType, OneModelOperators DEF Released, Sched!Recover
  <2>2. /\ ~helds /\ ~backs
        /\ back <=> held
        /\ held <=> kind = k /\ m \in Sched!ItemMons(s)
    BY <1>2, <2>1 DEF Sched!ItemMons, Sched!Mon
  <2>3. m \in DOMAIN monitors =>
          NextAt(monitors'[m], k) = IF held THEN sweep[s].now ELSE NextAt(monitors[m], k)
    BY <1>1, <2>1, <2>2, NextAtTypes
  <2>4. CASE held
    <3>1. Load(m, k)' = IF k = "monitor" THEN Load(m, k) - 1 ELSE Load(m, k) - 2
      BY <1>1, <1>3, <1>4, <1>5, <2>1, <2>2, <2>4 DEF Count
    <3> QED
      BY <2>2, <2>3, <2>4, <3>1 DEF Returns, held, helds
  <2>5. CASE ~held
    <3>1. Load(m, k)' = Load(m, k)
      BY <1>1, <1>3, <1>4, <1>5, <2>1, <2>2, <2>5 DEF Count
    <3> QED
      BY <1>1, <2>2, <2>3, <2>5, <3>1 DEF Keeps, helds
  <2> QED
    BY <2>4, <2>5
<1> QED
  BY <1>6, <1>7, <1>8, <1>9, <1>10, <1>11 DEF SweepStep, Sched!Step

\* The products of two loads that a step relates.
LEMMA Amounts ==
  ASSUME NEW a \in Int, NEW b \in Int, NEW i \in Nat
  PROVE  /\ a * i \in Int /\ b * i \in Int
         /\ (a - 1) * i = a * i - i /\ (b - 1) * i = b * i - i
         /\ b <= a => b * i <= a * i
         /\ b = a + 1 => b * i = a * i + i
         /\ b = a - 1 => b * i = a * i - i
         /\ b = a - 2 => b * i = a * i - i - i
BY Products

LEMMA LoadTypes ==
  ASSUME Base, Numbered, NEW m \in Mons, NEW k \in CheckType
  PROVE  /\ Cardinality(Sent(m, k)) \in Nat /\ Cardinality(Holders(m, k)) \in Nat
         /\ Cardinality(Returning(m, k)) \in Nat /\ faults \in Nat /\ starts[m] \in Nat
         /\ Load(m, k) \in Int
<1>1. Cardinality(Sent(m, k)) \in Nat
  BY SentTypes DEF Base
<1>2. Cardinality(Holders(m, k)) \in Nat /\ Cardinality(Returning(m, k)) \in Nat
  <2>1. IsFiniteSet(Holders(m, k)) /\ IsFiniteSet(Returning(m, k))
    BY PingGuardAssumption, FS_Subset DEF Holders, Returning
  <2> QED
    BY <2>1, FS_CardinalityType
<1>3. faults \in Nat /\ starts[m] \in Nat
  BY TypeParts, PingGuardAssumption DEF Base, SharedTypes, StartTypes
<1> QED
  BY <1>1, <1>2, <1>3 DEF Load

LEMMA LoadTypesAfter == Base' /\ Numbered' => \A m \in Mons, k \in CheckType : Load(m, k)' \in Int
<1> DEFINE Typed == \A m \in Mons, k \in CheckType : Load(m, k) \in Int
<1>1. Base /\ Numbered => Typed
  BY LoadTypes
<1> HIDE DEF Typed
<1>2. Base' /\ Numbered' => Typed'
  BY <1>1, PTL
<1> QED
  BY <1>2 DEF Typed

LEMMA PacedSweep ==
  ASSUME Sched!LimitBelowIntervals, Base, Base', LockInv, LockInv', Exclusive,
         NEW s \in Sweeps, SweepStep(s), NEW m \in Mons, NEW k \in CheckType, Paced(m, k)
  PROVE  Paced(m, k)'
<1> DEFINE i == Shortest
           p == Load(m, k) * i
           q == Load(m, k)' * i
           n == NextAt(monitors[m], k)
           nn == NextAt(monitors'[m], k)
           now == sweep[s].now
<1>1. /\ i \in Nat \ {0} /\ clock \in Nat /\ clock' = clock /\ HardLimit \in Nat
      /\ HardLimit <= i /\ now \in Nat
      /\ DOMAIN monitors' = DOMAIN monitors
      /\ \A t \in Sweeps \ {s} : sweep'[t] = sweep[t]
      /\ \A t \in Sweeps : sweep[t].now \in Nat
      /\ m \in DOMAIN monitors => n \in Nat \cup {NULL}
  BY ShortestType, SweepTypes, SweepKeepsState, SweepKeepsTable, TypeParts,
     PingGuardAssumption, NextAtTypes
     DEF Base, SharedTypes, TableTypes, Sched!LimitBelowIntervals
<1>2. /\ Load(m, k) \in Int /\ Load(m, k)' \in Int
      /\ p \in Int /\ q \in Int
      /\ (Load(m, k) - 1) * i = p - i /\ (Load(m, k)' - 1) * i = q - i
      /\ Load(m, k)' <= Load(m, k) => q <= p
      /\ Load(m, k)' = Load(m, k) + 1 => q = p + i
      /\ Load(m, k)' = Load(m, k) - 1 => q = p - i
      /\ Load(m, k)' = Load(m, k) - 2 => q = p - i - i
  BY <1>1, LoadTypes, LoadTypesAfter, Amounts DEF LockInv
<1>3. /\ p <= clock + i
      /\ m \in DOMAIN monitors /\ n # NULL =>
           /\ k = "monitor" =>
                p <= n /\ \A t \in Holders(m, k) : p - i <= sweep[t].now
           /\ k # "monitor" => p <= n \/ p + i <= clock + 1
  BY <1>2 DEF Paced
<1>4. SUFFICES
        /\ q <= clock + i
        /\ m \in DOMAIN monitors /\ nn # NULL =>
             /\ k = "monitor" =>
                  q <= nn /\ \A t \in Holders(m, k)' : q - i <= sweep'[t].now
             /\ k # "monitor" => q <= nn \/ q + i <= clock + 1
  BY <1>1, <1>2, <1>4 DEF Paced
<1> HIDE DEF p, q, n, nn, i
<1>5. \A t \in Holders(m, k)' \ {s} : t \in Holders(m, k) /\ sweep'[t].now = sweep[t].now
  BY <1>1 DEF Holders, Sched!ItemMons
\* Whoever holds the row for its health check holds it alone.
<1>6. k = "monitor" /\ sweep[s].kind = k /\ m \in Sched!Holding(s) =>
        Holders(m, k)' \subseteq {s}
  BY <1>5 DEF Exclusive, Holders, Sched!Holding
<1>7. CASE Keeps(s, m, k)
  <2>1. q <= p /\ (m \in DOMAIN monitors => nn = n)
    BY <1>2, <1>7 DEF Keeps, n, nn
  <2>2. \A t \in Holders(m, k)' : t \in Holders(m, k) /\ sweep'[t].now = sweep[t].now
    BY <1>5, <1>7 DEF Keeps
  <2>3. \A t \in Holders(m, k) : sweep[t].now \in Nat
    BY <1>1 DEF Holders
  <2> QED
    BY <1>1, <1>2, <1>3, <2>1, <2>2, <2>3
<1>8. CASE Advances(s, m, k)
  <2>1. /\ m \in DOMAIN monitors /\ n # NULL /\ n <= now /\ nn \in Nat /\ nn >= now + i
        /\ now <= clock /\ clock < now + HardLimit /\ sweep'[s].now = now
        /\ q = p + i
    BY <1>2, <1>8 DEF Advances, n, nn, i
  <2>2. k = "monitor" => Holders(m, k)' \subseteq {s}
    BY <1>6, <1>8 DEF Advances, Sched!Holding
  <2>3. CASE k = "monitor"
    <3>1. p <= now
      BY <1>1, <1>2, <1>3, <2>1, <2>3
    <3>2. \A t \in Holders(m, k)' : sweep'[t].now = now
      BY <2>1, <2>2, <2>3
    <3> QED
      BY <1>1, <1>2, <2>1, <2>3, <3>1, <3>2
  <2>4. CASE k # "monitor"
    BY <1>1, <1>2, <1>3, <2>1, <2>4
  <2> QED
    BY <2>3, <2>4
<1>9. CASE Returns(s, m, k)
  <2>1. /\ s \in Holders(m, k) /\ s \notin Holders(m, k)'
        /\ m \in DOMAIN monitors => nn = now
        /\ k = "monitor" => q = p - i
        /\ k # "monitor" => q = p - i - i
    BY <1>2, <1>9 DEF Returns, nn
  <2>2. k = "monitor" => Holders(m, k)' = {}
    BY <1>6, <2>1 DEF Holders, Sched!Holding
  <2>3. CASE k = "monitor"
    <3>1. m \in DOMAIN monitors => n # NULL
      <4>1. m \in DOMAIN monitors => monitors[m].next_check_at \in Nat
        BY OneModel DEF Base, TypeOK, Api!TypeOK, Monitor
      <4> QED
        BY <2>3, <4>1, NullAssumption DEF n, NextAt
    <3> QED
      BY <1>1, <1>2, <1>3, <2>1, <2>2, <2>3, <3>1
  <2>4. CASE k # "monitor"
    BY <1>1, <1>2, <1>3, <2>1, <2>4
  <2> QED
    BY <2>3, <2>4
<1> QED
  BY <1>7, <1>8, <1>9, SweepLoad

\* The clock passes, or a handler writes: the claims and the messages stay.
LEMMA PacedFrame ==
  ASSUME Base, Base', LockInv, LockInv', NEW m \in Mons, NEW k \in CheckType, Paced(m, k),
         UNCHANGED <<sweep, queue, faults>>, clock' \in {clock, clock + 1},
         DOMAIN monitors' \subseteq DOMAIN monitors,
         \/ /\ k = "monitor" \/ starts'[m] = starts[m]
            /\ m \in DOMAIN monitors' =>
                 NextAt(monitors'[m], k) \in {NextAt(monitors[m], k), NULL}
         \/ k # "monitor" /\ starts'[m] = starts[m] + 1
  PROVE  Paced(m, k)'
<1> DEFINE i == Shortest
           p == Load(m, k) * i
           q == Load(m, k)' * i
           n == NextAt(monitors[m], k)
           nn == NextAt(monitors'[m], k)
<1>1. /\ i \in Nat \ {0} /\ clock \in Nat
      /\ \A t \in Sweeps : sweep[t].now \in Nat
      /\ m \in DOMAIN monitors => n \in Nat \cup {NULL}
  BY ShortestType, SweepTypes, TypeParts, NextAtTypes DEF Base, SharedTypes, TableTypes
<1>2. /\ Holders(m, k)' = Holders(m, k) /\ Returning(m, k)' = Returning(m, k)
      /\ Sent(m, k)' = Sent(m, k)
  BY DEF Holders, Returning, Sent, Sched!ItemMons
<1>3. Load(m, k)' = IF k = "monitor" \/ starts'[m] = starts[m]
                     THEN Load(m, k) ELSE Load(m, k) - 2
  <2> DEFINE c == Cardinality(Sent(m, k))
             h == Cardinality(Holders(m, k))
             r == Cardinality(Returning(m, k))
  <2>1. c \in Nat /\ h \in Nat /\ r \in Nat /\ faults \in Nat /\ starts[m] \in Nat
    BY LoadTypes DEF LockInv
  <2>2. /\ Load(m, k) = IF k = "monitor" THEN c + h - faults
                        ELSE c + h + r - 2 * (faults + starts[m])
        /\ Load(m, k)' = IF k = "monitor" THEN c + h - faults
                         ELSE c + h + r - 2 * (faults + starts'[m])
    BY <1>2 DEF Load
  <2> HIDE DEF c, h, r
  <2> QED
    BY <2>1, <2>2
<1>4. /\ Load(m, k) \in Int /\ Load(m, k)' \in Int
      /\ p \in Int /\ q \in Int
      /\ (Load(m, k) - 1) * i = p - i /\ (Load(m, k)' - 1) * i = q - i
      /\ Load(m, k)' <= Load(m, k) => q <= p
      /\ Load(m, k)' = Load(m, k) - 2 => q = p - i - i
  BY <1>1, LoadTypes, LoadTypesAfter, Amounts DEF LockInv
<1>5. /\ p <= clock + i
      /\ m \in DOMAIN monitors /\ n # NULL =>
           /\ k = "monitor" =>
                p <= n /\ \A t \in Holders(m, k) : p - i <= sweep[t].now
           /\ k # "monitor" => p <= n \/ p + i <= clock + 1
  BY <1>4 DEF Paced
<1>6. SUFFICES
        /\ q <= clock' + i
        /\ m \in DOMAIN monitors' /\ nn # NULL =>
             /\ k = "monitor" =>
                  q <= nn /\ \A t \in Holders(m, k) : q - i <= sweep[t].now
             /\ k # "monitor" => q <= nn \/ q + i <= clock' + 1
  BY <1>2, <1>4, <1>6 DEF Paced
<1>7. \A t \in Holders(m, k) : sweep[t].now \in Nat
  BY <1>1 DEF Holders
<1>8. clock' \in Nat /\ clock' >= clock
  BY <1>1
<1> HIDE DEF p, q, n, nn, i
<1>9. CASE k = "monitor" \/ starts'[m] = starts[m]
  <2>1. q <= p
    BY <1>3, <1>4, <1>9
  <2>2. starts[m] \in Nat
    BY LoadTypes DEF LockInv
  <2>3. m \in DOMAIN monitors' => m \in DOMAIN monitors /\ nn \in {n, NULL}
    BY <1>9, <2>2 DEF n, nn
  <2>4. q <= clock' + i
    <3>1. p \in Int /\ q \in Int /\ i \in Nat /\ p <= clock + i
      BY <1>1, <1>4, <1>5
    <3>2. q <= clock + i /\ clock \in Nat
      BY <1>1, <2>1, <3>1
    <3>3. CASE clock' = clock
      BY <3>1, <3>2, <3>3
    <3>4. CASE clock' = clock + 1
      BY <3>1, <3>2, <3>4
    <3> QED
      BY <3>3, <3>4
  <2>5. ASSUME m \in DOMAIN monitors', nn # NULL
        PROVE  /\ k = "monitor" =>
                    q <= nn /\ \A t \in Holders(m, k) : q - i <= sweep[t].now
               /\ k # "monitor" => q <= nn \/ q + i <= clock' + 1
    <3>1. m \in DOMAIN monitors /\ nn = n /\ n \in Nat
      BY <1>1, <2>3, <2>5
    <3>2. p \in Int /\ q \in Int /\ i \in Nat
      BY <1>1, <1>4
    <3>3. /\ k = "monitor" =>
               p <= n /\ \A t \in Holders(m, k) : p - i <= sweep[t].now
          /\ k # "monitor" => p <= n \/ p + i <= clock + 1
      BY <1>5, <2>5, <3>1, NullAssumption
    <3>4. k = "monitor" => q <= nn /\ \A t \in Holders(m, k) : q - i <= sweep[t].now
      BY <1>7, <2>1, <3>1, <3>2, <3>3
    <3>5. CASE p <= n
      BY <2>1, <3>1, <3>2, <3>4, <3>5
    <3>6. CASE k # "monitor" /\ p + i <= clock + 1
      <4>1. clock \in Nat
        BY <1>1
      <4>2. CASE clock' = clock
        BY <2>1, <3>2, <3>6, <4>1, <4>2
      <4>3. CASE clock' = clock + 1
        BY <2>1, <3>2, <3>6, <4>1, <4>3
      <4> QED
        BY <3>6, <4>2, <4>3
    <3> QED
      BY <3>3, <3>4, <3>5, <3>6
  <2> QED
    BY <2>4, <2>5
<1>10. CASE ~(k = "monitor" \/ starts'[m] = starts[m])
  <2>1. q = p - i - i /\ k # "monitor"
    BY <1>3, <1>4, <1>10
  <2>2. q + i <= clock
    BY <1>1, <1>4, <1>5, <2>1
  <2>3. i \in Nat /\ q \in Int
    BY <1>1, <1>4
  <2>4. q <= clock' + i /\ q + i <= clock' + 1
    <3>1. clock \in Nat
      BY <1>1
    <3>2. CASE clock' = clock
      BY <2>2, <2>3, <3>1, <3>2
    <3>3. CASE clock' = clock + 1
      BY <2>2, <2>3, <3>1, <3>3
    <3> QED
      BY <3>2, <3>3
  <2> QED
    BY <2>1, <2>4
<1> QED
  BY <1>9, <1>10

LEMMA PacedUpdate ==
  ASSUME Base, Base', LockInv, LockInv', AllPaced, NEW r \in Requests, UpdateCommit(r)
  PROVE  AllPaced'
<1> DEFINE id == session[r].id
           changes == session[r].changes
<1>1. TableTypes /\ SharedTypes /\ SessionsOK /\ StartTypes
  BY TypeParts DEF Base
<1>2. /\ session[r].op = "update" /\ id \in DOMAIN monitors /\ Api!Storable(changes)
      /\ monitors' = [monitors EXCEPT ![id] = Api!Write(@, changes)]
      /\ UNCHANGED <<clock, queue, sweep, faults>>
      /\ starts' = [starts EXCEPT ![id] = IF StartsClock(changes) THEN @ + 1 ELSE @]
  BY DEF UpdateCommit, Api!UpdateCommit, sweeps
<1>3. ChangesOK(changes) /\ monitors[id] \in Monitor /\ clock \in Nat /\ id \in Mons
  BY <1>1, <1>2 DEF SessionsOK, TableTypes, SharedTypes
<1>4. Api!Write(monitors[id], changes)["next_keep_alive_at"] =
        IF "next_keep_alive_at" \in DOMAIN changes
        THEN changes["next_keep_alive_at"] ELSE monitors[id]["next_keep_alive_at"]
  BY <1>3, RowColumns DEF Api!Write, Columns
<1> SUFFICES ASSUME NEW m \in Mons, NEW k \in CheckType
             PROVE  Paced(m, k)'
  BY DEF AllPaced
<1>5. DOMAIN monitors' = DOMAIN monitors
  BY <1>2
<1>6. CASE m = id /\ k = "keep_alive" /\ StartsClock(changes)
  <2>1. starts'[m] = starts[m] + 1
    BY <1>1, <1>2, <1>3, <1>6 DEF StartTypes
  <2> QED
    BY <1>2, <1>5, <1>6, <2>1, PacedFrame DEF AllPaced
<1>7. CASE ~(m = id /\ k = "keep_alive" /\ StartsClock(changes))
  <2>1. k = "monitor" \/ starts'[m] = starts[m]
    BY <1>1, <1>2, <1>3, <1>7 DEF StartTypes, CheckType
  <2>2. m \in DOMAIN monitors' =>
          NextAt(monitors'[m], k) \in {NextAt(monitors[m], k), NULL}
    <3>1. CASE m = id /\ k = "keep_alive"
      BY <1>2, <1>4, <1>7, <3>1 DEF NextAt, StartsClock
    <3>2. CASE ~(m = id /\ k = "keep_alive")
      BY <1>2, <1>3, <3>2, WriteOK DEF NextAt, CheckType
    <3> QED
      BY <3>1, <3>2
  <2> QED
    BY <1>2, <1>5, <2>1, <2>2, PacedFrame DEF AllPaced
<1> QED
  BY <1>6, <1>7

\* The locks survive a handler, which waits for them.
LEMMA HandlerKeepsLockInv ==
  ASSUME Base, LockInv,
         NEW r \in Requests, HandlerStep(r) \/ UpdateCommit(r) \/ DeleteCommit(r)
  PROVE  LockInv'
<1>1. UNCHANGED <<queue, sent, sweep>>
  BY DEF HandlerStep, Api!UpdateGet, Api!DeleteGet, Api!Abort, UpdateCommit,
         Api!UpdateCommit, DeleteCommit, Api!DeleteCommit, sweeps
<1>2. ASSUME NEW m \in Sched!Locked
      PROVE  monitors'[m] = monitors[m]
  <2>1. m \in DOMAIN monitors
    BY DEF Base, RowsPresent, Sched!Locked
  <2>2. CASE HandlerStep(r)
    BY <2>2 DEF HandlerStep, Api!UpdateGet, Api!DeleteGet, Api!Abort
  <2>3. CASE UpdateCommit(r)
    BY <1>2, <2>1, <2>3 DEF UpdateCommit, Api!UpdateCommit, Unlocked
  <2>4. CASE DeleteCommit(r)
    BY <1>2, <2>1, <2>4 DEF DeleteCommit, Api!DeleteCommit, Unlocked
  <2> QED
    BY <2>2, <2>3, <2>4
<1> QED
  BY <1>1, <1>2, HandlerKeepsLocks

LEMMA LockInvStep == Base /\ LockInv /\ [Next]_vars => LockInv'
<1> SUFFICES ASSUME Base, LockInv, [Next]_vars
             PROVE  LockInv'
  OBVIOUS
<1>1. CASE Tick \/ UNCHANGED vars
  <2>1. UNCHANGED <<monitors, queue, sent, sweep>>
    BY <1>1 DEF Tick, Sched!Tick, vars, table, sweeps
  <2> QED
    BY <2>1, HandlerKeepsLocks
<1> QED
  BY <1>1, LockStep, HandlerKeepsLockInv DEF Next

LEMMA PacedStep ==
  Sched!LimitBelowIntervals /\ Base /\ LockInv /\ Exclusive /\ AllPaced /\ [Next]_vars
    => AllPaced'
<1> SUFFICES ASSUME Sched!LimitBelowIntervals, Base, LockInv, Exclusive, AllPaced,
                    [Next]_vars
             PROVE  AllPaced'
  OBVIOUS
<1>1. Base' /\ LockInv'
  BY BaseStep, LockInvStep
<1>2. ASSUME NEW s \in Sweeps, SweepStep(s)
      PROVE  AllPaced'
  BY <1>1, <1>2, PacedSweep DEF AllPaced
<1>3. ASSUME NEW r \in Requests, UpdateCommit(r)
      PROVE  AllPaced'
  BY <1>1, <1>3, PacedUpdate
<1>4. ASSUME \/ \E r \in Requests : HandlerStep(r) \/ DeleteCommit(r)
             \/ Tick \/ UNCHANGED vars
      PROVE  AllPaced'
  <2>1. /\ UNCHANGED <<sweep, queue, faults, starts>> /\ clock' \in {clock, clock + 1}
        /\ DOMAIN monitors' \subseteq DOMAIN monitors
        /\ \A m \in DOMAIN monitors' : monitors'[m] = monitors[m]
    BY <1>4 DEF HandlerStep, Api!UpdateGet, Api!DeleteGet, Api!Abort, DeleteCommit,
                Api!DeleteCommit, Tick, Sched!Tick, vars, table, sweeps
  <2>2. ASSUME NEW m \in Mons, NEW k \in CheckType
        PROVE  Paced(m, k)'
    <3>1. /\ starts'[m] = starts[m]
          /\ m \in DOMAIN monitors' =>
               NextAt(monitors'[m], k) \in {NextAt(monitors[m], k), NULL}
      BY <2>1
    <3> QED
      BY <1>1, <2>1, <3>1, PacedFrame DEF AllPaced
  <2> QED
    BY <2>2 DEF AllPaced
<1> QED
  BY <1>2, <1>3, <1>4 DEF Next

LEMMA PacedInit == Init => LockInv /\ AllPaced
<1> SUFFICES ASSUME Init
             PROVE  LockInv /\ AllPaced
  OBVIOUS
<1>1. \A s \in Sweeps : sweep[s].rows = {} /\ sweep[s].items = {}
  BY DEF Init, Sched!IdleSweep
<1>2. LockInv
  BY <1>1, FS_EmptySet DEF Init, LockInv, Numbered, OneEach, LocksApart, LockedDue
<1>3. ASSUME NEW m \in Mons, NEW k \in CheckType
      PROVE  Paced(m, k)
  <2>1. Sent(m, k) = {} /\ Holders(m, k) = {} /\ Returning(m, k) = {}
    BY <1>1 DEF Init, Sent, Holders, Returning, Sched!ItemMons
  <2>2. Load(m, k) = 0
    BY <2>1, FS_EmptySet DEF Load, Init
  <2>3. Shortest \in Nat \ {0} /\ 0 * Shortest = 0
    BY ShortestType
  <2>4. m \in DOMAIN monitors => NextAt(monitors[m], k) \in {0, NULL}
    BY PingGuardAssumption DEF Init
  <2> QED
    BY <2>1, <2>2, <2>3, <2>4 DEF Paced, Init
<1> QED
  BY <1>2, <1>3 DEF AllPaced

LEMMA PacedBounds ==
  ASSUME Base, LockInv, NEW m \in Mons, NEW k \in CheckType, Paced(m, k)
  PROVE  Cardinality(Sent(m, k)) <=
           1 + (clock \div Shortest)
             + (IF k = "monitor" THEN faults ELSE 2 * (faults + starts[m]))
<1> DEFINE i == Shortest
           q == clock \div i
           l == Load(m, k)
           c == Cardinality(Sent(m, k))
           h == Cardinality(Holders(m, k))
           r == Cardinality(Returning(m, k))
<1>1. /\ c \in Nat /\ h \in Nat /\ r \in Nat /\ faults \in Nat /\ starts[m] \in Nat
      /\ l \in Int /\ i \in Nat \ {0} /\ clock \in Nat
  BY LoadTypes, ShortestType, TypeParts DEF LockInv, Base, SharedTypes
<1>2. l = IF k = "monitor" THEN c + h - faults ELSE c + h + r - 2 * (faults + starts[m])
  BY DEF Load
<1>3. l * i <= clock + i
  BY DEF Paced
<1> HIDE DEF i, l, c, h, r
<1>4. q \in Nat /\ clock < (q + 1) * i
  BY <1>1, Quotient
<1> HIDE DEF q
<1>5. /\ (q + 1) * i \in Int /\ l * i \in Int
      /\ ((q + 1) + 1) * i = (q + 1) * i + i /\ q + 1 \in Int /\ (q + 1) + 1 \in Int
  BY <1>1, <1>4, Products
<1>6. l * i < ((q + 1) + 1) * i
  BY <1>1, <1>3, <1>4, <1>5
<1>7. l < (q + 1) + 1
  BY <1>1, <1>5, <1>6, Products
<1>8. c <= 1 + q + (IF k = "monitor" THEN faults ELSE 2 * (faults + starts[m]))
  BY <1>1, <1>2, <1>4, <1>7
<1> QED
  BY <1>8 DEF c, q, i

\* While no sweep outlives the shortest interval a client may ask for, no edit of
\* the mode or the intervals, under any interleaving with sweeps, resets, deletes
\* and kills, makes a schedule run more often than that interval allows; a fault
\* costs one message of a health check, and a fault or a new start two of a
\* keep-alive.
THEOREM EditsKeepTheRate ==
  ASSUME Sched!LimitBelowIntervals
  PROVE  Spec => []RateBounded
<1>1. Base /\ LockInv /\ AllPaced => RateBounded
  BY PacedBounds DEF RateBounded, AllPaced
<1>2. Base /\ Exclusive /\ Own /\ [Next]_vars => Exclusive' /\ Own'
  BY ClaimsStep
<1>3. Base /\ LockInv /\ Exclusive /\ AllPaced /\ [Next]_vars => AllPaced'
  BY PacedStep
<1> QED
  BY <1>1, <1>2, <1>3, InitOK, BaseStep, LockInvStep, PacedInit, PTL DEF Spec

-----------------------------------------------------------------------------
(* The clock of a keep-alive and its flag.  A handler writes both from what  *)
(* it read; between its read and its commit a claim or a reset may write the *)
(* clock, but only another handler the flag.                                 *)

\* The row create_monitor and an update on its own leave.
Matching(row) == row.keep_alive_enabled <=> row.next_keep_alive_at # NULL

\* What a reset behind an update still leaves.
Kept(row, now) ==
  /\ row.keep_alive_enabled => row.next_keep_alive_at # NULL
  /\ ~row.keep_alive_enabled /\ row.next_keep_alive_at # NULL => row.next_keep_alive_at <= now

\* An update writes flag and clock together, if at all.
Balanced(changes) ==
  /\ "keep_alive_enabled" \in DOMAIN changes <=> "next_keep_alive_at" \in DOMAIN changes
  /\ "keep_alive_enabled" \in DOMAIN changes =>
       (changes["keep_alive_enabled"] <=> changes["next_keep_alive_at"] # NULL)

\* An update that switches a keep-alive off clears its clock.
Clears(changes) ==
  "keep_alive_enabled" \in DOMAIN changes /\ changes["keep_alive_enabled"] = FALSE =>
    "next_keep_alive_at" \in DOMAIN changes

\* A null flag is refused when the update is stored.
Storing(r) == session[r].op = "update" /\ Api!Storable(session[r].changes)

NoResetYet ==
  faults = 0 =>
    /\ \A m \in DOMAIN monitors : Matching(monitors[m])
    /\ \A s \in Sweeps : sweep[s].pc # "recover"
    /\ \A r \in Requests : Storing(r) => Balanced(session[r].changes)

OneHandler == \A r, q \in Requests : r = q

\* With one handler, the row as its update will leave it is right as it stands,
\* whatever sweeps have written since it read the row.
AloneKeeps ==
  OneHandler =>
    /\ \A m \in DOMAIN monitors : Kept(monitors[m], clock)
    /\ \A r \in Requests : Storing(r) =>
         /\ Clears(session[r].changes)
         /\ session[r].id \in DOMAIN monitors =>
              Kept(Api!Write(monitors[session[r].id], session[r].changes), clock)

LEMMA RowFlags ==
  ASSUME NEW row \in Monitor
  PROVE  /\ row["keep_alive_enabled"] \in BOOLEAN
         /\ row["next_keep_alive_at"] \in Nat \cup {NULL}
BY DEF Monitor

\* What an update writes in the two columns.
LEMMA WriteFlags ==
  ASSUME NEW row \in Monitor, NEW changes
  PROVE  \A c \in {"keep_alive_enabled", "next_keep_alive_at"} :
           Api!Write(row, changes)[c] = IF c \in DOMAIN changes THEN changes[c] ELSE row[c]
BY RowColumns DEF Api!Write, Columns

\* Both columns as update_monitor computes them from the row it read.
LEMMA UpdatedFlags ==
  ASSUME NEW row \in Monitor, NEW p \in Api!MonitorUpdate, NEW now \in Nat,
         NEW changes, changes = Api!Changes(row, Api!Updated(p, row, now)),
         Api!Storable(changes)
  PROVE  /\ Matching(row) => Balanced(changes)
         /\ Kept(row, now) => Clears(changes)
         /\ Kept(Api!Write(row, changes), now)
<1> DEFINE merged == Api!Merged(p, row)
           new == Api!Updated(p, row, now)
           written == {c \in DOMAIN row : new[c] # row[c]}
           on == "keep_alive_enabled"
           at == "next_keep_alive_at"
<1>1. /\ DOMAIN merged = Columns /\ merged[at] = row[at]
      /\ merged[on] \in BOOLEAN \cup {NULL}
  BY MergedOK DEF MergedTypes
<1>2. new = Api!SyncKeepAlive(merged, now)
  BY DEF Api!Updated
<1> HIDE DEF merged, new
<1>3. /\ new[on] = merged[on]
      /\ new[at] = IF new[on] # TRUE THEN NULL ELSE IF row[at] = NULL THEN now ELSE row[at]
  BY <1>1, <1>2 DEF Api!SyncKeepAlive, Columns
<1>4. changes = [c \in written |-> new[c]]
  BY DEF Api!Changes, new
<1>5. DOMAIN changes = written /\ \A c \in written : changes[c] = new[c]
  BY <1>4
<1>6. \A c \in {on, at} : c \in written <=> new[c] # row[c]
  BY RowColumns DEF Columns
<1>7. row[on] \in BOOLEAN /\ row[at] \in Nat \cup {NULL} /\ now # NULL
  BY RowFlags, NullAssumption
<1>8. new[on] \in BOOLEAN
  <2>1. on \in written => new[on] # NULL
    BY <1>5 DEF Api!Storable
  <2> QED
    BY <1>1, <1>3, <1>6, <1>7, <2>1
<1>9. Matching(row) => Balanced(changes)
  BY <1>3, <1>5, <1>6, <1>7, <1>8 DEF Matching, Balanced
<1>10. Kept(row, now) => Clears(changes)
  BY <1>3, <1>5, <1>6, <1>7, <1>8 DEF Kept, Clears
<1>11. \A c \in {on, at} : Api!Write(row, changes)[c] = new[c]
  BY <1>5, <1>6, WriteFlags
<1>12. Kept(Api!Write(row, changes), now)
  BY <1>3, <1>7, <1>8, <1>11 DEF Kept
<1> QED
  BY <1>9, <1>10, <1>12

\* What sweeps write: a claim moves the clock of a keep-alive that is on, a reset
\* sets the clock of any row to a time that has come; neither writes the flag.
LEMMA SweepFlags ==
  ASSUME Base, LockInv, NEW s \in Sweeps, SweepStep(s), NEW m \in DOMAIN monitors
  PROVE  /\ monitors'[m].keep_alive_enabled = monitors[m].keep_alive_enabled
         /\ \/ monitors'[m].next_keep_alive_at = monitors[m].next_keep_alive_at
            \/ /\ monitors[m].keep_alive_enabled
               /\ monitors[m].next_keep_alive_at # NULL
               /\ monitors'[m].next_keep_alive_at \in Nat
            \/ /\ sweep[s].pc = "recover"
               /\ monitors'[m].next_keep_alive_at \in 0 .. clock
<1> DEFINE kind == sweep[s].kind
           now == sweep[s].now
<1>1. /\ monitors[m] \in Monitor /\ kind \in CheckType /\ now \in Nat /\ clock \in Nat
      /\ Shape(sweep[s], clock)
  BY SweepTypes, TypeParts DEF Base, TableTypes, SharedTypes, SweepShape
<1>2. ASSUME NEW t \in Nat
      PROVE  /\ WithNextAt(monitors[m], kind, t).keep_alive_enabled
                  = monitors[m].keep_alive_enabled
             /\ WithNextAt(monitors[m], kind, t).next_keep_alive_at
                  = IF kind = "monitor" THEN monitors[m].next_keep_alive_at ELSE t
  BY <1>1 DEF WithNextAt, Monitor
<1>3. CASE Sched!Claim(s)
  <2>1. CASE m \in Sched!Claimable(s)
    <3> DEFINE i == IntervalOf(monitors[m], kind)
    <3>1. monitors'[m] = WithNextAt(monitors[m], kind, now + i)
      BY <1>3, <2>1, OneModelOperators DEF Sched!Claim, Sched!NextRun
    <3>2. now + i \in Nat
      BY <1>1, <2>1, RowTypes, IntervalTypes, OneModelOperators DEF Sched!Claimable
    <3>3. kind # "monitor" =>
            monitors[m].keep_alive_enabled /\ monitors[m].next_keep_alive_at # NULL
      BY <1>1, <2>1 DEF Sched!Claimable, LockInv, LockedDue, Sched!Due, Sched!NextAt, CheckType
    <3> HIDE DEF i
    <3> QED
      BY <1>2, <3>1, <3>2, <3>3
  <2>2. CASE m \notin Sched!Claimable(s)
    BY <1>3, <2>2 DEF Sched!Claim
  <2> QED
    BY <2>1, <2>2
<1>4. CASE Sched!Recover(s)
  <2>1. /\ sweep[s].pc = "recover" /\ now \in 0 .. clock
        /\ monitors'[m] = IF m \in Sched!ItemMons(s)
                          THEN WithNextAt(monitors[m], kind, now) ELSE monitors[m]
    BY <1>1, <1>4, OneModelOperators DEF Shape, Sched!Recover
  <2> QED
    BY <1>1, <1>2, <2>1
<1>5. CASE ~Sched!Claim(s) /\ ~Sched!Recover(s)
  <2>1. monitors' = monitors
    BY <1>5 DEF SweepStep, Sched!Step, Sched!Begin, Sched!SelectNone, Sched!SelectBatch,
       Sched!Enqueue, Sched!EnqueueFails, Sched!EndBatch, Sched!RecoverFails, Sched!Crash
  <2> QED
    BY <2>1
<1> QED
  BY <1>3, <1>4, <1>5

\* A reset comes after a refused publish.
LEMMA SweepNoReset ==
  ASSUME Base, LockInv, NoResetYet, NEW s \in Sweeps, SweepStep(s)
  PROVE  NoResetYet'
<1> SUFFICES ASSUME faults' = 0
             PROVE  /\ \A m \in DOMAIN monitors' : Matching(monitors'[m])
                    /\ \A t \in Sweeps : sweep'[t].pc # "recover"
                    /\ \A r \in Requests : Storing(r)' => Balanced(session'[r].changes)
  BY DEF NoResetYet
<1>1. /\ faults \in Nat /\ session' = session /\ DOMAIN monitors' = DOMAIN monitors
      /\ \A m \in DOMAIN monitors : monitors[m] \in Monitor
      /\ sweep[s] \in Sched!SweepState /\ DOMAIN sweep = Sweeps
      /\ \A t \in Sweeps \ {s} : sweep'[t] = sweep[t]
  BY TypeParts, SweepKeepsTable, SweepKeepsState, PingGuardAssumption
     DEF Base, SharedTypes, TableTypes, SweepsTypes, SweepStep, handlers
<1>2. /\ faults = 0 /\ ~Sched!EnqueueFails(s) /\ ~Sched!RecoverFails(s) /\ ~Sched!Crash(s)
  <2>1. Sched!EnqueueFails(s) \/ Sched!RecoverFails(s) \/ Sched!Crash(s) => faults' = faults + 1
    BY DEF Sched!EnqueueFails, Sched!RecoverFails, Sched!Crash
  <2>2. ~Sched!EnqueueFails(s) /\ ~Sched!RecoverFails(s) /\ ~Sched!Crash(s) => faults' = faults
    BY DEF SweepStep, Sched!Step, Sched!Begin, Sched!SelectNone, Sched!SelectBatch,
           Sched!Claim, Sched!Enqueue, Sched!EndBatch, Sched!Recover
  <2> QED
    BY <1>1, <2>1, <2>2
<1>3. sweep[s].pc # "recover" /\ \A m \in DOMAIN monitors : Matching(monitors[m])
  BY <1>2 DEF NoResetYet
<1>4. ASSUME NEW m \in DOMAIN monitors
      PROVE  Matching(monitors'[m])
  BY <1>1, <1>3, SweepFlags, NullAssumption DEF Matching
<1>5. sweep'[s].pc # "recover"
  <2>1. CASE Sched!Begin(s)
    BY <1>1, <2>1 DEF Sched!Begin, Sched!IdleSweep
  <2>2. CASE Sched!SelectNone(s) \/ Sched!EndBatch(s)
    <3>1. Released(sweep'[s], sweep[s])
      BY <1>1, <2>2, AfterLoopType, AfterBatchType
         DEF Base, SweepShape, Shape, Sched!SelectNone, Sched!EndBatch
    <3> QED
      BY <3>1 DEF Released
  <2>3. CASE Sched!SelectBatch(s) \/ Sched!Claim(s) \/ Sched!Enqueue(s)
    BY <1>1, <1>3, <2>3 DEF Sched!SelectBatch, Sched!Claim, Sched!Enqueue, Sched!SweepState
  <2> QED
    BY <1>2, <1>3, <2>1, <2>2, <2>3 DEF SweepStep, Sched!Step, Sched!Recover
<1> QED
  BY <1>1, <1>2, <1>4, <1>5 DEF NoResetYet, Storing

LEMMA SweepAlone ==
  ASSUME Base, LockInv, AloneKeeps, NEW s \in Sweeps, SweepStep(s)
  PROVE  AloneKeeps'
<1> SUFFICES ASSUME OneHandler
             PROVE  /\ \A m \in DOMAIN monitors' : Kept(monitors'[m], clock')
                    /\ \A r \in Requests : Storing(r)' =>
                         /\ Clears(session'[r].changes)
                         /\ session'[r].id \in DOMAIN monitors' =>
                              Kept(Api!Write(monitors'[session'[r].id], session'[r].changes),
                                   clock')
  BY DEF AloneKeeps, OneHandler
<1>1. /\ session' = session /\ DOMAIN monitors' = DOMAIN monitors /\ clock' = clock
      /\ clock \in Nat
      /\ \A m \in DOMAIN monitors : monitors[m] \in Monitor /\ monitors'[m] \in Monitor
  BY TypeParts, SweepKeepsTable, SweepKeepsState
     DEF Base, SharedTypes, TableTypes, SweepStep, handlers
<1>2. ASSUME NEW m \in DOMAIN monitors
      PROVE  Kept(monitors'[m], clock)
  <2>1. Kept(monitors[m], clock)
    BY DEF AloneKeeps
  <2> QED
    BY <1>1, <2>1, SweepFlags, RowFlags, NullAssumption DEF Kept
<1>3. ASSUME NEW r \in Requests, Storing(r), session[r].id \in DOMAIN monitors
      PROVE  Kept(Api!Write(monitors'[session[r].id], session[r].changes), clock)
  <2> DEFINE m == session[r].id
             changes == session[r].changes
             old == Api!Write(monitors[m], changes)
             new == Api!Write(monitors'[m], changes)
             on == "keep_alive_enabled"
             at == "next_keep_alive_at"
  <2>1. Clears(changes) /\ Kept(old, clock) /\ ChangesOK(changes) /\ Api!Storable(changes)
    BY <1>3 DEF AloneKeeps, Storing, Base, SessionsOK
  <2>2. \A c \in {on, at} :
          /\ old[c] = IF c \in DOMAIN changes THEN changes[c] ELSE monitors[m][c]
          /\ new[c] = IF c \in DOMAIN changes THEN changes[c] ELSE monitors'[m][c]
    BY <1>1, <1>3, WriteFlags
  <2>3. on \in DOMAIN changes => changes[on] \in BOOLEAN
    BY <2>1 DEF ChangesOK, Api!Storable, Domain
  <2>4. /\ monitors'[m][on] = monitors[m][on] /\ monitors[m][on] \in BOOLEAN
        /\ \/ monitors'[m][at] = monitors[m][at]
           \/ monitors[m][on] /\ monitors[m][at] # NULL /\ monitors'[m][at] \in Nat
           \/ monitors'[m][at] \in 0 .. clock
    BY <1>1, <1>3, SweepFlags, RowFlags
  <2> HIDE DEF old, new, changes, m
  <2>5. new[on] = old[on] /\ new[on] \in BOOLEAN
    BY <2>2, <2>3, <2>4
  <2>6. /\ old[on] => old[at] # NULL
        /\ ~old[on] /\ old[at] # NULL => old[at] <= clock
    BY <2>1 DEF Kept
  <2>7. CASE at \in DOMAIN changes
    <3>1. new[at] = old[at]
      BY <2>2, <2>7
    <3> QED
      BY <2>5, <2>6, <3>1 DEF Kept, new, changes, m
  <2>8. CASE at \notin DOMAIN changes
    <3>1. old[at] = monitors[m][at] /\ new[at] = monitors'[m][at]
      BY <2>2, <2>8
    <3>2. CASE monitors'[m][at] = monitors[m][at]
      BY <2>5, <2>6, <3>1, <3>2 DEF Kept, new, changes, m
    <3>3. CASE monitors[m][on] /\ monitors'[m][at] \in Nat
      <4>1. on \in DOMAIN changes => changes[on] # FALSE
        BY <2>1, <2>8 DEF Clears
      <4>2. new[on] = TRUE
        BY <2>2, <2>3, <2>4, <3>3, <4>1
      <4> QED
        BY <3>1, <3>3, <4>2, NullAssumption DEF Kept, new, changes, m
    <3>4. CASE monitors'[m][at] \in 0 .. clock
      BY <1>1, <2>5, <3>1, <3>4, NullAssumption DEF Kept, new, changes, m
    <3> QED
      BY <2>4, <3>2, <3>3, <3>4
  <2> QED
    BY <2>7, <2>8
<1> QED
  BY <1>1, <1>2, <1>3 DEF AloneKeeps, Storing

\* What each step of a handler does to the sessions and to the rows.
LEMMA HandlerSessions ==
  ASSUME Base, NEW r \in Requests, HandlerStep(r) \/ UpdateCommit(r) \/ DeleteCommit(r)
  PROVE  /\ UNCHANGED <<clock, sweep, faults>>
         /\ \A q \in Requests \ {r} : session'[q] = session[q]
         /\ Storing(r)' =>
              \E m \in DOMAIN monitors, p \in UpdatePayloads :
                /\ session'[r].id = m /\ monitors' = monitors
                /\ session'[r].changes =
                     Api!Changes(monitors[m], Api!Updated(p, monitors[m], clock))
<1>1. DOMAIN session = Requests
  BY TypeParts DEF Base, SessionTypes
<1>2. CASE Api!UpdateGet(r)
  <2>1. PICK m \in DOMAIN monitors, p \in UpdatePayloads :
          session' = [session EXCEPT ![r] =
            [op |-> "update", id |-> m, changes |->
               Api!Changes(monitors[m], Api!Updated(p, monitors[m], clock))]]
    BY <1>2 DEF Api!UpdateGet
  <2>2. UNCHANGED <<clock, sweep, faults, monitors>>
    BY <1>2 DEF HandlerStep, UpdateCommit, DeleteCommit, Api!UpdateGet, sweeps
  <2>3. /\ \A q \in Requests \ {r} : session'[q] = session[q]
        /\ session'[r].id = m
        /\ session'[r].changes =
             Api!Changes(monitors[m], Api!Updated(p, monitors[m], clock))
    BY <1>1, <2>1
  <2> QED
    BY <2>2, <2>3
<1>3. CASE ~Api!UpdateGet(r)
  <2>1. /\ UNCHANGED <<clock, sweep, faults>> /\ session'[r].op # "update"
        /\ \A q \in Requests \ {r} : session'[q] = session[q]
    BY <1>1, <1>3 DEF HandlerStep, Api!DeleteGet, Api!Abort, UpdateCommit, Api!UpdateCommit,
                      DeleteCommit, Api!DeleteCommit, Api!End, Api!Idle, sweeps
  <2> QED
    BY <2>1 DEF Storing
<1> QED
  BY <1>2, <1>3

\* The row an update leaves is the one it computed, if only sweeps wrote since.
LEMMA HandlerRows ==
  ASSUME Base, NEW r \in Requests, HandlerStep(r) \/ UpdateCommit(r) \/ DeleteCommit(r),
         NEW m \in DOMAIN monitors'
  PROVE  /\ m \in DOMAIN monitors
         /\ \/ monitors'[m] = monitors[m]
            \/ /\ Storing(r) /\ session[r].id = m /\ ChangesOK(session[r].changes)
               /\ monitors'[m] = Api!Write(monitors[m], session[r].changes)
               /\ monitors[m] \in Monitor
<1>1. CASE HandlerStep(r) \/ DeleteCommit(r)
  BY <1>1 DEF HandlerStep, Api!UpdateGet, Api!DeleteGet, Api!Abort,
              DeleteCommit, Api!DeleteCommit
<1>2. CASE UpdateCommit(r)
  <2>1. TableTypes /\ SessionsOK
    BY TypeParts DEF Base
  <2> QED
    BY <1>2, <2>1 DEF UpdateCommit, Api!UpdateCommit, Storing, TableTypes, SessionsOK
<1> QED
  BY <1>1, <1>2

LEMMA HandlerNoReset ==
  ASSUME Base, NoResetYet,
         NEW r \in Requests, HandlerStep(r) \/ UpdateCommit(r) \/ DeleteCommit(r)
  PROVE  NoResetYet'
<1>1. /\ UNCHANGED <<clock, sweep, faults>>
      /\ \A q \in Requests \ {r} : session'[q] = session[q]
      /\ Storing(r)' =>
           \E m \in DOMAIN monitors, p \in UpdatePayloads :
             /\ session'[r].id = m /\ monitors' = monitors
             /\ session'[r].changes =
                  Api!Changes(monitors[m], Api!Updated(p, monitors[m], clock))
  BY HandlerSessions
<1> SUFFICES ASSUME faults = 0
             PROVE  /\ \A m \in DOMAIN monitors' : Matching(monitors'[m])
                    /\ \A s \in Sweeps : sweep'[s].pc # "recover"
                    /\ \A q \in Requests : Storing(q)' => Balanced(session'[q].changes)
  BY <1>1 DEF NoResetYet
<1>2. ASSUME NEW m \in DOMAIN monitors'
      PROVE  Matching(monitors'[m])
  <2>1. m \in DOMAIN monitors /\ Matching(monitors[m])
    BY HandlerRows DEF NoResetYet
  <2>2. CASE monitors'[m] = monitors[m]
    BY <2>1, <2>2
  <2>3. ASSUME Storing(r), ChangesOK(session[r].changes), monitors[m] \in Monitor,
               monitors'[m] = Api!Write(monitors[m], session[r].changes)
        PROVE  Matching(monitors'[m])
    <3> DEFINE changes == session[r].changes
               on == "keep_alive_enabled"
               at == "next_keep_alive_at"
    <3>1. Balanced(changes) /\ Api!Storable(changes)
      BY <2>3 DEF NoResetYet, Storing
    <3>2. \A c \in {on, at} :
            monitors'[m][c] = IF c \in DOMAIN changes THEN changes[c] ELSE monitors[m][c]
      BY <2>3, WriteFlags
    <3> HIDE DEF changes
    <3> QED
      BY <2>1, <3>1, <3>2 DEF Matching, Balanced
  <2> QED
    BY <2>2, <2>3, HandlerRows
<1>3. ASSUME Storing(r)'
      PROVE  Balanced(session'[r].changes)
  <2>1. PICK m \in DOMAIN monitors, p \in UpdatePayloads :
          session'[r].changes = Api!Changes(monitors[m], Api!Updated(p, monitors[m], clock))
    BY <1>1, <1>3
  <2>2. /\ Api!Storable(session'[r].changes) /\ Matching(monitors[m])
        /\ monitors[m] \in Monitor /\ p \in Api!MonitorUpdate /\ clock \in Nat
    BY <1>3, TypeParts, PingGuardAssumption
       DEF Storing, NoResetYet, Base, TableTypes, SharedTypes
  <2> QED
    BY <2>1, <2>2, UpdatedFlags
<1> QED
  BY <1>1, <1>2, <1>3 DEF NoResetYet, Storing

LEMMA HandlerAlone ==
  ASSUME Base, AloneKeeps,
         NEW r \in Requests, HandlerStep(r) \/ UpdateCommit(r) \/ DeleteCommit(r)
  PROVE  AloneKeeps'
<1> SUFFICES ASSUME OneHandler
             PROVE  /\ \A m \in DOMAIN monitors' : Kept(monitors'[m], clock')
                    /\ \A q \in Requests : Storing(q)' =>
                         /\ Clears(session'[q].changes)
                         /\ session'[q].id \in DOMAIN monitors' =>
                              Kept(Api!Write(monitors'[session'[q].id], session'[q].changes),
                                   clock')
  BY DEF AloneKeeps, OneHandler
<1>1. /\ UNCHANGED <<clock, sweep, faults>>
      /\ Storing(r)' =>
           \E m \in DOMAIN monitors, p \in UpdatePayloads :
             /\ session'[r].id = m /\ monitors' = monitors
             /\ session'[r].changes =
                  Api!Changes(monitors[m], Api!Updated(p, monitors[m], clock))
  BY HandlerSessions
<1>2. ASSUME NEW m \in DOMAIN monitors'
      PROVE  Kept(monitors'[m], clock)
  BY HandlerRows DEF AloneKeeps
<1>3. ASSUME Storing(r)'
      PROVE  /\ Clears(session'[r].changes)
             /\ Kept(Api!Write(monitors'[session'[r].id], session'[r].changes), clock)
  <2>1. PICK m \in DOMAIN monitors, p \in UpdatePayloads :
          /\ session'[r].id = m /\ monitors' = monitors
          /\ session'[r].changes = Api!Changes(monitors[m], Api!Updated(p, monitors[m], clock))
    BY <1>1, <1>3
  <2>2. /\ Api!Storable(session'[r].changes) /\ Kept(monitors[m], clock)
        /\ monitors[m] \in Monitor /\ p \in Api!MonitorUpdate /\ clock \in Nat
    BY <1>3, TypeParts, PingGuardAssumption
       DEF Storing, AloneKeeps, Base, TableTypes, SharedTypes
  <2> QED
    BY <2>1, <2>2, UpdatedFlags
<1> QED
  BY <1>1, <1>2, <1>3 DEF OneHandler

LEMMA FlagsStep ==
  Base /\ LockInv /\ NoResetYet /\ AloneKeeps /\ [Next]_vars => NoResetYet' /\ AloneKeeps'
<1> SUFFICES ASSUME Base, LockInv, NoResetYet, AloneKeeps, [Next]_vars
             PROVE  NoResetYet' /\ AloneKeeps'
  OBVIOUS
<1>1. CASE Tick \/ UNCHANGED vars
  <2>1. /\ UNCHANGED <<monitors, sweep, faults, session>>
        /\ clock' \in {clock, clock + 1}
    BY <1>1 DEF Tick, Sched!Tick, vars, table, sweeps, handlers
  <2>2. NoResetYet'
    BY <2>1 DEF NoResetYet, Storing
  <2>3. ASSUME NEW row, row.next_keep_alive_at \in Nat \cup {NULL}, Kept(row, clock)
        PROVE  Kept(row, clock')
    <3>1. clock \in Nat
      BY TypeParts DEF Base, SharedTypes
    <3> QED
      BY <2>1, <2>3, <3>1, NullAssumption DEF Kept
  <2>4. \A m \in DOMAIN monitors : monitors[m].next_keep_alive_at \in Nat \cup {NULL}
    BY TypeParts, RowFlags DEF Base, TableTypes
  <2>5. ASSUME NEW r \in Requests, Storing(r), session[r].id \in DOMAIN monitors
        PROVE  Api!Write(monitors[session[r].id], session[r].changes).next_keep_alive_at
                 \in Nat \cup {NULL}
    <3>1. monitors[session[r].id] \in Monitor /\ ChangesOK(session[r].changes)
      BY <2>5, TypeParts DEF Base, TableTypes, SessionsOK, Storing
    <3>2. Api!Write(monitors[session[r].id], session[r].changes) \in Monitor
      BY <2>5, <3>1, WriteOK DEF Storing
    <3> QED
      BY <3>2, RowFlags
  <2>6. AloneKeeps'
    BY <2>1, <2>3, <2>4, <2>5 DEF AloneKeeps, Storing, OneHandler
  <2> QED
    BY <2>2, <2>6
<1> QED
  BY <1>1, SweepNoReset, SweepAlone, HandlerNoReset, HandlerAlone DEF Next

LEMMA FlagsInit == Init => NoResetYet /\ AloneKeeps
<1> SUFFICES ASSUME Init
             PROVE  NoResetYet /\ AloneKeeps
  OBVIOUS
<1>1. /\ \A m \in DOMAIN monitors : monitors[m] \in Monitor /\ Matching(monitors[m])
      /\ \A m \in DOMAIN monitors : monitors[m].next_keep_alive_at \in {0, NULL}
  <2>1. InitialRows \subseteq Monitor /\ \A row \in InitialRows : Matching(row)
    BY PingGuardAssumption DEF Matching
  <2>2. \A row \in InitialRows : NextAt(row, "keep_alive") \in {0, NULL}
    BY PingGuardAssumption DEF CheckType
  <2> QED
    BY <2>1, <2>2 DEF Init, NextAt
<1>2. \A r \in Requests : ~Storing(r)
  BY DEF Init, Storing, Api!Idle
<1>3. \A s \in Sweeps : sweep[s].pc # "recover"
  BY DEF Init, Sched!IdleSweep
<1>4. \A m \in DOMAIN monitors : Kept(monitors[m], clock)
  BY <1>1, RowFlags DEF Matching, Kept, Init
<1> QED
  BY <1>1, <1>2, <1>3, <1>4 DEF NoResetYet, AloneKeeps

\* As long as no publish was refused, a keep-alive that is on has its clock and
\* one that is off has none, however many handlers update it while sweeps claim
\* it; after a refusal, and with updates one after another, one that is on still
\* has its clock, and one that is off at most a time that has come.
THEOREM ClockFollowsFlag == Spec => []ClockMatchesFlagUnlessReset
<1>1. NoResetYet /\ AloneKeeps => ClockMatchesFlagUnlessReset
  BY DEF NoResetYet, AloneKeeps, OneHandler, Matching, Kept, ClockMatchesFlagUnlessReset
<1> QED
  BY <1>1, InitOK, BaseStep, PacedInit, LockInvStep, FlagsInit, FlagsStep, PTL DEF Spec
=============================================================================
