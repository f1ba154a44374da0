------------------------------ MODULE PingGuard ------------------------------
(***************************************************************************)
(* The sweeps and the API together, over the one monitors table and the    *)
(* one broker they share: what Scheduler shows of sweeps alone, and        *)
(* MonitorApi of handlers alone, under each other's writes.                *)
(*                                                                         *)
(* They meet in PostgreSQL.  A handler's UPDATE or DELETE waits for a row  *)
(* a sweep has locked, until the sweep commits its claim; from then to the *)
(* last publish or reset nothing keeps the row as the sweep saw it.        *)
(* Creates and on-demand checks write no row that exists: left out here.   *)
(***************************************************************************)
EXTENDS MonitorModel

CONSTANTS
  Sweeps, Requests,
  MaxId, InitialRows,   \* rows 1 to MaxId are there at the start
  UpdatePayloads,
  sweep_batch_size, sweep_max_batches, HardLimit,
  MaxClock, MaxFaults,  \* bounds of the components
  MaxStarts             \* bound: how often updates start each keep-alive

VARIABLES
  clock, monitors, queue, sent,   \* shared
  sweep, faults, lost,            \* the sweeps'
  next_id, session,               \* the API's
  starts     \* history: updates that set the clock of a keep-alive, of each id

Mons == 1 .. MaxId

Sched == INSTANCE Scheduler
Api == INSTANCE MonitorApi WITH max_monitors <- MaxId, CreatePayloads <- {}, MaxTasks <- 0

ASSUME PingGuardAssumption ==
  /\ MaxId \in Nat \ {0} /\ MaxClock \in Nat /\ MaxFaults \in Nat /\ MaxStarts \in Nat
  /\ InitialRows \subseteq Monitor /\ UpdatePayloads \subseteq Api!MonitorUpdate
  /\ \A row \in InitialRows, kind \in CheckType : NextAt(row, kind) \in {0, NULL}
  /\ \A row \in InitialRows : row.keep_alive_enabled <=> row.next_keep_alive_at # NULL
  /\ IsFiniteSet(Sweeps) /\ IsFiniteSet(Requests) /\ Requests # {} /\ Intervals # {}
  /\ sweep_batch_size \in Nat \ {0} /\ sweep_max_batches \in Nat \ {0}
  /\ HardLimit \in Nat \ {0}

table == <<monitors, queue, sent>>
sweeps == <<sweep, faults, lost>>
handlers == <<next_id, session>>
vars == <<clock, table, sweeps, handlers, starts>>

Init ==
  /\ clock = 0 /\ queue = {} /\ sent = 0
  /\ monitors \in [Mons -> InitialRows]
  /\ sweep = [s \in Sweeps |-> Sched!IdleSweep] /\ faults = 0 /\ lost = {}
  /\ next_id = MaxId + 1
  /\ session = [r \in Requests |-> Api!Idle]
  /\ starts = [id \in Mons |-> 0]

SweepStep(s) ==
  /\ \/ Sched!Begin(s) \/ Sched!Step(s)
     \/ Sched!EnqueueFails(s) \/ Sched!RecoverFails(s) \/ Sched!Crash(s)
  /\ UNCHANGED <<handlers, starts>>

\* The steps of a handler that write no row a sweep may hold.
HandlerStep(r) ==
  /\ Api!UpdateGet(r) \/ Api!DeleteGet(r) \/ Api!Abort(r)
  /\ UNCHANGED <<sweeps, starts>>

Unlocked(r) == session[r].id \notin Sched!Locked

StartsClock(changes) ==
  "next_keep_alive_at" \in DOMAIN changes /\ changes["next_keep_alive_at"] # NULL

UpdateCommit(r) ==
  /\ Api!UpdateCommit(r) /\ Unlocked(r)
  /\ starts' = [starts EXCEPT ![session[r].id] =
                  IF StartsClock(session[r].changes) THEN @ + 1 ELSE @]
  /\ starts'[session[r].id] <= MaxStarts
  /\ UNCHANGED sweeps

DeleteCommit(r) ==
  /\ Api!DeleteCommit(r) /\ Unlocked(r)
  /\ UNCHANGED <<sweeps, starts>>

Tick ==
  /\ Sched!Tick
  /\ UNCHANGED <<handlers, starts>>

Next ==
  \/ Tick
  \/ \E s \in Sweeps : SweepStep(s)
  \/ \E r \in Requests : HandlerStep(r) \/ UpdateCommit(r) \/ DeleteCommit(r)

Spec == Init /\ [][Next]_vars

-----------------------------------------------------------------------------
(* Properties *)

TypeOK ==
  /\ Api!TypeOK
  /\ sweep \in [Sweeps -> Sched!SweepState]
  /\ faults \in 0 .. MaxFaults /\ lost \subseteq CheckType \X Mons
  /\ starts \in [Mons -> 0 .. MaxStarts]

\* Whatever is edited or deleted meanwhile, no two sweeps hold a health check
\* of the same row, and the reset of one undoes its own claim: no handler
\* writes the clock of the health checks.
HealthClaimsAreExclusive ==
  \A s \in Sweeps : sweep[s].kind = "monitor" =>
    /\ \A t \in Sweeps \ {s} :
         sweep[t].kind = "monitor" => Sched!Holding(s) \cap Sched!Holding(t) = {}
    /\ \A item \in sweep[s].items :
         item[1] \in DOMAIN monitors =>
           monitors[item[1]].next_check_at = sweep[s].now + item[2]

\* No edit makes a run disappear: a row that waits for a future time has a
\* message of a sweep for it, or a sweep or a fault that still has the claim.
NoSilentLoss ==
  \A m \in DOMAIN monitors, kind \in CheckType :
    LET next == NextAt(monitors[m], kind) IN
    \/ next = NULL \/ next <= clock
    \/ <<kind, m>> \in lost
    \/ \E s \in Sweeps : sweep[s].kind = kind /\ m \in Sched!ItemMons(s)
    \/ \E msg \in queue :
         msg.kind = kind /\ msg.mon = m /\ msg.expires # NULL /\ msg.expires >= next

\* Edits of the intervals and of the mode never make a monitor run more often
\* than the shortest interval it may have, and a message more for each fault.  A
\* reset or an update that sets the clock of a keep-alive back may give it to a
\* sweep that began earlier, and is worth two.
Shortest == CHOOSE i \in Intervals : \A j \in Intervals : i <= j
Sent(m, kind) ==
  {msg \in queue : msg.mon = m /\ msg.kind = kind /\ msg.expires # NULL}
RateBounded ==
  \A m \in Mons, kind \in CheckType :
    Cardinality(Sent(m, kind)) <=
      1 + (clock \div Shortest)
        + (IF kind = "monitor" THEN faults ELSE 2 * (faults + starts[m]))

\* A keep-alive that is on has its clock, and one that is off has none.  After a
\* refused publish the reset, which knows the row by its id alone, may set the
\* clock again behind the update that cleared it, to a time that has come; and
\* two updates that both read such a row may leave it on without.
ClockMatchesFlagUnlessReset ==
  \A m \in DOMAIN monitors :
    LET row == monitors[m] IN
    /\ faults = 0 => (row.keep_alive_enabled <=> row.next_keep_alive_at # NULL)
    /\ (\A r, q \in Requests : r = q) =>
         /\ row.keep_alive_enabled => row.next_keep_alive_at # NULL
         /\ ~row.keep_alive_enabled /\ row.next_keep_alive_at # NULL =>
              row.next_keep_alive_at <= clock
=============================================================================
