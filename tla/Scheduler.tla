----------------------------- MODULE Scheduler -----------------------------
(***************************************************************************)
(* sweep_due_monitors (app/tasks.py): the Celery task that finds the rows  *)
(* whose health check or keep-alive is due, claims them by moving their    *)
(* next-run column forward in a committed transaction, and only then       *)
(* publishes one message per row.  Several sweeps may be running: beat     *)
(* sends one every sweep_interval_seconds to a pool of workers and nothing *)
(* keeps a slow one from overlapping the next.                             *)
(*                                                                         *)
(* A sweep runs two loops, first for kind "monitor" then for "keep_alive". *)
(* Each turn is: select and lock a batch, claim and commit, publish, and   *)
(* if the broker refuses, reset what was not published and leave the loop. *)
(***************************************************************************)
EXTENDS MonitorModel

CONSTANTS
  Sweeps,            \* worker processes able to run a sweep at the same time
  Mons,              \* monitor ids
  InitialRows,       \* rows a monitor may have when the run starts
  sweep_batch_size,
  sweep_max_batches,
  HardLimit,         \* task_time_limit, in ticks: no sweep lives longer
  MaxClock,          \* bound: the clock stops here
  MaxFaults          \* bound: refused publishes, failed resets and crashes

ASSUME SchedulerAssumption ==
  /\ Mons \subseteq Nat /\ IsFiniteSet(Mons)
  /\ InitialRows \subseteq Monitor
  /\ sweep_batch_size \in Nat \ {0} /\ sweep_max_batches \in Nat \ {0}
  /\ HardLimit \in Nat \ {0} /\ MaxClock \in Nat /\ MaxFaults \in Nat

\* create_monitor marks both schedules of a new row due at once.
ASSUME DueAtStart ==
  \A row \in InitialRows, kind \in CheckType : NextAt(row, kind) \in {0, NULL}

VARIABLES
  clock,     \* the time datetime.now(UTC) returns
  monitors,  \* the monitors table: id -> row
  queue,     \* every message published so far (this module consumes none)
  sent,      \* how many messages were published: the next task id
  sweep,     \* the state of each sweep process
  faults,    \* faults injected so far
  lost       \* history: claims a crash or a failed reset left unpublished

vars == <<clock, monitors, queue, sent, sweep, faults, lost>>

-----------------------------------------------------------------------------
(* A sweep's local state. *)

SweepState ==
  [pc      : {"idle", "select", "claim", "dispatch", "recover"},
   kind    : CheckType,
   now     : Nat,                          \* read once, when the task starts
   batches : 0..sweep_max_batches,         \* turns left in the current loop
   rows    : SUBSET Mons,                  \* rows locked by the open transaction
   items   : SUBSET (Mons \X Intervals)]   \* batch_items, then the failed ids

IdleSweep == [pc |-> "idle", kind |-> "monitor", now |-> 0, batches |-> 0,
              rows |-> {}, items |-> {}]

\* Mutant: the second loop starts with a turn too many.
AfterLoopExtraTurn(st) ==
  IF st.kind = "monitor"
  THEN [st EXCEPT !.pc = "select", !.kind = "keep_alive",
                  !.batches = sweep_max_batches + 1, !.rows = {}, !.items = {}]
  ELSE IdleSweep

\* Mutant: the end of the first loop returns instead of breaking out of it.
AfterLoopReturns(st) == IdleSweep

\* What follows the end of a loop: the keep-alive loop, or the return.
AfterLoop(st) ==
  IF st.kind = "monitor"
  THEN [st EXCEPT !.pc = "select", !.kind = "keep_alive",
                  !.batches = sweep_max_batches, !.rows = {}, !.items = {}]
  ELSE IdleSweep

\* What follows a completely published batch.
AfterBatch(st) ==
  IF st.batches > 1 THEN [st EXCEPT !.pc = "select", !.batches = @ - 1]
                    ELSE AfterLoop(st)

\* Mutant: the SELECT takes no row locks.
NoLocks == {}

Locked == UNION {sweep[s].rows : s \in Sweeps}

Mon(item) == item[1]
ItemMons(s) == {Mon(item) : item \in sweep[s].items}

\* The rows a SELECT ... FOR UPDATE SKIP LOCKED may return to sweep s.
DueRows(s) ==
  {m \in DOMAIN monitors \ Locked : Due(monitors[m], sweep[s].kind, sweep[s].now)}

\* Mutant: LIMIT is one less than the size of a batch.
IsBatchShort(B, D, kind) ==
  /\ B # {}
  /\ Cardinality(B) <= sweep_batch_size - 1
  /\ Cardinality(B) = sweep_batch_size - 1 \/ B = D
  /\ \A m \in B, n \in D \ B :
       NextAt(monitors[m], kind) <= NextAt(monitors[n], kind)

\* B is a result of ORDER BY next ASC LIMIT sweep_batch_size over D.
IsBatch(B, D, kind) ==
  /\ B # {}
  /\ Cardinality(B) <= sweep_batch_size
  /\ Cardinality(B) = sweep_batch_size \/ B = D
  /\ \A m \in B, n \in D \ B :
       NextAt(monitors[m], kind) <= NextAt(monitors[n], kind)

-----------------------------------------------------------------------------
Init ==
  /\ clock = 0
  /\ monitors \in [Mons -> InitialRows]
  /\ queue = {} /\ sent = 0
  /\ sweep = [s \in Sweeps |-> IdleSweep]
  /\ faults = 0 /\ lost = {}

Begin(s) ==
  /\ sweep[s].pc = "idle"
  /\ sweep' = [sweep EXCEPT ![s] = [IdleSweep EXCEPT !.pc = "select", !.now = clock,
                                                     !.batches = sweep_max_batches]]
  /\ UNCHANGED <<clock, monitors, queue, sent, faults, lost>>

\* Nothing due that another sweep has not locked: leave the loop.
SelectNone(s) ==
  /\ sweep[s].pc = "select"
  /\ DueRows(s) = {}
  /\ sweep' = [sweep EXCEPT ![s] = AfterLoop(sweep[s])]
  /\ UNCHANGED <<clock, monitors, queue, sent, faults, lost>>

SelectBatch(s) ==
  /\ sweep[s].pc = "select"
  /\ \E B \in SUBSET DueRows(s) :
       /\ IsBatch(B, DueRows(s), sweep[s].kind)
       /\ sweep' = [sweep EXCEPT ![s].pc = "claim", ![s].rows = B]
  /\ UNCHANGED <<clock, monitors, queue, sent, faults, lost>>

\* Rows of the batch the loop does not skip: a keep-alive row whose interval
\* is NULL is logged and passed over, its next-run column left as it is.
Claimable(s) ==
  {m \in sweep[s].rows : IntervalOf(monitors[m], sweep[s].kind) # NULL}

\* Mutant: the claim counts from the time of the commit, not of the sweep.
NextRunFromClock(s, m) == clock + IntervalOf(monitors[m], sweep[s].kind)

NextRun(s, m) == sweep[s].now + IntervalOf(monitors[m], sweep[s].kind)

\* Move the claimed rows one interval past the start of the sweep and commit.
Claim(s) ==
  LET kind == sweep[s].kind IN
  /\ sweep[s].pc = "claim"
  /\ monitors' = [m \in DOMAIN monitors |->
                    IF m \in Claimable(s) THEN WithNextAt(monitors[m], kind, NextRun(s, m))
                                          ELSE monitors[m]]
  /\ sweep' = [sweep EXCEPT
       ![s].pc = "dispatch", ![s].rows = {},
       ![s].items = {<<m, IntervalOf(monitors[m], kind)>> : m \in Claimable(s)}]
  /\ lost' = lost \ ({kind} \X Claimable(s))
  /\ UNCHANGED <<clock, queue, sent, faults>>

\* Mutant: messages live two intervals.
PublishLongLived(s, item) ==
  /\ queue' = queue \cup {NewMessage(sent, sweep[s].kind, Mon(item), clock, clock + 2 * item[2])}
  /\ sent' = sent + 1

\* apply_async(args=[m_id], expires=interval): expiry counts from the publish.
Publish(s, item) ==
  /\ queue' = queue \cup {NewMessage(sent, sweep[s].kind, Mon(item), clock, clock + item[2])}
  /\ sent' = sent + 1

Enqueue(s) ==
  /\ sweep[s].pc = "dispatch"
  /\ \E item \in sweep[s].items :
       /\ Publish(s, item)
       /\ sweep' = [sweep EXCEPT ![s].items = @ \ {item}]
  /\ UNCHANGED <<clock, monitors, faults, lost>>

\* Mutant: the item whose publish failed is not among those to recover.
FailedSkipsItem(s, item) == sweep[s].items \ {item}

\* failed_ids: the item whose publish raised and those after it.
Failed(s, item) == sweep[s].items

\* apply_async raises.  The message may have reached the broker all the same.
EnqueueFails(s) ==
  /\ sweep[s].pc = "dispatch"
  /\ faults < MaxFaults
  /\ \E item \in sweep[s].items :
       /\ Publish(s, item) \/ UNCHANGED <<queue, sent>>
       /\ sweep' = [sweep EXCEPT ![s].pc = "recover", ![s].items = Failed(s, item)]
  /\ faults' = faults + 1
  /\ UNCHANGED <<clock, monitors, lost>>

EndBatch(s) ==
  /\ sweep[s].pc = "dispatch"
  /\ sweep[s].items = {}
  /\ sweep' = [sweep EXCEPT ![s] = AfterBatch(sweep[s])]
  /\ UNCHANGED <<clock, monitors, queue, sent, faults, lost>>

\* Mutant: the reset writes the present time.
RecoverToNow(s) ==
  /\ sweep[s].pc = "recover"
  /\ ItemMons(s) \cap Locked = {}
  /\ monitors' = [m \in DOMAIN monitors |->
                    IF m \in ItemMons(s)
                    THEN WithNextAt(monitors[m], sweep[s].kind, clock)
                    ELSE monitors[m]]
  /\ sweep' = [sweep EXCEPT ![s] = AfterLoop(sweep[s])]
  /\ UNCHANGED <<clock, queue, sent, faults, lost>>

\* Reset what was not published to the start of this sweep, by id alone.  The
\* UPDATE waits for rows another transaction has locked.
Recover(s) ==
  /\ sweep[s].pc = "recover"
  /\ ItemMons(s) \cap Locked = {}
  /\ monitors' = [m \in DOMAIN monitors |->
                    IF m \in ItemMons(s)
                    THEN WithNextAt(monitors[m], sweep[s].kind, sweep[s].now)
                    ELSE monitors[m]]
  /\ sweep' = [sweep EXCEPT ![s] = AfterLoop(sweep[s])]
  /\ UNCHANGED <<clock, queue, sent, faults, lost>>

\* The reset fails too: only logged, the claims stay advanced.
RecoverFails(s) ==
  /\ sweep[s].pc = "recover"
  /\ faults < MaxFaults
  /\ lost' = lost \cup ({sweep[s].kind} \X ItemMons(s))
  /\ sweep' = [sweep EXCEPT ![s] = AfterLoop(sweep[s])]
  /\ faults' = faults + 1
  /\ UNCHANGED <<clock, monitors, queue, sent>>

\* The process dies, is killed at the hard limit, or an exception other than
\* a publish's leaves the task: the open transaction rolls back.
Crash(s) ==
  /\ sweep[s].pc # "idle"
  /\ faults < MaxFaults
  /\ lost' = lost \cup ({sweep[s].kind} \X ItemMons(s))
  /\ sweep' = [sweep EXCEPT ![s] = IdleSweep]
  /\ faults' = faults + 1
  /\ UNCHANGED <<clock, monitors, queue, sent>>

\* Time passes; a sweep never reaches the age at which it would be killed.
Tick ==
  /\ clock < MaxClock
  /\ \A s \in Sweeps : sweep[s].pc # "idle" => clock + 1 < sweep[s].now + HardLimit
  /\ clock' = clock + 1
  /\ UNCHANGED <<monitors, queue, sent, sweep, faults, lost>>

\* The steps the code takes by itself once a sweep has started.
Step(s) == \/ SelectNone(s) \/ SelectBatch(s) \/ Claim(s)
           \/ Enqueue(s) \/ EndBatch(s) \/ Recover(s)

Next == \/ Tick
        \/ \E s \in Sweeps : \/ Begin(s) \/ Step(s)
                             \/ EnqueueFails(s) \/ RecoverFails(s) \/ Crash(s)

Spec == Init /\ [][Next]_vars

\* Beat keeps sending sweeps and a running task keeps executing.
Fairness == \A s \in Sweeps : WF_vars(Begin(s)) /\ WF_vars(Step(s))

FairSpec == Spec /\ Fairness

-----------------------------------------------------------------------------
(* Properties *)

TypeOK ==
  /\ clock \in Nat
  /\ monitors \in [Mons -> Monitor]
  /\ queue \subseteq Message
  /\ sent \in Nat
  /\ sweep \in [Sweeps -> SweepState]
  /\ faults \in Nat
  /\ lost \subseteq CheckType \X Mons

\* The setting validate_timeout_budget leaves open: a sweep is killed before
\* the shortest interval has passed.
LimitBelowIntervals == \A i \in Intervals : HardLimit <= i

\* Everything sweep s has locked or claimed and not yet published.
Holding(s) == sweep[s].rows \cup ItemMons(s)

\* No two sweeps hold the same row for the same schedule, from the locking
\* read to the last publish or reset: this is what keeps one due time from
\* becoming two messages.
DisjointHoldings ==
  \A s, t \in Sweeps :
    s # t /\ sweep[s].kind = sweep[t].kind => Holding(s) \cap Holding(t) = {}

\* While a claim is unpublished the row carries exactly the time that claim
\* wrote, so the reset of a refused batch undoes that claim and nothing newer.
HeldIsOwn ==
  \A s \in Sweeps : \A item \in sweep[s].items :
    NextAt(monitors[Mon(item)], sweep[s].kind) = sweep[s].now + item[2]

\* A row waiting for a future run was put there by a claim whose message was
\* published for that run, unless a sweep still has to publish it or a crash
\* or a failed reset took the claim with it.
NoSilentLoss ==
  \A m \in Mons, kind \in CheckType :
    LET next == NextAt(monitors[m], kind) IN
    \/ next = NULL \/ next <= clock
    \/ <<kind, m>> \in lost
    \/ \E s \in Sweeps : sweep[s].kind = kind /\ m \in ItemMons(s)
    \/ \E msg \in queue : msg.kind = kind /\ msg.mon = m /\ msg.expires >= next

\* The expiry on each message bounds what can pile up for one row and one
\* schedule while no worker is consuming: two, and one more per fault.
Unexpired(m, kind) ==
  {msg \in queue : msg.mon = m /\ msg.kind = kind /\ ~Expired(msg, clock)}
BacklogBounded ==
  \A m \in Mons, kind \in CheckType : Cardinality(Unexpired(m, kind)) <= 2 + faults

\* However slow, overlapping or refused the sweeps are, a row gets no more
\* messages than the intervals that have passed since time 0, and one more per
\* fault: no schedule of sweeps makes a monitor run more often than configured.
Published(m, kind) == {msg \in queue : msg.mon = m /\ msg.kind = kind}
RateBounded ==
  \A m \in Mons, kind \in CheckType :
    LET interval == IntervalOf(monitors[m], kind) IN
    interval # NULL =>
      Cardinality(Published(m, kind)) <= 1 + (clock \div interval) + faults

\* A next-run column changes in two ways only.  A claim moves it from a time
\* that has come to one still to come, at most an interval away.  A reset moves
\* it back by exactly one interval, and only while the claim it undoes is still
\* in force: never behind a newer claim, and never for a run that is due again.
NextRunOnlyClaimedOrGivenBack ==
  [][\A m \in Mons, kind \in CheckType :
       LET interval == IntervalOf(monitors[m], kind)
           old == NextAt(monitors[m], kind)
           new == NextAt(monitors'[m], kind)
       IN new # old => \/ old <= clock /\ clock < new /\ new <= clock + interval
                       \/ clock < old /\ new = old - interval]_vars

\* Due rows the keep-alive loop skips: they stay due for ever.
Skipped(kind) ==
  {m \in Mons : Due(monitors[m], kind, clock) /\ IntervalOf(monitors[m], kind) = NULL}

\* Every due row with a usable interval is eventually claimed, though LIMIT
\* leaves rows out of each batch, sweeps overlap and a fault ends a loop, as
\* long as the skipped rows, which come first in every batch, do not fill one.
DueIsServed ==
  \A m \in Mons, kind \in CheckType :
    /\ Due(monitors[m], kind, clock) /\ IntervalOf(monitors[m], kind) # NULL
    /\ Cardinality(Skipped(kind)) < sweep_batch_size
    ~> ~Due(monitors[m], kind, clock)

-----------------------------------------------------------------------------
(* Refinement: an entry is owed while some sweep holds it unpublished. *)

Entry == CheckType \X Mons
entry_period == [e \in Entry |-> IntervalOf(monitors[e[2]], e[1])]
entry_next == [e \in Entry |-> NextAt(monitors[e[2]], e[1])]
entries_owed == {e \in Entry : \E s \in Sweeps : sweep[s].kind = e[1] /\ e[2] \in ItemMons(s)}

D == INSTANCE Dispatch WITH period <- entry_period, next <- entry_next, owed <- entries_owed

\* Sweeps, batches, locks and the reset by id together behave as if each
\* schedule of each monitor were claimed, published or given back by itself,
\* by one owner at a time.
ImplementsDispatch == D!Spec
=============================================================================
