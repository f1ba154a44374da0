------------------------------ MODULE ProbeTask ------------------------------
(***************************************************************************)
(* execute_ping and execute_keep_alive (app/tasks.py) on a pool of Celery  *)
(* workers, with what app/worker.py asks of Celery: late acknowledgement,  *)
(* soft and hard time limits, expiring messages, retries that are new      *)
(* deliveries of the same task.                                            *)
(*                                                                         *)
(* A task reads the monitor, probes for as long as the target takes, then  *)
(* commits a result and, for a health check, status and last_checked_at in *)
(* one transaction.  The row may change under it all that time.            *)
(***************************************************************************)
EXTENDS MonitorModel, Bags

CONSTANTS
  Workers,
  InitialMonitors,  \* the monitors table when the run starts: id -> row
  Answers,          \* what perform_http_probe may return
  max_retries,
  SoftLimit, HardLimit,
  MaxTasks, MaxClock, MaxFaults  \* bounds

VARIABLES
  clock,
  monitors,   \* the monitors table: id -> row
  results,    \* the ping_results table
  saved,      \* results inserted so far: the next result id
  queue,      \* messages in the broker, not held by a worker: a bag
  worker,     \* the task each worker process runs
  published,  \* history: every message as it was first published
  probed,     \* history: tasks that got as far as probing
  dropped,    \* history: tasks a failure ended before they acted
  faults      \* crashes, failed commits and publishes, exceeded limits so far

vars == <<clock, monitors, results, saved, queue, worker, published, probed, dropped, faults>>

Answer == [outcome : PingOutcome, transient : BOOLEAN]

ASSUME ProbeAssumption ==
  /\ IsFiniteSet(Workers)
  /\ DOMAIN InitialMonitors \subseteq Nat
  /\ \A m \in DOMAIN InitialMonitors :   \* as create_monitor leaves a row
       /\ InitialMonitors[m] \in Monitor
       /\ InitialMonitors[m].status = "pending" /\ InitialMonitors[m].last_checked_at = NULL
  /\ \A a \in Answers : a \in Answer /\ (a.transient => a.outcome = "unreachable")
  /\ max_retries \in Nat /\ SoftLimit \in Nat \ {0}
  /\ HardLimit \in Nat /\ HardLimit > SoftLimit   \* validate_timeout_budget
  /\ MaxTasks \in Nat /\ MaxClock \in Nat /\ MaxFaults \in Nat

\* The countdown before retry n + 1 is a whole number of seconds.
ASSUME BackoffAssumption == \A n \in 0 .. max_retries : 2 ^ n \in Nat

-----------------------------------------------------------------------------
Idle == [pc |-> "idle"]

\* probing: between the read and the commit; recovering: the same in the soft
\* limit's handler; closing: has committed, or published its retry, and may
\* still be interrupted; done: has recorded the interruption.
Busy == [pc : {"probing", "recovering", "closing", "done"}, msg : Message,
         read : MonitorStatus,   \* the row's status when the session read it
         now : Nat, since : Nat]

PingResult == [id : Nat, monitor_id : Nat, check_type : CheckType, task : Nat,
               status : MonitorStatus, checked_at : Nat, soft_limit : BOOLEAN]

At(w, pc) == worker[w].pc \in pc
Msg(w) == worker[w].msg
Age(w) == clock - worker[w].since
Go(w, pc) == worker' = [worker EXCEPT ![w].pc = pc]
Leave(w) == worker' = [worker EXCEPT ![w] = Idle]
Enqueue(msg) == queue' = queue (+) SetToBag({msg})
Fault == faults < MaxFaults /\ faults' = faults + 1

\* The message worker w takes next: any whose countdown is over.
Take(w, msg) ==
  /\ At(w, {"idle"})
  /\ msg.eta <= clock
  /\ queue' = queue (-) SetToBag({msg})

\* The monitor is there and, for a keep-alive, has not been switched off since
\* the message was published.
Runnable(msg) ==
  /\ msg.mon \in DOMAIN monitors
  /\ msg.kind = "keep_alive" => monitors[msg.mon].keep_alive_enabled

-----------------------------------------------------------------------------
Init ==
  /\ clock = 0
  /\ monitors = InitialMonitors
  /\ results = {} /\ saved = 0 /\ queue = EmptyBag
  /\ published = {} /\ probed = {} /\ dropped = {}
  /\ worker = [w \in Workers |-> Idle]
  /\ faults = 0

\* The other processes send tasks: a sweep with the row's interval as lifetime,
\* POST .../check a health check that never expires.
Send(kind, m, expires) ==
  LET msg == NewMessage(Cardinality(published), kind, m, clock, expires) IN
  /\ Cardinality(published) < MaxTasks
  /\ Enqueue(msg) /\ published' = published \cup {msg}
  /\ UNCHANGED <<clock, monitors, results, saved, worker, probed, dropped, faults>>

SweepSends(m) ==
  \E kind \in CheckType :
    /\ Due(monitors[m], kind, clock)
    /\ IntervalOf(monitors[m], kind) # NULL
    /\ Send(kind, m, clock + IntervalOf(monitors[m], kind))

CheckSends(m) == Send("monitor", m, NULL)

\* DELETE removes the row and, by ON DELETE CASCADE, its results.
Delete(m) ==
  /\ monitors' = [n \in DOMAIN monitors \ {m} |-> monitors[n]]
  /\ results' = {r \in results : r.monitor_id # m}
  /\ UNCHANGED <<clock, saved, queue, worker, published, probed, dropped, faults>>

\* A PATCH switches keep-alive off; no other edit matters to a task.
Disable(m) ==
  /\ monitors[m].keep_alive_enabled
  /\ monitors' = [monitors EXCEPT ![m].keep_alive_enabled = FALSE]
  /\ UNCHANGED <<clock, results, saved, queue, worker, published, probed, dropped, faults>>

\* Celery revokes an expired message instead of running it.
Expire(w) ==
  /\ \E msg \in BagToSet(queue) : Take(w, msg) /\ Expired(msg, clock)
  /\ UNCHANGED <<clock, monitors, results, saved, worker, published, probed, dropped, faults>>

\* not_found or skipped: the task returns without a result.
Ignore(w) ==
  /\ \E msg \in BagToSet(queue) : Take(w, msg) /\ ~Expired(msg, clock) /\ ~Runnable(msg)
  /\ UNCHANGED <<clock, monitors, results, saved, worker, published, probed, dropped, faults>>

Start(w) ==
  /\ \E msg \in BagToSet(queue) :
       /\ Take(w, msg) /\ ~Expired(msg, clock) /\ Runnable(msg)
       /\ worker' = [worker EXCEPT ![w] =
            [pc |-> "probing", msg |-> msg, read |-> monitors[msg.mon].status,
             now |-> clock, since |-> clock]]
       /\ probed' = probed \cup {msg.task}
  /\ UNCHANGED <<clock, monitors, results, saved, published, dropped, faults>>

\* Mutant: the commit writes status and forgets last_checked_at.
WriteBackStatus(row, read, status, now) ==
  [row EXCEPT !.status = IF status # read THEN status ELSE @]

\* The UPDATE of a commit names the columns that differ from the row as the
\* session read it, whatever they are by now.  The time of a check is later than
\* any the session can have read, so last_checked_at is always among them.
WriteBack(row, read, status, now) ==
  [row EXCEPT !.status = IF status # read THEN status ELSE @,
              !.last_checked_at = now]

\* save_ping_result, and the row when the handler sets it, in one transaction.
Save(w, status, soft_limit, sets_row) ==
  LET m == Msg(w).mon IN
  /\ m \in DOMAIN monitors
  /\ results' = results \cup
       {[id |-> saved, monitor_id |-> m, check_type |-> Msg(w).kind,
         task |-> Msg(w).task, status |-> status, checked_at |-> worker[w].now,
         soft_limit |-> soft_limit]}
  /\ saved' = saved + 1
  /\ monitors' = IF sets_row
                 THEN [monitors EXCEPT ![m] = WriteBack(@, worker[w].read, status, worker[w].now)]
                 ELSE monitors

\* Mutant: the comparison with max_retries is off by one.
RetriesOnceMore(w, answer) == answer.transient /\ Msg(w).retries <= max_retries

Retries(w, answer) == answer.transient /\ Msg(w).retries < max_retries

\* Mutant: a keep-alive writes the row as a health check does.
AlwaysUpdatesStatus(w) == TRUE

update_monitor_status(w) == Msg(w).kind = "monitor"

\* The probe has answered and there is no retry: commit.
Commit(w) ==
  /\ At(w, {"probing"})
  /\ \E answer \in Answers :
       /\ ~Retries(w, answer)
       /\ Save(w, outcome_to_status(answer.outcome), FALSE, update_monitor_status(w))
  /\ Go(w, "closing")
  /\ UNCHANGED <<clock, queue, published, probed, dropped, faults>>

\* Mutant: the same message goes back, neither counted nor delayed.
AgainUnchanged(msg) == msg

\* The message of the retry: the same task and expiry, after the countdown.
Again(msg) == [msg EXCEPT !.retries = @ + 1, !.eta = clock + 2 ^ msg.retries]

\* Mutant: the attempt's result is committed before the retry is published.
RetryRecords(w) ==
  /\ At(w, {"probing"})
  /\ \E answer \in Answers :
       /\ Retries(w, answer)
       /\ Save(w, outcome_to_status(answer.outcome), FALSE, FALSE)
  /\ Enqueue(Again(Msg(w))) /\ Go(w, "closing")
  /\ UNCHANGED <<clock, published, probed, dropped, faults>>

\* task.retry publishes the same task again and its exception rolls back what
\* the session holds, the result included.
Retry(w) ==
  /\ At(w, {"probing"})
  /\ \E answer \in Answers : Retries(w, answer)
  /\ Enqueue(Again(Msg(w)))
  /\ Go(w, "closing")
  /\ UNCHANGED <<clock, monitors, results, saved, published, probed, dropped, faults>>

\* The row is gone when the commit reaches it: the UPDATE finds nothing, the
\* INSERT violates the foreign key, the exception ends the task and Celery
\* acknowledges its message.
Gone(w) ==
  /\ At(w, {"probing", "recovering"})
  /\ Msg(w).mon \notin DOMAIN monitors
  /\ Leave(w)
  /\ UNCHANGED <<clock, monitors, results, saved, queue, published, probed, dropped, faults>>

\* Likewise when the database refuses, or the broker refuses the retry.
Fail(w) ==
  /\ At(w, {"probing", "recovering"})
  /\ Fault
  /\ Leave(w)
  /\ dropped' = dropped \cup {Msg(w).task}
  /\ UNCHANGED <<clock, monitors, results, saved, queue, published, probed>>

\* SoftTimeLimitExceeded while probing, or in the instant between the commit
\* or the retry's publish and the end of the task; a new session reads again.
Interrupt(w) ==
  /\ Age(w) >= SoftLimit
  /\ Fault
  /\ worker' = [worker EXCEPT
       ![w].pc = "recovering", ![w].now = clock,
       ![w].read = IF Msg(w).mon \in DOMAIN monitors THEN monitors[Msg(w).mon].status ELSE @]
  /\ UNCHANGED <<clock, monitors, results, saved, queue, published, probed, dropped>>

SoftTimeLimit(w) == At(w, {"probing"}) /\ Interrupt(w)
LateSoftTimeLimit(w) == At(w, {"closing"}) /\ Interrupt(w)

\* The handler records DOWN, on the row too, whichever the check type.
Recover(w) ==
  /\ At(w, {"recovering"})
  /\ Save(w, "down", TRUE, TRUE)
  /\ Go(w, "done")
  /\ UNCHANGED <<clock, queue, published, probed, dropped, faults>>

\* The hard limit, or anything else that kills the pool process alone: the
\* transaction rolls back and the parent acknowledges the message.
Kill(w) ==
  /\ At(w, {"probing", "recovering", "closing", "done"})
  /\ Fault
  /\ Leave(w)
  /\ dropped' = dropped \cup (IF At(w, {"probing", "recovering"}) THEN {Msg(w).task} ELSE {})
  /\ UNCHANGED <<clock, monitors, results, saved, queue, published, probed>>

\* Mutant: early acknowledgement, nothing comes back.
RedeliverNothing(msg) == UNCHANGED queue

\* Late acknowledgement: the broker still has what the worker was running.
Redeliver(msg) == Enqueue(msg)

\* The whole worker dies: the message was never acknowledged and returns.
Crash(w) ==
  /\ At(w, {"probing", "recovering", "closing", "done"})
  /\ Fault
  /\ Redeliver(Msg(w))
  /\ Leave(w)
  /\ UNCHANGED <<clock, monitors, results, saved, published, probed, dropped>>

Ack(w) ==
  /\ At(w, {"closing", "done"})
  /\ Leave(w)
  /\ UNCHANGED <<clock, monitors, results, saved, queue, published, probed, dropped, faults>>

\* Mutant: nothing limits the age of a task.
WithinLimitAlways(w) == TRUE

WithinLimit(w) == ~At(w, {"idle"}) => Age(w) < HardLimit

\* No task outlives its hard limit; the clock runs on while a retry waits.
Tick ==
  /\ clock < MaxClock \/ \E msg \in BagToSet(queue) : msg.eta > clock
  /\ \A w \in Workers : WithinLimit(w)
  /\ clock' = clock + 1
  /\ UNCHANGED <<monitors, results, saved, queue, worker, published, probed, dropped, faults>>

\* What a worker does by itself.
Step(w) == \/ Expire(w) \/ Ignore(w) \/ Start(w) \/ Commit(w) \/ Retry(w)
           \/ Recover(w) \/ Gone(w) \/ Ack(w)

Next == \/ Tick
        \/ \E m \in DOMAIN monitors :
             SweepSends(m) \/ CheckSends(m) \/ Delete(m) \/ Disable(m)
        \/ \E w \in Workers : \/ Step(w) \/ Fail(w) \/ SoftTimeLimit(w)
                              \/ LateSoftTimeLimit(w) \/ Kill(w) \/ Crash(w)

Spec == Init /\ [][Next]_vars

\* Time passes and workers work; a probe ends by its own deadline.
FairSpec == Spec /\ WF_vars(Tick) /\ \A w \in Workers : WF_vars(Step(w))

-----------------------------------------------------------------------------
(* Properties *)

TypeOK ==
  /\ clock \in Nat /\ saved \in Nat /\ faults \in Nat
  /\ DOMAIN monitors \subseteq DOMAIN InitialMonitors
  /\ \A m \in DOMAIN monitors : monitors[m] \in Monitor
  /\ results \subseteq PingResult
  /\ IsABag(queue) /\ BagToSet(queue) \subseteq Message
  /\ published \subseteq Message /\ probed \subseteq Nat /\ dropped \subseteq Nat
  /\ worker \in [Workers -> Busy \cup {Idle}]
  /\ \A msg \in BagToSet(queue) : msg.retries <= max_retries

\* Deliveries of task t that have yet to act, to commit or to publish a retry:
\* those a worker runs and those in the broker, where a message may be more
\* than once: its copies are numbered.
Running(t) == {w \in Workers : At(w, {"probing", "recovering"}) /\ Msg(w).task = t}
Waiting(t) == {msg \in BagToSet(queue) : msg.task = t}
Pending(t) == Running(t) \cup Waiting(t)
Copies(t) == UNION {{msg} \X (1 .. queue[msg]) : msg \in Waiting(t)}
Recorded(t) == {r \in results : r.task = t}

\* Without a fault a task, through all its retries and redeliveries, records
\* at most one result; each fault adds at most one.
AtMostOncePerFault ==
  \A msg \in published :
    Cardinality(Running(msg.task)) + Cardinality(Copies(msg.task))
      + Cardinality(Recorded(msg.task)) <= 1 + faults

\* A health check that started probing and cannot expire is recorded or still
\* on its way, whatever workers crash or soft limits strike, unless its monitor
\* was deleted or a failed commit, failed retry or kill acknowledged it.
ProbedIsRecorded ==
  \A msg \in published :
    /\ msg.task \in probed \ dropped /\ msg.kind = "monitor"
    /\ msg.mon \in DOMAIN monitors /\ msg.expires = NULL
    => Pending(msg.task) # {} \/ Recorded(msg.task) # {}

\* What a row shows was recorded: its status and its last_checked_at each stand
\* in the history of that monitor, and a row is pending only while unchecked.
RowIsBacked ==
  \A m \in DOMAIN monitors :
    LET own == {r \in results : r.monitor_id = m} IN
    /\ monitors[m].status # "pending" =>
         \E r \in own : r.status = monitors[m].status
    /\ monitors[m].last_checked_at # NULL =>
         \E r \in own : r.checked_at = monitors[m].last_checked_at
    /\ monitors[m].status = "pending" <=> monitors[m].last_checked_at = NULL

\* Overlapping checks may commit out of order, but the hard limit bounds how
\* far last_checked_at falls behind the latest check recorded.
LagBounded ==
  \A r \in results :
    r.check_type = "monitor" =>
      /\ monitors[r.monitor_id].last_checked_at # NULL
      /\ r.checked_at <= monitors[r.monitor_id].last_checked_at + HardLimit

\* A keep-alive alone never moves a health check's status: only one that was
\* interrupted by its soft limit writes the row, and only "down".
KeepAliveOnlyDowns ==
  [][\A m \in DOMAIN monitors \cap DOMAIN monitors' :
       monitors'[m].status # monitors[m].status =>
         \E r \in results' \ results :
           /\ r.monitor_id = m
           /\ r.check_type = "monitor" \/ (r.soft_limit /\ r.status = "down")]_vars

\* Tasks leave the system: once nothing more is published, retries come to an
\* end, every message is consumed and every worker is free again.
TasksSettle ==
  <>[](BagToSet(queue) = {} /\ \A w \in Workers : At(w, {"idle"}))

\* The documented mapping of timeouts to DOWN and the documented promise that
\* a task is acknowledged only after its commit: the same of every health
\* check, with those that may expire.
TimeoutIsRecorded ==
  \A msg \in published :
    /\ msg.task \in probed \ dropped /\ msg.kind = "monitor"
    /\ msg.mon \in DOMAIN monitors
    => Pending(msg.task) # {} \/ Recorded(msg.task) # {}

\* The documented effect of a health check: the row shows the status of the
\* check its last_checked_at dates.
StatusMatchesLastCheck ==
  \A m \in DOMAIN monitors :
    monitors[m].last_checked_at # NULL =>
      \E r \in results :
        /\ r.monitor_id = m
        /\ r.checked_at = monitors[m].last_checked_at
        /\ r.status = monitors[m].status
=============================================================================
