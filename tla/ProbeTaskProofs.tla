--------------------------- MODULE ProbeTaskProofs ---------------------------
(***************************************************************************)
(* Theorems about ProbeTask for every number of workers, monitors, tasks,  *)
(* retries and faults, and every pair of time limits.                      *)
(***************************************************************************)
EXTENDS ProbeTask, FiniteSetTheorems, TLAPS

(* The broker's bag of messages. *)

LEMMA AddToBag ==
  ASSUME NEW B, NEW e, IsABag(B)
  PROVE  LET C == B (+) SetToBag({e}) IN
         IsABag(C) /\ BagToSet(C) = BagToSet(B) \cup {e}
<1> DEFINE C == B (+) SetToBag({e})
<1>1. C = [x \in DOMAIN B \cup {e} |->
             (IF x \in DOMAIN B THEN B[x] ELSE 0) + (IF x = e THEN 1 ELSE 0)]
  BY DEF (+), SetToBag
<1>2. \A x \in DOMAIN B : B[x] \in Nat /\ B[x] > 0
  BY DEF IsABag
<1> HIDE DEF C
<1>3. DOMAIN C = DOMAIN B \cup {e}
  BY <1>1
<1>4. \A x \in DOMAIN C : C[x] \in Nat /\ C[x] > 0
  BY <1>1, <1>2
<1>5. C = [x \in DOMAIN C |-> C[x]]
  BY <1>1
<1>6. IsABag(C)
  BY <1>4, <1>5 DEF IsABag
<1> QED
  BY <1>3, <1>6 DEF BagToSet, C

LEMMA TakeFromBag ==
  ASSUME NEW B, NEW e, IsABag(B)
  PROVE  LET C == B (-) SetToBag({e}) IN
         IsABag(C) /\ BagToSet(C) \subseteq BagToSet(B)
<1> DEFINE left(x) == IF x = e THEN B[x] - 1 ELSE B[x]
           some == {x \in DOMAIN B : left(x) > 0}
           C == B (-) SetToBag({e})
<1>1. C = [x \in some |-> left(x)]
  BY DEF (-), SetToBag
<1>2. \A x \in DOMAIN B : B[x] \in Nat /\ B[x] > 0
  BY DEF IsABag
<1> HIDE DEF C
<1>3. \A x \in some : left(x) \in Nat /\ left(x) > 0
  BY <1>2
<1> HIDE DEF left
<1>4. C \in [some -> {n \in Nat : n > 0}]
  BY <1>1, <1>3
<1>5. DOMAIN C = some /\ some \subseteq DOMAIN B
  BY <1>1
<1> QED
  BY <1>4, <1>5 DEF IsABag, BagToSet, C

-----------------------------------------------------------------------------
(* The inductive invariant. *)

\* The age of a running task, and the times and ids results carry.
TimesOK ==
  /\ \A w \in Workers : worker[w] # Idle =>
       /\ worker[w].since <= worker[w].now /\ worker[w].now <= clock
       /\ clock <= worker[w].since + HardLimit
       /\ worker[w].msg.retries <= max_retries
  /\ \A r \in results :
       r.checked_at <= clock /\ r.id < saved /\ r.monitor_id \in DOMAIN monitors

\* A row that was checked when a task read it has been checked ever since.
ReadsBacked ==
  \A w \in Workers :
    /\ worker[w] # Idle
    /\ worker[w].msg.mon \in DOMAIN monitors
    /\ worker[w].read # "pending"
    => monitors[worker[w].msg.mon].status # "pending"

\* What the broker and the histories hold.
QueueOK ==
  /\ IsABag(queue) /\ BagToSet(queue) \subseteq Message
  /\ \A msg \in BagToSet(queue) : msg.retries <= max_retries
HistoryOK ==
  /\ published \subseteq Message /\ probed \subseteq Nat /\ dropped \subseteq Nat
  /\ IsFiniteSet(published) /\ faults \in Nat

IInv == TypeOK /\ HistoryOK /\ TimesOK /\ LagBounded /\ RowIsBacked /\ ReadsBacked

LEMMA Constants ==
  /\ HardLimit \in Nat /\ SoftLimit \in Nat /\ max_retries \in Nat
  /\ \A a \in Answers : a \in Answer
BY ProbeAssumption

LEMMA InitIInv == Init => IInv
<1> SUFFICES ASSUME Init PROVE IInv
  OBVIOUS
<1>1. IsABag(queue) /\ BagToSet(queue) = {}
  BY DEF Init, EmptyBag, SetToBag, IsABag, BagToSet
<1>2. TypeOK
  BY <1>1, ProbeAssumption DEF Init, TypeOK
<1>5. HistoryOK
  BY FS_EmptySet DEF Init, HistoryOK
<1>3. TimesOK /\ ReadsBacked
  BY DEF Init, TimesOK, ReadsBacked
<1>4. LagBounded /\ RowIsBacked
  BY ProbeAssumption DEF Init, LagBounded, RowIsBacked
<1> QED
  BY <1>2, <1>3, <1>4, <1>5 DEF IInv

\* A worker that goes on from v to v' with the task it has, or gives it up.
Continues(v, next) ==
  \/ next = v \/ next = Idle
  \/ /\ v \in Busy /\ next \in Busy
     /\ next.msg = v.msg /\ next.read = v.read /\ next.now = v.now /\ next.since = v.since

\* Steps that only move messages and end tasks.
LEMMA QuietStep ==
  ASSUME IInv, UNCHANGED <<clock, monitors, results, saved>>,
         DOMAIN worker' = Workers, worker' = [w \in Workers |-> worker'[w]],
         \A w \in Workers : Continues(worker[w], worker'[w]),
         QueueOK', HistoryOK'
  PROVE  IInv'
<1> USE DEF IInv
<1>1. \A w \in Workers : worker[w] \in Busy \cup {Idle}
  BY DEF TypeOK
<1>2. \A w \in Workers :
        /\ worker'[w] \in Busy \cup {Idle}
        /\ worker'[w] # Idle =>
             /\ worker[w] # Idle
             /\ worker'[w].msg = worker[w].msg /\ worker'[w].read = worker[w].read
             /\ worker'[w].now = worker[w].now /\ worker'[w].since = worker[w].since
  <2> SUFFICES ASSUME NEW w \in Workers
               PROVE  /\ worker'[w] \in Busy \cup {Idle}
                      /\ worker'[w] # Idle =>
                           /\ worker[w] # Idle
                           /\ worker'[w].msg = worker[w].msg /\ worker'[w].read = worker[w].read
                           /\ worker'[w].now = worker[w].now /\ worker'[w].since = worker[w].since
    OBVIOUS
  <2>1. Idle \notin Busy
    BY DEF Idle, Busy
  <2> QED
    BY <1>1, <2>1 DEF Continues
<1>3. TypeOK'
  BY <1>2 DEF TypeOK, QueueOK, HistoryOK
<1>4. TimesOK' /\ ReadsBacked'
  BY <1>2 DEF TimesOK, ReadsBacked
<1>5. LagBounded' /\ RowIsBacked'
  BY DEF LagBounded, RowIsBacked
<1> QED
  BY <1>3, <1>4, <1>5

-----------------------------------------------------------------------------
(* Quiet steps: the broker, and tasks that end without a commit. *)

LEMMA WorkerIsFunction ==
  ASSUME IInv
  PROVE  /\ DOMAIN worker = Workers /\ worker = [w \in Workers |-> worker[w]]
         /\ \A w \in Workers : worker[w] \in Busy \cup {Idle}
         /\ QueueOK /\ HistoryOK
BY DEF IInv, TypeOK, QueueOK, HistoryOK

LEMMA BusyNotIdle ==
  /\ Idle \notin Busy
  /\ \A v \in Busy \cup {Idle} : v.pc # "idle" => v \in Busy
BY DEF Idle, Busy

LEMMA EnqueueOK ==
  ASSUME IInv, NEW msg \in Message, msg.retries <= max_retries, Enqueue(msg)
  PROVE  /\ IsABag(queue)' /\ (BagToSet(queue) \subseteq Message)'
         /\ (\A sent \in BagToSet(queue) : sent.retries <= max_retries)'
<1>1. QueueOK
  BY WorkerIsFunction
<1>2. IsABag(queue') /\ BagToSet(queue') = BagToSet(queue) \cup {msg}
  BY <1>1, AddToBag DEF Enqueue, QueueOK
<1> QED
  BY <1>1, <1>2 DEF QueueOK

LEMMA TakeOK ==
  ASSUME IInv, NEW w \in Workers, NEW msg \in BagToSet(queue), Take(w, msg)
  PROVE  /\ IsABag(queue)' /\ (BagToSet(queue) \subseteq Message)'
         /\ (\A sent \in BagToSet(queue) : sent.retries <= max_retries)'
         /\ msg \in Message /\ msg.retries <= max_retries /\ worker[w].pc = "idle"
<1>1. QueueOK
  BY WorkerIsFunction
<1>2. IsABag(queue') /\ BagToSet(queue') \subseteq BagToSet(queue)
  BY <1>1, TakeFromBag DEF Take, QueueOK
<1> QED
  BY <1>1, <1>2 DEF QueueOK, Take, At

LEMMA SendStep ==
  ASSUME IInv, NEW kind \in CheckType, NEW m \in DOMAIN monitors,
         NEW expires \in Nat \cup {NULL}, Send(kind, m, expires)
  PROVE  IInv'
<1> DEFINE id == Cardinality(published)
           msg == NewMessage(id, kind, m, clock, expires)
<1>1. id \in Nat
  BY FS_CardinalityType DEF IInv, HistoryOK
<1>2. msg \in Message /\ msg.retries <= max_retries
  <2>1. m \in Nat /\ clock \in Nat
    BY ProbeAssumption DEF IInv, TypeOK
  <2> QED
    BY <1>1, <2>1, Constants DEF NewMessage, Message
<1> HIDE DEF id
<1>3. Enqueue(msg) /\ published' = published \cup {msg}
  BY DEF Send, id
<1>4. QueueOK'
  BY <1>2, <1>3, EnqueueOK DEF QueueOK
<1>5. HistoryOK'
  BY <1>2, <1>3, WorkerIsFunction, FS_AddElement DEF Send, HistoryOK
<1> QED
  BY <1>4, <1>5, WorkerIsFunction, QuietStep DEF Send, Continues

\* A step of one worker, w, that goes on with its task or gives it up.
LEMMA WorkerStep ==
  ASSUME IInv, NEW w \in Workers,
         Leave(w) \/ (worker[w] \in Busy /\ \E pc \in {"closing", "done"} : Go(w, pc))
  PROVE  /\ DOMAIN worker' = Workers /\ worker' = [v \in Workers |-> worker'[v]]
         /\ \A v \in Workers : Continues(worker[v], worker'[v])
<1>1. DOMAIN worker = Workers
  BY WorkerIsFunction
<1>2. CASE Leave(w)
  BY <1>1, <1>2 DEF Leave, Continues
<1>3. CASE worker[w] \in Busy /\ \E pc \in {"closing", "done"} : Go(w, pc)
  <2>1. PICK pc \in {"closing", "done"} : worker' = [worker EXCEPT ![w].pc = pc]
    BY <1>3 DEF Go
  <2>2. worker'[w] = [worker[w] EXCEPT !.pc = pc]
    BY <1>1, <2>1
  <2>3. Continues(worker[w], worker'[w])
    BY <1>3, <2>2 DEF Continues, Busy
  <2> QED
    BY <1>1, <2>1, <2>3 DEF Continues
<1> QED
  BY <1>2, <1>3

\* A worker that is not idle holds a message whose task the broker may carry.
LEMMA HeldMessage ==
  ASSUME IInv, NEW w \in Workers, worker[w].pc # "idle"
  PROVE  /\ worker[w] \in Busy /\ worker[w] # Idle
         /\ Msg(w) \in Message /\ Msg(w).retries <= max_retries
<1>1. worker[w] \in Busy /\ worker[w] # Idle
  BY WorkerIsFunction, BusyNotIdle
<1>2. worker[w].msg \in Message
  BY <1>1 DEF Busy
<1> QED
  BY <1>1, <1>2 DEF IInv, TimesOK, Msg

LEMMA TakingSteps ==
  ASSUME IInv, NEW w \in Workers, Expire(w) \/ Ignore(w)
  PROVE  IInv'
<1>1. PICK msg \in BagToSet(queue) : Take(w, msg)
  BY DEF Expire, Ignore
<1>2. UNCHANGED <<clock, monitors, results, saved, worker, published, probed, dropped, faults>>
  BY DEF Expire, Ignore
<1>3. QueueOK'
  BY <1>1, TakeOK DEF QueueOK
<1>4. HistoryOK'
  BY <1>2, WorkerIsFunction DEF HistoryOK
<1> QED
  BY <1>2, <1>3, <1>4, WorkerIsFunction, QuietStep DEF Continues

LEMMA EndingSteps ==
  ASSUME IInv, NEW w \in Workers, Gone(w) \/ Fail(w) \/ Kill(w) \/ Ack(w)
  PROVE  IInv'
<1>1. /\ worker[w].pc # "idle" /\ Leave(w)
      /\ UNCHANGED <<clock, monitors, results, saved, queue, published, probed>>
  BY DEF Gone, Fail, Kill, Ack, At
<1>2. Msg(w).task \in Nat
  BY <1>1, HeldMessage DEF Message
<1>3. dropped' \subseteq dropped \cup {Msg(w).task}
  BY DEF Gone, Fail, Kill, Ack
<1>4. faults' \in Nat
  BY WorkerIsFunction DEF Gone, Fail, Kill, Ack, Fault, HistoryOK
<1>5. HistoryOK'
  BY <1>1, <1>2, <1>3, <1>4, WorkerIsFunction DEF HistoryOK
<1>6. QueueOK'
  BY <1>1, WorkerIsFunction DEF QueueOK
<1> QED
  BY <1>1, <1>5, <1>6, WorkerStep, QuietStep

LEMMA CrashStep ==
  ASSUME IInv, NEW w \in Workers, Crash(w)
  PROVE  IInv'
<1>1. /\ worker[w].pc # "idle" /\ Leave(w) /\ Enqueue(Msg(w))
      /\ UNCHANGED <<clock, monitors, results, saved, published, probed, dropped>>
  BY DEF Crash, Redeliver, At
<1>2. QueueOK'
  BY <1>1, HeldMessage, EnqueueOK DEF QueueOK
<1>3. HistoryOK'
  BY <1>1, WorkerIsFunction DEF Crash, Fault, HistoryOK
<1> QED
  BY <1>1, <1>2, <1>3, WorkerStep, QuietStep

LEMMA AgainIsMessage ==
  ASSUME NEW msg \in Message, NEW eta \in Nat, msg.retries < max_retries
  PROVE  LET again == [msg EXCEPT !.retries = @ + 1, !.eta = eta] IN
         again \in Message /\ again.retries <= max_retries
<1> DEFINE again == [msg EXCEPT !.retries = @ + 1, !.eta = eta]
<1>1. msg.retries + 1 \in Nat /\ msg.retries + 1 <= max_retries
  BY Constants DEF Message
<1>2. again \in Message
  BY <1>1 DEF Message
<1>3. again.retries = msg.retries + 1
  BY DEF Message
<1> QED
  BY <1>1, <1>2, <1>3

LEMMA RetryStep ==
  ASSUME IInv, NEW w \in Workers, Retry(w)
  PROVE  IInv'
<1> DEFINE again == Again(Msg(w))
<1>1. /\ worker[w].pc # "idle" /\ Go(w, "closing") /\ Enqueue(again)
      /\ UNCHANGED <<clock, monitors, results, saved, published, probed, dropped, faults>>
  BY DEF Retry, At
<1>2. Msg(w) \in Message /\ worker[w] \in Busy /\ clock \in Nat
  BY <1>1, HeldMessage DEF IInv, TypeOK
<1>3. Msg(w).retries \in Nat /\ Msg(w).retries < max_retries
  BY <1>2 DEF Retry, Retries, Message
<1>4. 2 ^ Msg(w).retries \in Nat
  BY <1>3, Constants, BackoffAssumption
<1>5. again \in Message /\ again.retries <= max_retries
  <2>1. clock + 2 ^ Msg(w).retries \in Nat
    BY <1>2, <1>4
  <2> QED
    BY <1>2, <1>3, <2>1, AgainIsMessage DEF Again
<1> HIDE DEF again
<1>6. QueueOK'
  BY <1>1, <1>5, EnqueueOK DEF QueueOK
<1>7. HistoryOK'
  BY <1>1, WorkerIsFunction DEF HistoryOK
<1> QED
  BY <1>1, <1>2, <1>6, <1>7, WorkerStep, QuietStep

-----------------------------------------------------------------------------
(* Steps that change what a worker has read. *)

LEMMA StartStep ==
  ASSUME IInv, NEW w \in Workers, Start(w)
  PROVE  IInv'
<1>1. PICK msg \in BagToSet(queue) :
        /\ Take(w, msg) /\ Runnable(msg) /\ probed' = probed \cup {msg.task}
        /\ worker' = [worker EXCEPT ![w] =
             [pc |-> "probing", msg |-> msg, read |-> monitors[msg.mon].status,
              now |-> clock, since |-> clock]]
  BY DEF Start
<1>2. UNCHANGED <<clock, monitors, results, saved, published, dropped, faults>>
  BY DEF Start
<1>3. QueueOK' /\ msg \in Message /\ msg.retries <= max_retries
  BY <1>1, TakeOK DEF QueueOK
<1>4. HistoryOK'
  BY <1>1, <1>2, <1>3, WorkerIsFunction DEF HistoryOK, Message
<1>5. msg.mon \in DOMAIN monitors /\ monitors[msg.mon] \in Monitor /\ clock \in Nat
  BY <1>1 DEF Runnable, IInv, TypeOK
<1>6. worker'[w] \in Busy
  BY <1>1, <1>3, <1>5, WorkerIsFunction DEF Busy, Monitor
<1>7. \A v \in Workers \ {w} : worker'[v] = worker[v]
  BY <1>1, WorkerIsFunction
<1>8. TypeOK'
  <2>1. worker' \in [Workers -> Busy \cup {Idle}]
    BY <1>1, <1>6, <1>7, WorkerIsFunction
  <2> QED
    BY <1>2, <1>3, <1>4, <2>1 DEF IInv, TypeOK, QueueOK, HistoryOK
<1>9. TimesOK'
  BY <1>1, <1>2, <1>3, <1>5, <1>7, Constants, WorkerIsFunction DEF IInv, TimesOK
<1>10. ReadsBacked'
  BY <1>1, <1>2, <1>7, WorkerIsFunction DEF IInv, ReadsBacked
<1>11. LagBounded' /\ RowIsBacked'
  BY <1>2 DEF IInv, LagBounded, RowIsBacked
<1> QED
  BY <1>4, <1>8, <1>9, <1>10, <1>11 DEF IInv

LEMMA InterruptStep ==
  ASSUME IInv, NEW w \in Workers, SoftTimeLimit(w) \/ LateSoftTimeLimit(w)
  PROVE  IInv'
<1> DEFINE m == Msg(w).mon
           read == IF m \in DOMAIN monitors THEN monitors[m].status ELSE worker[w].read
<1>1. worker[w].pc # "idle" /\ Interrupt(w)
  BY DEF SoftTimeLimit, LateSoftTimeLimit, At
<1>2. /\ UNCHANGED <<clock, monitors, results, saved, queue, published, probed, dropped>>
      /\ worker[w] \in Busy /\ worker[w] # Idle /\ clock \in Nat
  BY <1>1, HeldMessage DEF Interrupt, IInv, TypeOK
<1>3. worker'[w] = [worker[w] EXCEPT !.pc = "recovering", !.now = clock, !.read = read]
  BY <1>1, WorkerIsFunction DEF Interrupt
<1>4. \A v \in Workers \ {w} : worker'[v] = worker[v]
  BY <1>1, WorkerIsFunction DEF Interrupt
<1>5. read \in MonitorStatus
  BY <1>2 DEF IInv, TypeOK, Monitor, Busy
<1>6. QueueOK' /\ HistoryOK'
  BY <1>1, <1>2, WorkerIsFunction DEF Interrupt, Fault, QueueOK, HistoryOK
<1> HIDE DEF read
<1>7. /\ worker'[w] \in Busy /\ worker'[w].msg = worker[w].msg
      /\ worker'[w].since = worker[w].since /\ worker'[w].now = clock
      /\ worker'[w].read = read
  BY <1>2, <1>3, <1>5 DEF Busy
<1>8. TypeOK'
  <2>1. worker' \in [Workers -> Busy \cup {Idle}]
    BY <1>1, <1>4, <1>7, WorkerIsFunction DEF Interrupt
  <2> QED
    BY <1>2, <1>6, <2>1 DEF IInv, TypeOK, QueueOK, HistoryOK
<1>9. TimesOK'
  <2>1. worker[w].since <= clock
    BY <1>2 DEF IInv, TimesOK, Busy
  <2> QED
    BY <1>2, <1>4, <1>7, <2>1 DEF IInv, TimesOK
<1>10. ReadsBacked'
  BY <1>2, <1>4, <1>7 DEF IInv, ReadsBacked, read, Msg
<1>11. LagBounded' /\ RowIsBacked'
  BY <1>2 DEF IInv, LagBounded, RowIsBacked
<1> QED
  BY <1>6, <1>8, <1>9, <1>10, <1>11 DEF IInv

-----------------------------------------------------------------------------
(* Commits. *)

\* A commit, of any status but "pending", by a worker that goes on.  What it
\* leaves of the row is backed because the column it does not write holds a
\* status that was recorded before.
LEMMA SaveStep ==
  ASSUME IInv, NEW w \in Workers, worker[w].pc # "idle",
         NEW status \in MonitorStatus \ {"pending"},
         NEW soft_limit \in BOOLEAN, NEW sets_row \in BOOLEAN,
         Msg(w).kind = "monitor" => sets_row,
         Save(w, status, soft_limit, sets_row),
         \E pc \in {"closing", "done"} : Go(w, pc),
         UNCHANGED <<clock, queue, published, probed, dropped, faults>>
  PROVE  IInv'
<1> DEFINE m == Msg(w).mon
           now == worker[w].now
           new == [id |-> saved, monitor_id |-> m, check_type |-> Msg(w).kind,
                   task |-> Msg(w).task, status |-> status, checked_at |-> now,
                   soft_limit |-> soft_limit]
           row == WriteBack(monitors[m], worker[w].read, status, now)
<1>1. /\ m \in DOMAIN monitors /\ results' = results \cup {new} /\ saved' = saved + 1
      /\ monitors' = IF sets_row THEN [monitors EXCEPT ![m] = row] ELSE monitors
  BY DEF Save
<1>2. /\ worker[w] \in Busy /\ worker[w] # Idle
      /\ Msg(w) \in Message /\ now \in Nat /\ clock \in Nat /\ saved \in Nat
      /\ now <= clock /\ clock <= now + HardLimit
  <2>1. worker[w] \in Busy /\ worker[w] # Idle /\ Msg(w) \in Message
    BY HeldMessage
  <2>2. now \in Nat /\ worker[w].since \in Nat
    BY <2>1 DEF Busy
  <2> QED
    BY <2>1, <2>2, Constants DEF IInv, TypeOK, TimesOK
<1>3. new \in PingResult
  BY <1>2 DEF PingResult, Message
<1>4. /\ new.monitor_id = m /\ new.status = status /\ new.checked_at = now
      /\ new.check_type = Msg(w).kind /\ new.id = saved
  OBVIOUS
<1>5. monitors[m] \in Monitor
  BY <1>1 DEF IInv, TypeOK
<1>6. /\ row \in Monitor /\ row.last_checked_at = now
      /\ row.status = IF status # worker[w].read THEN status ELSE monitors[m].status
  BY <1>2, <1>5 DEF WriteBack, Monitor
<1>7. worker[w].read # "pending" => monitors[m].status # "pending"
  BY <1>1, <1>2 DEF IInv, ReadsBacked, Msg
<1>8. row.status # "pending"
  BY <1>6, <1>7
<1>9. /\ DOMAIN monitors' = DOMAIN monitors
      /\ \A n \in DOMAIN monitors \ {m} : monitors'[n] = monitors[n]
      /\ monitors'[m] = IF sets_row THEN row ELSE monitors[m]
  BY <1>1
<1> HIDE DEF new, row, now
<1>10. /\ DOMAIN worker' = Workers /\ worker' = [v \in Workers |-> worker'[v]]
       /\ \A v \in Workers : Continues(worker[v], worker'[v])
  BY <1>2, WorkerStep
<1>11. \A v \in Workers :
         /\ worker'[v] \in Busy \cup {Idle}
         /\ worker'[v] # Idle =>
              /\ worker[v] # Idle
              /\ worker'[v].msg = worker[v].msg /\ worker'[v].read = worker[v].read
              /\ worker'[v].now = worker[v].now /\ worker'[v].since = worker[v].since
  BY <1>10, WorkerIsFunction, BusyNotIdle DEF Continues
<1>12. QueueOK' /\ HistoryOK'
  BY WorkerIsFunction DEF QueueOK, HistoryOK
<1>13. TypeOK'
  <2>1. \A n \in DOMAIN monitors' : monitors'[n] \in Monitor
    BY <1>5, <1>6, <1>9 DEF IInv, TypeOK
  <2>2. worker' \in [Workers -> Busy \cup {Idle}]
    BY <1>10, <1>11
  <2>3. results' \subseteq PingResult
    BY <1>1, <1>3 DEF IInv, TypeOK
  <2> QED
    BY <1>1, <1>2, <1>9, <1>12, <2>1, <2>2, <2>3 DEF IInv, TypeOK, QueueOK, HistoryOK
<1>14. TimesOK'
  <2>1. \A r \in results : r.id \in Nat
    BY DEF IInv, TypeOK, PingResult
  <2> QED
    BY <1>1, <1>2, <1>4, <1>9, <1>11, <2>1 DEF IInv, TimesOK
<1>15. ReadsBacked'
  BY <1>1, <1>8, <1>9, <1>11 DEF IInv, ReadsBacked
<1>16. LagBounded'
  <2> SUFFICES ASSUME NEW r \in results', r.check_type = "monitor"
               PROVE  /\ monitors'[r.monitor_id].last_checked_at # NULL
                      /\ r.checked_at <= monitors'[r.monitor_id].last_checked_at + HardLimit
    BY DEF LagBounded
  <2>1. now # NULL
    BY <1>2, NullAssumption
  <2>2. CASE r = new
    BY <1>2, <1>4, <1>6, <1>9, <2>1, <2>2, Constants
  <2>3. CASE r \in results /\ r.monitor_id = m /\ sets_row
    <3>1. r.checked_at \in Nat /\ r.checked_at <= clock
      BY <2>3 DEF IInv, TypeOK, TimesOK, PingResult
    <3> QED
      BY <1>2, <1>6, <1>9, <2>1, <2>3, <3>1, Constants
  <2>4. CASE r \in results /\ (r.monitor_id # m \/ ~sets_row)
    BY <1>9, <2>4 DEF IInv, TimesOK, LagBounded
  <2> QED
    BY <1>1, <2>2, <2>3, <2>4
<1>17. RowIsBacked'
  <2> SUFFICES ASSUME NEW n \in DOMAIN monitors
               PROVE  LET own == {r \in results' : r.monitor_id = n} IN
                      /\ monitors'[n].status # "pending" =>
                           \E r \in own : r.status = monitors'[n].status
                      /\ monitors'[n].last_checked_at # NULL =>
                           \E r \in own : r.checked_at = monitors'[n].last_checked_at
                      /\ monitors'[n].status = "pending" <=> monitors'[n].last_checked_at = NULL
    BY <1>9 DEF RowIsBacked
  <2>1. CASE n # m \/ ~sets_row
    BY <1>1, <1>9, <2>1 DEF IInv, RowIsBacked
  <2>2. CASE n = m /\ sets_row
    <3>1. monitors'[n] = row /\ new \in results' /\ new.monitor_id = n
      BY <1>1, <1>4, <1>9, <2>2
    <3>2. now # NULL
      BY <1>2, NullAssumption
    <3>3. row.status = status \/ row.status = monitors[m].status
      BY <1>6
    <3>4. monitors[m].status # "pending" =>
            \E r \in results : r.monitor_id = m /\ r.status = monitors[m].status
      BY <1>1 DEF IInv, RowIsBacked
    <3> QED
      BY <1>1, <1>4, <1>6, <1>8, <2>2, <3>1, <3>2, <3>3, <3>4
  <2> QED
    BY <2>1, <2>2
<1> QED
  BY <1>12, <1>13, <1>14, <1>15, <1>16, <1>17 DEF IInv

LEMMA CommitSteps ==
  ASSUME IInv, NEW w \in Workers, Commit(w) \/ Recover(w)
  PROVE  IInv'
<1>1. worker[w].pc # "idle"
  BY DEF Commit, Recover, At
<1>2. CASE Commit(w)
  <2>1. PICK answer \in Answers :
          Save(w, outcome_to_status(answer.outcome), FALSE, update_monitor_status(w))
    BY <1>2 DEF Commit
  <2>2. outcome_to_status(answer.outcome) \in MonitorStatus \ {"pending"}
    <3>1. answer.outcome \in PingOutcome
      BY Constants DEF Answer
    <3> QED
      BY <3>1 DEF outcome_to_status, PingOutcome, MonitorStatus
  <2>3. Go(w, "closing") /\ UNCHANGED <<clock, queue, published, probed, dropped, faults>>
    BY <1>2 DEF Commit
  <2> DEFINE status == outcome_to_status(answer.outcome)
             sets_row == update_monitor_status(w)
  <2>4. Save(w, status, FALSE, sets_row) /\ (Msg(w).kind = "monitor" => sets_row)
    BY <2>1 DEF update_monitor_status
  <2>5. sets_row \in BOOLEAN /\ status \in MonitorStatus \ {"pending"}
    BY <2>2 DEF update_monitor_status
  <2> HIDE DEF status, sets_row
  <2> QED
    BY <1>1, <2>3, <2>4, <2>5, SaveStep
<1>3. CASE Recover(w)
  <2>1. /\ Save(w, "down", TRUE, TRUE) /\ Go(w, "done")
        /\ UNCHANGED <<clock, queue, published, probed, dropped, faults>>
    BY <1>3 DEF Recover
  <2>2. "down" \in MonitorStatus \ {"pending"}
    BY DEF MonitorStatus
  <2> QED
    BY <1>1, <2>1, <2>2, SaveStep
<1> QED
  BY <1>2, <1>3

-----------------------------------------------------------------------------
(* The clock and the other users of the table. *)

LEMMA TickStep ==
  ASSUME IInv, Tick
  PROVE  IInv'
<1>1. clock \in Nat /\ clock' = clock + 1
  BY DEF IInv, TypeOK, Tick
<1>2. UNCHANGED <<monitors, results, saved, queue, worker, published, probed, dropped, faults>>
  BY DEF Tick
<1>3. TypeOK' /\ HistoryOK'
  BY <1>1, <1>2 DEF IInv, TypeOK, HistoryOK
<1>4. TimesOK'
  <2>1. ASSUME NEW w \in Workers, worker[w] # Idle
        PROVE  /\ worker[w].since <= worker[w].now /\ worker[w].now <= clock + 1
               /\ clock + 1 <= worker[w].since + HardLimit
               /\ worker[w].msg.retries <= max_retries
    <3>1. worker[w] \in Busy
      BY <2>1, WorkerIsFunction
    <3>2. worker[w].pc # "idle" /\ worker[w].since \in Nat /\ worker[w].now \in Nat
      BY <3>1 DEF Busy
    <3>3. clock - worker[w].since < HardLimit
      BY <3>2 DEF Tick, WithinLimit, At, Age
    <3> QED
      BY <1>1, <2>1, <3>2, <3>3, Constants DEF IInv, TimesOK
  <2>2. \A r \in results :
          r.checked_at <= clock + 1 /\ r.id < saved /\ r.monitor_id \in DOMAIN monitors
    BY <1>1 DEF IInv, TypeOK, TimesOK, PingResult
  <2> QED
    BY <1>1, <1>2, <2>1, <2>2 DEF TimesOK
<1>5. LagBounded' /\ RowIsBacked' /\ ReadsBacked'
  BY <1>2 DEF IInv, LagBounded, RowIsBacked, ReadsBacked
<1> QED
  BY <1>3, <1>4, <1>5 DEF IInv

LEMMA DeleteStep ==
  ASSUME IInv, NEW m \in DOMAIN monitors, Delete(m)
  PROVE  IInv'
<1>1. /\ monitors' = [n \in DOMAIN monitors \ {m} |-> monitors[n]]
      /\ results' = {r \in results : r.monitor_id # m}
      /\ UNCHANGED <<clock, saved, queue, worker, published, probed, dropped, faults>>
  BY DEF Delete
<1>2. /\ DOMAIN monitors' = DOMAIN monitors \ {m}
      /\ \A n \in DOMAIN monitors' : monitors'[n] = monitors[n]
  BY <1>1
<1>3. TypeOK' /\ HistoryOK'
  BY <1>1, <1>2 DEF IInv, TypeOK, HistoryOK
<1>4. TimesOK' /\ ReadsBacked'
  BY <1>1, <1>2 DEF IInv, TimesOK, ReadsBacked
<1>5. LagBounded'
  BY <1>1, <1>2 DEF IInv, TimesOK, LagBounded
<1>6. RowIsBacked'
  <2>1. \A n \in DOMAIN monitors' :
          {r \in results' : r.monitor_id = n} = {r \in results : r.monitor_id = n}
    BY <1>1, <1>2
  <2> QED
    BY <1>2, <2>1 DEF IInv, RowIsBacked
<1> QED
  BY <1>3, <1>4, <1>5, <1>6 DEF IInv

LEMMA DisableStep ==
  ASSUME IInv, NEW m \in DOMAIN monitors, Disable(m)
  PROVE  IInv'
<1>1. /\ monitors' = [monitors EXCEPT ![m].keep_alive_enabled = FALSE]
      /\ UNCHANGED <<clock, results, saved, queue, worker, published, probed, dropped, faults>>
  BY DEF Disable
<1>2. monitors[m] \in Monitor
  BY DEF IInv, TypeOK
<1>3. monitors'[m] = [monitors[m] EXCEPT !.keep_alive_enabled = FALSE]
  BY <1>1
<1>4. /\ monitors'[m] \in Monitor /\ monitors'[m].status = monitors[m].status
      /\ monitors'[m].last_checked_at = monitors[m].last_checked_at
  BY <1>2, <1>3 DEF Monitor
<1>5. /\ DOMAIN monitors' = DOMAIN monitors
      /\ \A n \in DOMAIN monitors :
           /\ monitors[n] \in Monitor => monitors'[n] \in Monitor
           /\ monitors'[n].status = monitors[n].status
           /\ monitors'[n].last_checked_at = monitors[n].last_checked_at
  BY <1>1, <1>4
<1>6. TypeOK' /\ HistoryOK'
  BY <1>1, <1>5 DEF IInv, TypeOK, HistoryOK
<1>7. TimesOK' /\ ReadsBacked'
  BY <1>1, <1>5 DEF IInv, TimesOK, ReadsBacked
<1>8. LagBounded' /\ RowIsBacked'
  BY <1>1, <1>5 DEF IInv, TimesOK, LagBounded, RowIsBacked
<1> QED
  BY <1>6, <1>7, <1>8 DEF IInv

LEMMA NextIInv == IInv /\ [Next]_vars => IInv'
<1> SUFFICES ASSUME IInv, [Next]_vars PROVE IInv'
  OBVIOUS
<1>1. CASE Tick
  BY <1>1, TickStep
<1>2. ASSUME NEW m \in DOMAIN monitors, SweepSends(m) \/ CheckSends(m)
      PROVE  IInv'
  <2>1. CASE SweepSends(m)
    <3>1. PICK kind \in CheckType :
            /\ IntervalOf(monitors[m], kind) # NULL
            /\ Send(kind, m, clock + IntervalOf(monitors[m], kind))
      BY <2>1 DEF SweepSends
    <3>2. monitors[m] \in Monitor /\ clock \in Nat
      BY DEF IInv, TypeOK
    <3>3. IntervalOf(monitors[m], kind) \in Nat
      BY <3>1, <3>2, IntervalAssumption DEF IntervalOf, Monitor
    <3> QED
      BY <3>1, <3>2, <3>3, SendStep
  <2>2. CASE CheckSends(m)
    BY <2>2, SendStep DEF CheckSends, CheckType
  <2> QED
    BY <1>2, <2>1, <2>2
<1>3. ASSUME NEW m \in DOMAIN monitors, Delete(m) \/ Disable(m)
      PROVE  IInv'
  BY <1>3, DeleteStep, DisableStep
<1>4. ASSUME NEW w \in Workers, Step(w)
      PROVE  IInv'
  BY <1>4, TakingSteps, StartStep, CommitSteps, RetryStep, EndingSteps DEF Step
<1>5. ASSUME NEW w \in Workers,
             Fail(w) \/ SoftTimeLimit(w) \/ LateSoftTimeLimit(w) \/ Kill(w) \/ Crash(w)
      PROVE  IInv'
  BY <1>5, EndingSteps, InterruptStep, CrashStep
<1>6. CASE UNCHANGED vars
  <2>1. QueueOK' /\ HistoryOK'
    BY <1>6, WorkerIsFunction DEF vars, QueueOK, HistoryOK
  <2> QED
    BY <1>6, <2>1, WorkerIsFunction, QuietStep DEF vars, Continues
<1> QED
  BY <1>1, <1>2, <1>3, <1>4, <1>5, <1>6 DEF Next

LEMMA Invariance == Spec => []IInv
BY InitIInv, NextIInv, PTL DEF Spec

-----------------------------------------------------------------------------
(* Theorems *)

\* Every variable keeps its type, and no message counts more retries than
\* max_retries, whatever crashes and redeliveries there are.
THEOREM TypeCorrect == Spec => []TypeOK
<1>1. IInv => TypeOK
  BY DEF IInv
<1> QED
  BY <1>1, Invariance, PTL

\* Checks that commit out of order move last_checked_at back by at most the
\* hard time limit: _run_probe_task dates a check when it starts and the limit
\* bounds how much later it commits.
THEOREM LagIsBounded == Spec => []LagBounded
<1>1. IInv => LagBounded
  BY DEF IInv
<1> QED
  BY <1>1, Invariance, PTL

\* However its writers overlap, each column of a row shows something one of its
\* recorded results says, and it leaves "pending" exactly when it is first
\* dated.  The two columns need not come from the same result.
THEOREM RowsAreBacked == Spec => []RowIsBacked
<1>1. IInv => RowIsBacked
  BY DEF IInv
<1> QED
  BY <1>1, Invariance, PTL

\* Only a commit changes a status, and its result is new.
LEMMA SaveRecords ==
  ASSUME IInv, NEW w \in Workers, worker[w].pc # "idle",
         NEW status, NEW soft_limit, NEW sets_row,
         Save(w, status, soft_limit, sets_row),
         NEW m \in DOMAIN monitors, monitors'[m].status # monitors[m].status
  PROVE  /\ sets_row /\ m = Msg(w).mon
         /\ \E r \in results' \ results :
              /\ r.monitor_id = m /\ r.check_type = Msg(w).kind
              /\ r.status = status /\ r.soft_limit = soft_limit
<1> DEFINE new == [id |-> saved, monitor_id |-> Msg(w).mon, check_type |-> Msg(w).kind,
                   task |-> Msg(w).task, status |-> status, checked_at |-> worker[w].now,
                   soft_limit |-> soft_limit]
<1>1. results' = results \cup {new} /\ sets_row /\ m = Msg(w).mon
  BY DEF Save
<1>2. new.id = saved /\ saved \in Nat
  BY DEF IInv, TypeOK
<1>3. \A r \in results : r.id < saved
  BY DEF IInv, TimesOK
<1>4. new \in results' \ results
  BY <1>1, <1>2, <1>3
<1>5. /\ new.monitor_id = m /\ new.check_type = Msg(w).kind
      /\ new.status = status /\ new.soft_limit = soft_limit
  BY <1>1
<1> QED
  BY <1>1, <1>4, <1>5

\* A keep-alive leaves Monitor.status alone (execute_keep_alive), except that
\* the handler of an exceeded soft limit sets it to "down".
THEOREM KeepAliveSparesStatus == Spec => KeepAliveOnlyDowns
<1> DEFINE Recording(m) ==
      \E r \in results' \ results :
        /\ r.monitor_id = m
        /\ r.check_type = "monitor" \/ (r.soft_limit /\ r.status = "down")
<1>1. ASSUME IInv, [Next]_vars,
             NEW m \in DOMAIN monitors \cap DOMAIN monitors',
             monitors'[m].status # monitors[m].status
      PROVE  Recording(m)
  <2>1. ASSUME NEW w \in Workers, Commit(w)
        PROVE  Recording(m)
    <3>1. PICK answer \in Answers :
            Save(w, outcome_to_status(answer.outcome), FALSE, update_monitor_status(w))
      BY <2>1 DEF Commit
    <3>2. worker[w].pc # "idle"
      BY <2>1 DEF Commit, At
    <3> DEFINE status == outcome_to_status(answer.outcome)
               sets_row == update_monitor_status(w)
               no == FALSE
    <3>3. Save(w, status, no, sets_row)
      BY <3>1
    <3> HIDE DEF status, sets_row, no
    <3>4. sets_row /\ \E r \in results' \ results :
            r.monitor_id = m /\ r.check_type = Msg(w).kind
      BY <1>1, <3>2, <3>3, SaveRecords
    <3> QED
      BY <3>4 DEF sets_row, update_monitor_status
  <2>2. ASSUME NEW w \in Workers, Recover(w)
        PROVE  Recording(m)
    <3>1. Save(w, "down", TRUE, TRUE) /\ worker[w].pc # "idle"
      BY <2>2 DEF Recover, At
    <3> DEFINE yes == TRUE
    <3>2. Save(w, "down", yes, yes)
      BY <3>1
    <3>3. yes
      OBVIOUS
    <3> HIDE DEF yes
    <3>4. \E r \in results' \ results :
            r.monitor_id = m /\ r.status = "down" /\ r.soft_limit = yes
      BY <1>1, <3>1, <3>2, SaveRecords
    <3> QED
      BY <3>3, <3>4
  <2>3. ASSUME NEW n \in DOMAIN monitors, Delete(n) \/ Disable(n)
        PROVE  FALSE
    <3>1. CASE Delete(n)
      BY <1>1, <3>1 DEF Delete
    <3>2. CASE Disable(n)
      <4>1. monitors[n] \in Monitor
        BY <1>1 DEF IInv, TypeOK
      <4> QED
        BY <1>1, <3>2, <4>1 DEF Disable, Monitor
    <3> QED
      BY <2>3, <3>1, <3>2
  <2>4. CASE UNCHANGED monitors
    BY <1>1, <2>4
  <2>5. CASE Next
    BY <2>1, <2>2, <2>3, <2>4, <2>5
       DEF Next, Step, Tick, SweepSends, CheckSends, Send, Expire, Ignore, Start, Retry,
           Gone, Ack, Fail, SoftTimeLimit, LateSoftTimeLimit, Interrupt, Kill, Crash
  <2> QED
    BY <1>1, <2>4, <2>5 DEF vars
<1>2. IInv /\ [Next]_vars =>
        \A m \in DOMAIN monitors \cap DOMAIN monitors' :
          monitors'[m].status # monitors[m].status => Recording(m)
  BY <1>1
<1> QED
  BY <1>2, Invariance, PTL DEF Spec, KeepAliveOnlyDowns
-----------------------------------------------------------------------------
(* Where deliveries come from: each carries what its first message said.    *)

Traced(msg) ==
  \E pub \in published : /\ pub.task = msg.task /\ pub.kind = msg.kind
                         /\ pub.mon = msg.mon /\ pub.expires = msg.expires

\* Task ids are unique, and every delivery, result and probe is of a task that
\* was published.
Origin ==
  /\ \A msg \in published : msg.task < Cardinality(published)
  /\ \A msg, pub \in published : msg.task = pub.task => msg = pub
  /\ \A msg \in BagToSet(queue) : Traced(msg)
  /\ \A w \in Workers : worker[w] # Idle => Traced(Msg(w))
  /\ \A r \in results :
       \E pub \in published : pub.task = r.task /\ pub.mon = r.monitor_id
  /\ \A t \in probed : \E pub \in published : pub.task = t

\* What is traced to a published task was published with its kind and monitor.
LEMMA TracedTo ==
  ASSUME Origin, NEW pub \in published, NEW msg, Traced(msg), pub.task = msg.task
  PROVE  pub.kind = msg.kind /\ pub.mon = msg.mon /\ pub.expires = msg.expires
BY DEF Origin, Traced

LEMMA InitOrigin == Init => Origin
<1> SUFFICES ASSUME Init PROVE Origin
  OBVIOUS
<1>1. BagToSet(queue) = {}
  BY DEF Init, EmptyBag, SetToBag, BagToSet
<1> QED
  BY <1>1 DEF Init, Origin

\* A step that publishes no task.
LEMMA OriginStep ==
  ASSUME Origin, published' = published,
         \A msg \in BagToSet(queue)' : Traced(msg),
         \A w \in Workers : worker'[w] # Idle => Traced(worker'[w].msg),
         \A r \in results' :
           \E pub \in published : pub.task = r.task /\ pub.mon = r.monitor_id,
         \A t \in probed' : \E pub \in published : pub.task = t
  PROVE  Origin'
BY DEF Origin, Traced, Msg

\* What a bag has after a message was added to it or taken from it.
LEMMA EnqueueBag ==
  ASSUME IInv, NEW msg, Enqueue(msg)
  PROVE  BagToSet(queue)' = BagToSet(queue) \cup {msg}
BY WorkerIsFunction, AddToBag DEF Enqueue, QueueOK

LEMMA TakeBag ==
  ASSUME IInv, NEW w \in Workers, NEW msg, Take(w, msg)
  PROVE  /\ BagToSet(queue)' \subseteq BagToSet(queue)
         /\ BagToSet(queue) \subseteq BagToSet(queue)' \cup {msg}
<1> DEFINE left(x) == IF x = msg THEN queue[x] - 1 ELSE queue[x]
           some == {x \in DOMAIN queue : left(x) > 0}
<1>1. IsABag(queue) /\ queue' = queue (-) SetToBag({msg})
  BY WorkerIsFunction DEF Take, QueueOK
<1>2. queue' = [x \in some |-> left(x)]
  BY <1>1 DEF (-), SetToBag
<1>3. \A x \in DOMAIN queue \ {msg} : left(x) > 0
  BY <1>1 DEF IsABag
<1> HIDE DEF left
<1>4. DOMAIN queue' = some
  BY <1>2
<1> QED
  BY <1>3, <1>4 DEF BagToSet

\* The steps of a worker, as the accounts see them: one worker moves.
LEMMA OneWorkerMoves ==
  ASSUME IInv, NEW w \in Workers,
         \/ Step(w) \/ Fail(w) \/ SoftTimeLimit(w)
         \/ LateSoftTimeLimit(w) \/ Kill(w) \/ Crash(w)
  PROVE  /\ published' = published
         /\ DOMAIN worker' = Workers
         /\ \A v \in Workers \ {w} : worker'[v] = worker[v]
BY WorkerIsFunction
   DEF Step, Expire, Ignore, Start, Commit, Save, Retry, Recover, Gone, Ack, Fail,
       SoftTimeLimit, LateSoftTimeLimit, Interrupt, Kill, Crash, Leave, Go

LEMMA WorkerOrigin ==
  ASSUME IInv, Origin, NEW w \in Workers,
         \/ Step(w) \/ Fail(w) \/ SoftTimeLimit(w)
         \/ LateSoftTimeLimit(w) \/ Kill(w) \/ Crash(w)
  PROVE  Origin'
<1>1. /\ published' = published /\ DOMAIN worker' = Workers
      /\ \A v \in Workers \ {w} : worker'[v] = worker[v]
  BY OneWorkerMoves
<1>2. At(w, {"probing", "recovering", "closing", "done"}) =>
        worker[w] \in Busy /\ worker[w] # Idle /\ Traced(Msg(w))
  BY HeldMessage DEF At, Origin
<1>3. CASE Expire(w) \/ Ignore(w)
  <2>1. PICK msg \in BagToSet(queue) : Take(w, msg)
    BY <1>3 DEF Expire, Ignore
  <2>2. UNCHANGED <<results, worker, published, probed>>
    BY <1>3 DEF Expire, Ignore
  <2> QED
    BY <2>1, <2>2, TakeBag, OriginStep DEF Origin, Msg
<1>4. CASE Start(w)
  <2>1. PICK msg \in BagToSet(queue) :
          /\ Take(w, msg) /\ probed' = probed \cup {msg.task}
          /\ worker' = [worker EXCEPT ![w] =
               [pc |-> "probing", msg |-> msg, read |-> monitors[msg.mon].status,
                now |-> clock, since |-> clock]]
    BY <1>4 DEF Start
  <2>2. worker'[w].msg = msg /\ Traced(msg) /\ results' = results
    BY <1>4, <2>1, WorkerIsFunction DEF Start, Origin
  <2>3. \A v \in Workers : worker'[v] # Idle => Traced(worker'[v].msg)
    BY <1>1, <2>2 DEF Origin, Msg
  <2>4. \A t \in probed' : \E pub \in published : pub.task = t
    BY <2>1, <2>2 DEF Origin, Traced
  <2>5. \A sent \in BagToSet(queue)' : Traced(sent)
    BY <2>1, TakeBag DEF Origin
  <2> QED
    BY <1>1, <2>2, <2>3, <2>4, <2>5, OriginStep DEF Origin
<1>5. CASE Commit(w) \/ Recover(w)
  <2>1. PICK status, soft_limit, sets_row : Save(w, status, soft_limit, sets_row)
    BY <1>5 DEF Commit, Recover
  <2>2. \E pub \in published : pub.task = Msg(w).task /\ pub.mon = Msg(w).mon
    BY <1>2, <1>5 DEF Commit, Recover, At, Traced
  <2>3. \A r \in results' :
          r \in results \/ (r.task = Msg(w).task /\ r.monitor_id = Msg(w).mon)
    BY <2>1 DEF Save
  <2>4. UNCHANGED <<queue, probed>> /\ worker'[w].msg = worker[w].msg
    BY <1>2, <1>5, WorkerIsFunction DEF Commit, Recover, Go, At, Busy
  <2>5. \A v \in Workers : worker'[v] # Idle => Traced(worker'[v].msg)
    BY <1>1, <1>2, <1>5, <2>4 DEF Origin, Msg, Commit, Recover, At
  <2> QED
    BY <1>1, <2>2, <2>3, <2>4, <2>5, OriginStep DEF Origin
<1>6. CASE Retry(w)
  <2>1. /\ Enqueue(Again(Msg(w))) /\ UNCHANGED <<results, probed>>
        /\ worker'[w].msg = worker[w].msg
    BY <1>2, <1>6, WorkerIsFunction DEF Retry, Go, At, Busy
  <2>2. Traced(Again(Msg(w)))
    <3>1. Msg(w) \in Message /\ Traced(Msg(w))
      BY <1>2, <1>6 DEF Retry, At, Busy, Msg
    <3> QED
      BY <3>1 DEF Again, Traced, Message
  <2>3. \A v \in Workers : worker'[v] # Idle => Traced(worker'[v].msg)
    BY <1>1, <1>2, <1>6, <2>1 DEF Origin, Msg, Retry, At
  <2>4. \A msg \in BagToSet(queue)' : Traced(msg)
    BY <2>1, <2>2, EnqueueBag DEF Origin
  <2> QED
    BY <1>1, <2>1, <2>3, <2>4, OriginStep DEF Origin
<1>7. CASE Gone(w) \/ Ack(w) \/ Fail(w) \/ Kill(w)
  <2>1. UNCHANGED <<queue, results, probed>> /\ worker'[w] = Idle
    BY <1>7, WorkerIsFunction DEF Gone, Ack, Fail, Kill, Leave
  <2> QED
    BY <1>1, <2>1, OriginStep DEF Origin, Msg
<1>8. CASE Crash(w)
  <2>1. UNCHANGED <<results, probed>> /\ worker'[w] = Idle /\ Enqueue(Msg(w))
    BY <1>8, WorkerIsFunction DEF Crash, Redeliver, Leave
  <2>2. \A msg \in BagToSet(queue)' : Traced(msg)
    BY <1>2, <1>8, <2>1, EnqueueBag DEF Origin, Crash
  <2> QED
    BY <1>1, <2>1, <2>2, OriginStep DEF Origin, Msg
<1>9. CASE SoftTimeLimit(w) \/ LateSoftTimeLimit(w)
  <2>1. UNCHANGED <<queue, results, probed>> /\ worker'[w].msg = worker[w].msg
    BY <1>2, <1>9, WorkerIsFunction
       DEF SoftTimeLimit, LateSoftTimeLimit, Interrupt, At, Busy
  <2>2. \A v \in Workers : worker'[v] # Idle => Traced(worker'[v].msg)
    BY <1>1, <1>2, <1>9, <2>1 DEF Origin, Msg, SoftTimeLimit, LateSoftTimeLimit, At
  <2> QED
    BY <1>1, <2>1, <2>2, OriginStep DEF Origin
<1> QED
  BY <1>3, <1>4, <1>5, <1>6, <1>7, <1>8, <1>9 DEF Step

\* A new task takes the next id.
LEMMA SendOrigin ==
  ASSUME IInv, Origin, NEW kind, NEW m, NEW expires, Send(kind, m, expires)
  PROVE  /\ Origin'
         /\ \E msg : /\ msg.task = Cardinality(published) /\ Enqueue(msg)
                     /\ published' = published \cup {msg}
<1> DEFINE n == Cardinality(published)
           msg == NewMessage(n, kind, m, clock, expires)
<1>1. Enqueue(msg) /\ published' = published \cup {msg} /\ msg.task = n
  BY DEF Send, NewMessage
<1>2. UNCHANGED <<results, worker, probed>>
  BY DEF Send
<1>3. IsFiniteSet(published) /\ n \in Nat
  BY WorkerIsFunction, FS_CardinalityType DEF HistoryOK
<1>4. \A pub \in published : pub.task \in Nat /\ pub.task < n
  BY WorkerIsFunction DEF HistoryOK, Message, Origin
<1> HIDE DEF n, msg
<1>5. msg \notin published /\ Cardinality(published') = n + 1
  <2>1. msg \notin published
    BY <1>1, <1>3, <1>4
  <2> QED
    BY <1>1, <1>3, <2>1, FS_AddElement DEF n
<1>6. \A sent \in BagToSet(queue)' : Traced(sent)'
  BY <1>1, EnqueueBag DEF Origin, Traced
<1>7. Origin'
  BY <1>1, <1>2, <1>3, <1>4, <1>5, <1>6 DEF Origin, Traced, Msg
<1> QED
  BY <1>1, <1>7 DEF n

LEMMA NextOrigin == IInv /\ Origin /\ [Next]_vars => Origin'
<1> SUFFICES ASSUME IInv, Origin, [Next]_vars PROVE Origin'
  OBVIOUS
<1>1. ASSUME NEW m \in DOMAIN monitors, SweepSends(m) \/ CheckSends(m)
      PROVE  Origin'
  BY <1>1, SendOrigin DEF SweepSends, CheckSends
<1>2. ASSUME NEW w \in Workers,
             \/ Step(w) \/ Fail(w) \/ SoftTimeLimit(w)
             \/ LateSoftTimeLimit(w) \/ Kill(w) \/ Crash(w)
      PROVE  Origin'
  BY <1>2, WorkerOrigin
<1>3. CASE \/ Tick \/ UNCHANGED vars
           \/ \E m \in DOMAIN monitors : Delete(m) \/ Disable(m)
  <2>1. /\ UNCHANGED <<queue, worker, published, probed>> /\ results' \subseteq results
    BY <1>3 DEF Tick, vars, Delete, Disable
  <2> QED
    BY <2>1, OriginStep DEF Origin, Msg
<1> QED
  BY <1>1, <1>2, <1>3 DEF Next

-----------------------------------------------------------------------------
(* No health check that was probed is forgotten. *)

\* A delivery of the check is still to act, or its result is there.
Alive(t) ==
  \/ \E w \in Workers : At(w, {"probing", "recovering"}) /\ Msg(w).task = t
  \/ \E msg \in BagToSet(queue) : msg.task = t
  \/ \E r \in results : r.task = t

\* The checks ProbedIsRecorded is about.
Owed(msg) == /\ msg.task \in probed \ dropped /\ msg.kind = "monitor"
             /\ msg.mon \in DOMAIN monitors /\ msg.expires = NULL

LEMMA AliveIsPending ==
  /\ ProbedIsRecorded <=> \A msg \in published : Owed(msg) => Alive(msg.task)
  /\ ProbedIsRecorded' <=> \A msg \in published' : Owed(msg)' => Alive(msg.task)'
BY DEF ProbedIsRecorded, Owed, Alive, Pending, Running, Waiting, Recorded

\* A check stays alive while no worker that runs it, no message and no result
\* of it goes.
LEMMA StaysAlive ==
  ASSUME NEW t, Alive(t), NEW w \in Workers,
         \A v \in Workers \ {w} : worker'[v] = worker[v],
         At(w, {"probing", "recovering"}) /\ Msg(w).task = t => Alive(t)',
         \A msg \in BagToSet(queue) : msg.task = t => msg \in BagToSet(queue)' \/ Alive(t)',
         results \subseteq results'
  PROVE  Alive(t)'
BY DEF Alive, At, Msg

LEMMA WorkerKeepsAlive ==
  ASSUME IInv, Origin, ProbedIsRecorded, NEW w \in Workers,
         \/ Step(w) \/ Fail(w) \/ SoftTimeLimit(w)
         \/ LateSoftTimeLimit(w) \/ Kill(w) \/ Crash(w)
  PROVE  ProbedIsRecorded'
<1> SUFFICES ASSUME NEW msg \in published, Owed(msg)'
             PROVE  Alive(msg.task)'
  BY OneWorkerMoves, AliveIsPending
<1> DEFINE t == msg.task
<1>1. /\ DOMAIN worker' = Workers /\ DOMAIN worker = Workers
      /\ \A v \in Workers \ {w} : worker'[v] = worker[v]
  BY OneWorkerMoves, WorkerIsFunction
<1>2. At(w, {"probing", "recovering", "closing", "done"}) =>
        worker[w] \in Busy /\ worker[w] # Idle /\ Traced(Msg(w))
  BY HeldMessage DEF At, Origin
<1>3. CASE Start(w)
  <2>1. PICK sent \in BagToSet(queue) :
          /\ Take(w, sent) /\ probed' = probed \cup {sent.task}
          /\ worker' = [worker EXCEPT ![w] =
               [pc |-> "probing", msg |-> sent, read |-> monitors[sent.mon].status,
                now |-> clock, since |-> clock]]
    BY <1>3 DEF Start
  <2>2. worker'[w].pc = "probing" /\ worker'[w].msg = sent
    BY <1>1, <2>1
  <2>3. sent.task = t => Alive(t)'
    BY <2>2 DEF Alive, At, Msg
  <2>4. CASE sent.task # t
    <3>1. Owed(msg) /\ UNCHANGED results
      BY <1>3, <2>1, <2>4 DEF Owed, Start
    <3>2. Alive(t)
      BY <3>1, AliveIsPending
    <3>3. worker[w].pc = "idle"
      BY <2>1 DEF Take, At
    <3> QED
      BY <1>1, <2>1, <2>4, <3>1, <3>2, <3>3, TakeBag, StaysAlive DEF At
  <2> QED
    BY <2>3, <2>4
<1>4. CASE ~Start(w)
  <2>1. probed' = probed /\ dropped \subseteq dropped' /\ DOMAIN monitors' = DOMAIN monitors
    BY <1>4 DEF Step, Expire, Ignore, Commit, Save, Retry, Recover, Gone, Ack, Fail,
                SoftTimeLimit, LateSoftTimeLimit, Interrupt, Kill, Crash
  <2>2. Owed(msg)
    BY <2>1 DEF Owed
  <2>3. Alive(t)
    BY <2>2, AliveIsPending
  <2>4. ASSUME NEW sent, Traced(sent), sent.task = t
        PROVE  sent.kind = "monitor" /\ sent.mon \in DOMAIN monitors /\ sent.expires = NULL
    BY <2>2, <2>4, TracedTo DEF Owed
  <2>5. CASE Expire(w) \/ Ignore(w)
    <3>1. PICK sent \in BagToSet(queue) : Take(w, sent) /\ (Expired(sent, clock) \/ ~Runnable(sent))
      BY <2>5 DEF Expire, Ignore
    <3>2. sent.task # t
      BY <2>4, <3>1 DEF Origin, Expired, Runnable
    <3>3. UNCHANGED <<worker, results>>
      BY <2>5 DEF Expire, Ignore
    <3> QED
      BY <2>3, <3>1, <3>2, <3>3, TakeBag DEF Alive, At, Msg
  <2>6. CASE Commit(w) \/ Recover(w)
    <3>1. PICK status, soft_limit, sets_row : Save(w, status, soft_limit, sets_row)
      BY <2>6 DEF Commit, Recover
    <3>2. results \subseteq results' /\ \E r \in results' : r.task = Msg(w).task
      <4> DEFINE new == [id |-> saved, monitor_id |-> Msg(w).mon, check_type |-> Msg(w).kind,
                         task |-> Msg(w).task, status |-> status,
                         checked_at |-> worker[w].now, soft_limit |-> soft_limit]
      <4>1. results' = results \cup {new}
        BY <3>1, Zenon DEF Save
      <4>2. new.task = Msg(w).task
        OBVIOUS
      <4> HIDE DEF new
      <4> QED
        BY <4>1, <4>2
    <3>3. Msg(w).task = t => Alive(t)'
      BY <3>2 DEF Alive
    <3>4. queue' = queue
      BY <2>6 DEF Commit, Recover
    <3> QED
      BY <1>1, <2>3, <3>2, <3>3, <3>4, StaysAlive
  <2>7. CASE Retry(w)
    <3>1. Enqueue(Again(Msg(w))) /\ UNCHANGED results
      BY <2>7 DEF Retry
    <3>2. Again(Msg(w)).task = Msg(w).task
      <4>1. Msg(w) \in Message
        BY <1>2, <2>7 DEF Retry, At, Busy, Msg
      <4> QED
        BY <4>1 DEF Again, Message
    <3>3. BagToSet(queue)' = BagToSet(queue) \cup {Again(Msg(w))}
      BY <3>1, EnqueueBag
    <3>4. Msg(w).task = t => Alive(t)'
      BY <3>2, <3>3 DEF Alive
    <3> QED
      BY <1>1, <2>3, <3>1, <3>3, <3>4, StaysAlive
  <2>8. CASE Crash(w)
    <3>1. Enqueue(Msg(w)) /\ UNCHANGED results
      BY <2>8 DEF Crash, Redeliver
    <3>2. BagToSet(queue)' = BagToSet(queue) \cup {Msg(w)}
      BY <3>1, EnqueueBag
    <3>3. Msg(w).task = t => Alive(t)'
      BY <3>2 DEF Alive
    <3> QED
      BY <1>1, <2>3, <3>1, <3>2, <3>3, StaysAlive
  <2>9. CASE Gone(w) \/ Ack(w) \/ Fail(w) \/ Kill(w)
    <3>1. UNCHANGED <<queue, results>>
      BY <2>9 DEF Gone, Ack, Fail, Kill
    <3>2. ~(At(w, {"probing", "recovering"}) /\ Msg(w).task = t)
      <4>1. CASE Gone(w)
        BY <1>2, <2>4, <4>1 DEF Gone, At
      <4>2. CASE Ack(w)
        BY <4>2 DEF Ack, At
      <4>3. CASE Fail(w) \/ Kill(w)
        <5>1. dropped' = dropped \cup {Msg(w).task} \/ ~At(w, {"probing", "recovering"})
          BY <4>3 DEF Fail, Kill
        <5> QED
          BY <5>1 DEF Owed
      <4> QED
        BY <2>9, <4>1, <4>2, <4>3
    <3> QED
      BY <1>1, <2>3, <3>1, <3>2, StaysAlive
  <2>10. CASE SoftTimeLimit(w) \/ LateSoftTimeLimit(w)
    <3>1. /\ UNCHANGED <<queue, results>> /\ worker[w] \in Busy
          /\ worker'[w].pc = "recovering" /\ worker'[w].msg = worker[w].msg
      BY <1>1, <1>2, <2>10 DEF SoftTimeLimit, LateSoftTimeLimit, Interrupt, At, Busy
    <3>2. Msg(w).task = t => Alive(t)'
      BY <3>1 DEF Alive, At, Msg
    <3> QED
      BY <1>1, <2>3, <3>1, <3>2, StaysAlive
  <2> QED
    BY <1>4, <2>5, <2>6, <2>7, <2>8, <2>9, <2>10 DEF Step
<1> QED
  BY <1>3, <1>4

LEMMA NextProbed ==
  IInv /\ Origin /\ ProbedIsRecorded /\ [Next]_vars => ProbedIsRecorded'
<1> SUFFICES ASSUME IInv, Origin, ProbedIsRecorded, [Next]_vars PROVE ProbedIsRecorded'
  OBVIOUS
<1>1. ASSUME NEW m \in DOMAIN monitors, SweepSends(m) \/ CheckSends(m)
      PROVE  ProbedIsRecorded'
  <2>1. PICK msg : /\ msg.task = Cardinality(published) /\ Enqueue(msg)
                   /\ published' = published \cup {msg}
    BY <1>1, SendOrigin DEF SweepSends, CheckSends
  <2>2. /\ UNCHANGED <<monitors, results, worker, probed, dropped>>
        /\ BagToSet(queue)' = BagToSet(queue) \cup {msg}
    BY <1>1, <2>1, EnqueueBag DEF SweepSends, CheckSends, Send
  <2>3. \A pub \in published' : Alive(pub.task) => Alive(pub.task)'
    BY <2>2 DEF Alive, At, Msg
  <2>4. Alive(msg.task)'
    BY <2>2 DEF Alive
  <2>5. \A pub \in published' : Owed(pub)' => Owed(pub)
    BY <2>2 DEF Owed
  <2>6. \A pub \in published' : Owed(pub)' => Alive(pub.task)'
    BY <2>1, <2>3, <2>4, <2>5, AliveIsPending
  <2> QED
    BY <2>6, AliveIsPending
<1>2. ASSUME NEW w \in Workers,
             \/ Step(w) \/ Fail(w) \/ SoftTimeLimit(w)
             \/ LateSoftTimeLimit(w) \/ Kill(w) \/ Crash(w)
      PROVE  ProbedIsRecorded'
  BY <1>2, WorkerKeepsAlive
<1>3. CASE \/ Tick \/ UNCHANGED vars
           \/ \E m \in DOMAIN monitors : Delete(m) \/ Disable(m)
  <2>1. /\ UNCHANGED <<queue, worker, published, probed, dropped>>
        /\ DOMAIN monitors' \subseteq DOMAIN monitors
        /\ \A r \in results : r \in results' \/ r.monitor_id \notin DOMAIN monitors'
    BY <1>3 DEF Tick, vars, Delete, Disable
  <2>2. ASSUME NEW pub \in published, Owed(pub)'
        PROVE  Alive(pub.task)'
    <3>1. Owed(pub) /\ pub.mon \in DOMAIN monitors'
      BY <2>1, <2>2 DEF Owed
    <3>2. Alive(pub.task)
      BY <3>1, AliveIsPending
    <3>3. \A r \in results : r.task = pub.task => r.monitor_id = pub.mon
      BY DEF Origin
    <3> QED
      BY <2>1, <3>1, <3>2, <3>3 DEF Alive, At, Msg
  <2> QED
    BY <2>1, <2>2, AliveIsPending
<1> QED
  BY <1>1, <1>2, <1>3 DEF Next

\* A health check that started probing and cannot expire is recorded or still on
\* its way, through every crash, redelivery, retry and soft limit: the task is
\* acknowledged late and its retry carries the same id (worker.py, tasks.py).
THEOREM ProbedChecksAreRecorded == Spec => []ProbedIsRecorded
<1>1. Init => ProbedIsRecorded
  BY DEF Init, ProbedIsRecorded
<1> QED
  BY <1>1, InitOrigin, NextOrigin, NextProbed, InitIInv, NextIInv, PTL DEF Spec

-----------------------------------------------------------------------------
(* The weight of a task: its deliveries still to act, and its results.      *)

\* The copies of a task's messages in a bag, the same that Copies numbers.
TaskCopies(B, t) ==
  UNION {{msg} \X (1 .. B[msg]) : msg \in {msg \in BagToSet(B) : msg.task = t}}

LEMMA CopiesAre ==
  ASSUME NEW t
  PROVE  Copies(t) = TaskCopies(queue, t) /\ Copies(t)' = TaskCopies(queue', t)
BY DEF Copies, TaskCopies, Waiting

LEMMA CopyOf ==
  ASSUME NEW B, NEW t, NEW c
  PROVE  c \in TaskCopies(B, t) <=>
           \E msg \in DOMAIN B : \E n \in 1 .. B[msg] : msg.task = t /\ c = <<msg, n>>
BY DEF TaskCopies, BagToSet

\* One message more is one copy more, of its task.
LEMMA AddCopy ==
  ASSUME NEW B, NEW e, IsABag(B), NEW t
  PROVE  LET C == B (+) SetToBag({e})
             last == <<e, C[e]>>
         IN  /\ last \notin TaskCopies(B, t)
             /\ TaskCopies(C, t) = IF e.task = t THEN TaskCopies(B, t) \cup {last} ELSE TaskCopies(B, t)
<1> DEFINE C == B (+) SetToBag({e})
           last == <<e, C[e]>>
<1>1. C = [x \in DOMAIN B \cup {e} |->
             (IF x \in DOMAIN B THEN B[x] ELSE 0) + (IF x = e THEN 1 ELSE 0)]
  BY DEF (+), SetToBag
<1>2. \A x \in DOMAIN B : B[x] \in Nat /\ B[x] > 0
  BY DEF IsABag
<1> HIDE DEF C
<1>3. /\ DOMAIN C = DOMAIN B \cup {e}
      /\ \A x \in DOMAIN B \ {e} : C[x] = B[x]
      /\ e \in DOMAIN B => C[e] = B[e] + 1
      /\ e \notin DOMAIN B => C[e] = 1
  BY <1>1, <1>2
<1>4. last \notin TaskCopies(B, t)
  <2>1. \A n \in 1 .. B[e] : e \in DOMAIN B => n # C[e]
    BY <1>2, <1>3
  <2> QED
    BY <2>1, CopyOf
<1>5. ASSUME NEW c
      PROVE  c \in TaskCopies(C, t) <=> c \in TaskCopies(B, t) \/ (e.task = t /\ c = last)
  <2>1. \A x \in DOMAIN C : \A n : n \in 1 .. C[x] <=>
          (x \in DOMAIN B /\ n \in 1 .. B[x]) \/ (x = e /\ n = C[e])
    <3> SUFFICES ASSUME NEW x \in DOMAIN C, NEW n
                 PROVE  n \in 1 .. C[x] <=>
                          (x \in DOMAIN B /\ n \in 1 .. B[x]) \/ (x = e /\ n = C[e])
      OBVIOUS
    <3>1. CASE x # e
      BY <1>3, <3>1
    <3>2. CASE x = e /\ e \in DOMAIN B
      BY <1>2, <1>3, <3>2
    <3>3. CASE x = e /\ e \notin DOMAIN B
      BY <1>3, <3>3
    <3> QED
      BY <3>1, <3>2, <3>3
  <2>2. c \in TaskCopies(C, t) <=>
          \E x \in DOMAIN C : \E n \in 1 .. C[x] : x.task = t /\ c = <<x, n>>
    BY CopyOf
  <2>3. c \in TaskCopies(B, t) <=>
          \E x \in DOMAIN B : \E n \in 1 .. B[x] : x.task = t /\ c = <<x, n>>
    BY CopyOf
  <2>4. C[e] \in 1 .. C[e] /\ e \in DOMAIN C
    BY <1>2, <1>3
  <2> QED
    BY <1>3, <2>1, <2>2, <2>3, <2>4
<1>6. TaskCopies(C, t) = IF e.task = t THEN TaskCopies(B, t) \cup {last} ELSE TaskCopies(B, t)
  BY <1>5
<1> QED
  BY <1>4, <1>6 DEF C

\* One message less is one copy less, of its task.
LEMMA RemoveCopy ==
  ASSUME NEW B, IsABag(B), NEW e \in BagToSet(B), NEW t
  PROVE  LET C == B (-) SetToBag({e})
             last == <<e, B[e]>>
         IN  /\ e.task = t => last \in TaskCopies(B, t)
             /\ TaskCopies(C, t) = IF e.task = t THEN TaskCopies(B, t) \ {last} ELSE TaskCopies(B, t)
<1> DEFINE left(x) == IF x = e THEN B[x] - 1 ELSE B[x]
           some == {x \in DOMAIN B : left(x) > 0}
           C == B (-) SetToBag({e})
           last == <<e, B[e]>>
<1>1. C = [x \in some |-> left(x)]
  BY DEF (-), SetToBag
<1>2. e \in DOMAIN B /\ \A x \in DOMAIN B : B[x] \in Nat /\ B[x] > 0
  BY DEF IsABag, BagToSet
<1> HIDE DEF C
<1>3. /\ DOMAIN C = some
      /\ \A x \in DOMAIN B \ {e} : x \in DOMAIN C /\ C[x] = B[x]
      /\ e \in DOMAIN C => C[e] = B[e] - 1
      /\ e \notin DOMAIN C => B[e] = 1
      /\ DOMAIN C \subseteq DOMAIN B
  BY <1>1, <1>2
<1>4. e.task = t => last \in TaskCopies(B, t)
  <2>1. B[e] \in 1 .. B[e]
    BY <1>2
  <2> QED
    BY <1>2, <2>1, CopyOf
<1>5. ASSUME NEW c
      PROVE  c \in TaskCopies(C, t) <=> c \in TaskCopies(B, t) /\ (e.task = t => c # last)
  <2>1. \A x \in DOMAIN B : \A n : (x \in DOMAIN C /\ n \in 1 .. C[x]) <=>
          n \in 1 .. B[x] /\ ~(x = e /\ n = B[e])
    <3> SUFFICES ASSUME NEW x \in DOMAIN B, NEW n
                 PROVE  (x \in DOMAIN C /\ n \in 1 .. C[x]) <=>
                          n \in 1 .. B[x] /\ ~(x = e /\ n = B[e])
      OBVIOUS
    <3>1. CASE x # e
      BY <1>3, <3>1
    <3>2. CASE x = e /\ e \in DOMAIN C
      BY <1>2, <1>3, <3>2
    <3>3. CASE x = e /\ e \notin DOMAIN C
      BY <1>3, <3>3
    <3> QED
      BY <3>1, <3>2, <3>3
  <2>2. c \in TaskCopies(C, t) <=>
          \E x \in DOMAIN C : \E n \in 1 .. C[x] : x.task = t /\ c = <<x, n>>
    BY CopyOf
  <2>3. c \in TaskCopies(B, t) <=>
          \E x \in DOMAIN B : \E n \in 1 .. B[x] : x.task = t /\ c = <<x, n>>
    BY CopyOf
  <2> QED
    BY <1>3, <2>1, <2>2, <2>3
<1>6. TaskCopies(C, t) = IF e.task = t THEN TaskCopies(B, t) \ {last} ELSE TaskCopies(B, t)
  BY <1>5
<1> QED
  BY <1>4, <1>6 DEF C
\* At most one result or delivery more than faults, for every task.
Once ==
  \A t \in Nat :
    /\ IsFiniteSet(Copies(t)) /\ IsFiniteSet(Recorded(t))
    /\ Cardinality(Running(t)) + Cardinality(Copies(t)) + Cardinality(Recorded(t)) <= 1 + faults

LEMMA CardEnqueue ==
  ASSUME IInv, NEW msg, Enqueue(msg), NEW t, IsFiniteSet(Copies(t))
  PROVE  /\ IsFiniteSet(Copies(t)')
         /\ Cardinality(Copies(t)') =
              IF msg.task = t THEN Cardinality(Copies(t)) + 1 ELSE Cardinality(Copies(t))
<1>1. IsABag(queue) /\ queue' = queue (+) SetToBag({msg})
  BY WorkerIsFunction DEF Enqueue, QueueOK
<1> DEFINE last == <<msg, queue'[msg]>>
<1>2. /\ last \notin TaskCopies(queue, t)
      /\ TaskCopies(queue', t) =
           IF msg.task = t THEN TaskCopies(queue, t) \cup {last} ELSE TaskCopies(queue, t)
  BY <1>1, AddCopy
<1> HIDE DEF last
<1> QED
  BY <1>2, CopiesAre, FS_AddElement

LEMMA CardTake ==
  ASSUME IInv, NEW w, NEW msg \in BagToSet(queue), Take(w, msg), NEW t, IsFiniteSet(Copies(t))
  PROVE  /\ IsFiniteSet(Copies(t)')
         /\ Cardinality(Copies(t)') =
              IF msg.task = t THEN Cardinality(Copies(t)) - 1 ELSE Cardinality(Copies(t))
<1>1. IsABag(queue) /\ queue' = queue (-) SetToBag({msg})
  BY WorkerIsFunction DEF Take, QueueOK
<1> DEFINE last == <<msg, queue[msg]>>
<1>2. /\ msg.task = t => last \in TaskCopies(queue, t)
      /\ TaskCopies(queue', t) =
           IF msg.task = t THEN TaskCopies(queue, t) \ {last} ELSE TaskCopies(queue, t)
  BY <1>1, RemoveCopy
<1> HIDE DEF last
<1> QED
  BY <1>2, CopiesAre, FS_RemoveElement

\* The workers other than w, and w itself, before and after w moves.
LEMMA CardRunning ==
  ASSUME NEW w \in Workers, NEW t, \A v \in Workers \ {w} : worker'[v] = worker[v]
  PROVE  LET others == Running(t) \ {w} IN
         /\ Cardinality(others) \in Nat
         /\ Cardinality(Running(t)) =
              Cardinality(others) + (IF w \in Running(t) THEN 1 ELSE 0)
         /\ Cardinality(Running(t)') =
              Cardinality(others) + (IF w \in Running(t)' THEN 1 ELSE 0)
<1> DEFINE others == Running(t) \ {w}
<1>1. Running(t)' \ {w} = others
  BY DEF Running, At, Msg
<1>2. IsFiniteSet(Running(t)) /\ IsFiniteSet(Running(t)')
  BY ProbeAssumption, FS_Subset DEF Running
<1> DEFINE now == Running(t)
           next == Running(t)'
<1>3. now \ {w} = others /\ next \ {w} = others /\ IsFiniteSet(now) /\ IsFiniteSet(next)
  BY <1>1, <1>2
<1>4. IsFiniteSet(others) /\ w \notin others
  BY <1>3, FS_RemoveElement
<1>5. /\ now = IF w \in now THEN others \cup {w} ELSE others
      /\ next = IF w \in next THEN others \cup {w} ELSE others
  BY <1>3
<1> HIDE DEF now, next, others
<1>6. /\ Cardinality(others) \in Nat
      /\ Cardinality(now) = Cardinality(others) + (IF w \in now THEN 1 ELSE 0)
      /\ Cardinality(next) = Cardinality(others) + (IF w \in next THEN 1 ELSE 0)
  BY <1>4, <1>5, FS_CardinalityType, FS_AddElement
<1> QED
  BY <1>6 DEF now, next, others

\* A commit adds one result, of its task.
LEMMA CardSave ==
  ASSUME NEW w, NEW status, NEW soft_limit, NEW sets_row,
         Save(w, status, soft_limit, sets_row), NEW t, IsFiniteSet(Recorded(t))
  PROVE  /\ IsFiniteSet(Recorded(t)')
         /\ Msg(w).task # t => Recorded(t)' = Recorded(t)
         /\ Cardinality(Recorded(t)') <= Cardinality(Recorded(t)) + 1
<1> DEFINE new == [id |-> saved, monitor_id |-> Msg(w).mon, check_type |-> Msg(w).kind,
                   task |-> Msg(w).task, status |-> status, checked_at |-> worker[w].now,
                   soft_limit |-> soft_limit]
<1>1. results' = results \cup {new}
  BY Zenon DEF Save
<1>2. new.task = Msg(w).task
  OBVIOUS
<1> HIDE DEF new
<1>3. Recorded(t)' = IF Msg(w).task = t THEN Recorded(t) \cup {new} ELSE Recorded(t)
  BY <1>1, <1>2 DEF Recorded
<1> DEFINE now == Recorded(t)
           next == Recorded(t)'
<1>4. IsFiniteSet(now) /\ next = IF Msg(w).task = t THEN now \cup {new} ELSE now
  BY <1>3
<1> HIDE DEF now, next
<1>5. Cardinality(now) \in Nat
  BY <1>4, FS_CardinalityType
<1>6. IsFiniteSet(now \cup {new}) /\ Cardinality(now \cup {new}) <= Cardinality(now) + 1
  <2>1. /\ IsFiniteSet(now \cup {new})
        /\ Cardinality(now \cup {new}) =
             IF new \in now THEN Cardinality(now) ELSE Cardinality(now) + 1
    BY <1>4, FS_AddElement, Zenon
  <2> QED
    BY <1>5, <2>1
<1>7. /\ IsFiniteSet(next) /\ Cardinality(next) <= Cardinality(now) + 1
      /\ Msg(w).task # t => next = now
  BY <1>4, <1>5, <1>6
<1> QED
  BY <1>7 DEF now, next

\* No step of a worker makes a task's weight grow by more than its faults do.
LEMMA WorkerOnce ==
  ASSUME IInv, Once, NEW w \in Workers, NEW t \in Nat,
         \/ Step(w) \/ Fail(w) \/ SoftTimeLimit(w)
         \/ LateSoftTimeLimit(w) \/ Kill(w) \/ Crash(w)
  PROVE  /\ IsFiniteSet(Copies(t)') /\ IsFiniteSet(Recorded(t)')
         /\ Cardinality(Running(t)') + Cardinality(Copies(t)') + Cardinality(Recorded(t)')
              <= 1 + faults'
<1> DEFINE others == Cardinality(Running(t) \ {w})
           copies == Cardinality(Copies(t))
           records == Cardinality(Recorded(t))
           was == IF w \in Running(t) THEN 1 ELSE 0
           is == IF w \in Running(t)' THEN 1 ELSE 0
<1>1. \A v \in Workers \ {w} : worker'[v] = worker[v]
  BY OneWorkerMoves
<1>2. /\ others \in Nat /\ Cardinality(Running(t)) = others + was
      /\ Cardinality(Running(t)') = others + is
  BY <1>1, CardRunning
<1>3. IsFiniteSet(Copies(t)) /\ IsFiniteSet(Recorded(t)) /\ faults \in Nat
  BY DEF Once, IInv, TypeOK
<1>4. copies \in Nat /\ records \in Nat
  BY <1>3, FS_CardinalityType
<1>5. others + was + copies + records <= 1 + faults
  BY <1>2 DEF Once
<1>6. was \in {0, 1} /\ is \in {0, 1}
  OBVIOUS
<1>7. results' = results => Recorded(t)' = Recorded(t)
  BY DEF Recorded
<1>8. queue' = queue => Copies(t)' = Copies(t)
  BY CopiesAre
<1>9. worker' = worker => is = was
  BY DEF Running, At, Msg
<1>10. At(w, {"probing", "recovering"}) /\ Msg(w).task = t => was = 1
  BY DEF Running
<1>11. worker'[w] = Idle => is = 0
  BY DEF Running, At, Idle
<1>12. worker'[w].pc = "closing" \/ worker'[w].pc = "done" => is = 0
  BY DEF Running, At
<1> HIDE DEF others, copies, records, was, is
<1>13. CASE Expire(w) \/ Ignore(w)
  <2>1. PICK msg \in BagToSet(queue) : Take(w, msg)
    BY <1>13 DEF Expire, Ignore
  <2>2. UNCHANGED <<worker, results, faults>>
    BY <1>13 DEF Expire, Ignore
  <2>3. IsFiniteSet(Copies(t)') /\ Cardinality(Copies(t)') \in {copies, copies - 1}
    BY <1>3, <2>1, CardTake DEF copies
  <2> QED
    BY <1>2, <1>3, <1>4, <1>5, <1>6, <1>7, <1>9, <2>2, <2>3 DEF records
<1>14. CASE Start(w)
  <2>1. PICK msg \in BagToSet(queue) :
          /\ Take(w, msg)
          /\ worker' = [worker EXCEPT ![w] =
               [pc |-> "probing", msg |-> msg, read |-> monitors[msg.mon].status,
                now |-> clock, since |-> clock]]
    BY <1>14 DEF Start
  <2>2. UNCHANGED <<results, faults>>
    BY <1>14 DEF Start
  <2>3. was = 0
    BY <2>1 DEF Take, was, Running, At
  <2>4. is = IF msg.task = t THEN 1 ELSE 0
    <3>1. worker'[w].pc = "probing" /\ worker'[w].msg = msg
      BY <2>1, WorkerIsFunction
    <3> QED
      BY <3>1 DEF is, Running, At, Msg
  <2>5. /\ IsFiniteSet(Copies(t)')
        /\ Cardinality(Copies(t)') = IF msg.task = t THEN copies - 1 ELSE copies
    BY <1>3, <2>1, CardTake DEF copies
  <2> QED
    BY <1>2, <1>3, <1>4, <1>5, <1>7, <2>2, <2>3, <2>4, <2>5 DEF records
<1>15. CASE Commit(w) \/ Recover(w)
  <2>1. PICK status, soft_limit, sets_row : Save(w, status, soft_limit, sets_row)
    BY <1>15 DEF Commit, Recover
  <2>2. UNCHANGED <<queue, faults>> /\ At(w, {"probing", "recovering"})
    BY <1>15 DEF Commit, Recover, At
  <2>3. worker'[w].pc = "closing" \/ worker'[w].pc = "done"
    BY <1>15, HeldMessage, WorkerIsFunction DEF Commit, Recover, Go, At, Busy
  <2>4. IsFiniteSet(Recorded(t)')
    BY <1>3, <2>1, CardSave
  <2>5. Cardinality(Recorded(t)') \in Nat
    BY <2>4, FS_CardinalityType
  <2>6. CASE Msg(w).task = t
    <3>1. Cardinality(Recorded(t)') <= records + 1
      BY <1>3, <2>1, CardSave DEF records
    <3> QED
      BY <1>2, <1>3, <1>4, <1>5, <1>8, <1>10, <1>12, <2>2, <2>3, <2>4, <2>5, <2>6, <3>1
         DEF copies
  <2>7. CASE Msg(w).task # t
    <3>1. Recorded(t)' = Recorded(t)
      BY <1>3, <2>1, <2>7, CardSave
    <3> QED
      BY <1>2, <1>3, <1>4, <1>5, <1>6, <1>8, <1>12, <2>2, <2>3, <3>1 DEF copies, records
  <2> QED
    BY <2>6, <2>7
<1>16. CASE Retry(w)
  <2>1. Enqueue(Again(Msg(w))) /\ UNCHANGED <<results, faults>> /\ At(w, {"probing", "recovering"})
    BY <1>16 DEF Retry, At
  <2>2. worker[w] \in Busy
    BY <1>16, HeldMessage DEF Retry, At
  <2>3. worker'[w].pc = "closing" /\ Again(Msg(w)).task = Msg(w).task
    <3>1. Msg(w) \in Message
      BY <2>2 DEF Busy, Msg
    <3> QED
      BY <1>16, <2>2, <3>1, WorkerIsFunction DEF Retry, Go, Again, Busy, Message
  <2>4. /\ IsFiniteSet(Copies(t)')
        /\ Cardinality(Copies(t)') = IF Msg(w).task = t THEN copies + 1 ELSE copies
    BY <1>3, <2>1, <2>3, CardEnqueue DEF copies
  <2> QED
    BY <1>2, <1>3, <1>4, <1>5, <1>6, <1>7, <1>10, <1>12, <2>1, <2>3, <2>4 DEF records
<1>17. CASE Gone(w) \/ Ack(w) \/ Fail(w) \/ Kill(w)
  <2>1. UNCHANGED <<queue, results>> /\ worker'[w] = Idle /\ (faults' = faults \/ faults' = faults + 1)
    BY <1>17, WorkerIsFunction DEF Gone, Ack, Fail, Kill, Leave, Fault
  <2> QED
    BY <1>2, <1>3, <1>4, <1>5, <1>6, <1>7, <1>8, <1>11, <2>1 DEF copies, records
<1>18. CASE Crash(w)
  <2>1. /\ Enqueue(Msg(w)) /\ UNCHANGED results /\ worker'[w] = Idle
        /\ faults' = faults + 1
    BY <1>18, WorkerIsFunction DEF Crash, Redeliver, Leave, Fault
  <2>2. IsFiniteSet(Copies(t)') /\ Cardinality(Copies(t)') \in {copies, copies + 1}
    BY <1>3, <2>1, CardEnqueue DEF copies
  <2> QED
    BY <1>2, <1>3, <1>4, <1>5, <1>6, <1>7, <1>11, <2>1, <2>2 DEF records
<1>19. CASE SoftTimeLimit(w) \/ LateSoftTimeLimit(w)
  <2>1. UNCHANGED <<queue, results>> /\ faults' = faults + 1
    BY <1>19 DEF SoftTimeLimit, LateSoftTimeLimit, Interrupt, Fault
  <2> QED
    BY <1>2, <1>3, <1>4, <1>5, <1>6, <1>7, <1>8, <2>1 DEF copies, records
<1> QED
  BY <1>13, <1>14, <1>15, <1>16, <1>17, <1>18, <1>19 DEF Step

\* A task's first message: nothing was on its way or recorded before it.
LEMMA SendOnce ==
  ASSUME IInv, Origin, Once, NEW kind, NEW m, NEW expires, Send(kind, m, expires)
  PROVE  Once'
<1> DEFINE n == Cardinality(published)
           msg == NewMessage(n, kind, m, clock, expires)
<1>1. Enqueue(msg) /\ msg.task = n /\ UNCHANGED <<results, worker, faults>>
  BY DEF Send, NewMessage
<1>2. \A pub \in published : pub.task # n
  <2>1. \A pub \in published : pub.task \in Nat /\ pub.task < n
    BY WorkerIsFunction DEF HistoryOK, Message, Origin
  <2> QED
    BY <2>1
<1> HIDE DEF msg
<1>3. Running(n) = {} /\ Copies(n) = {} /\ Recorded(n) = {}
  <2>1. \A sent : Traced(sent) => sent.task # n
    BY <1>2 DEF Traced
  <2>2. \A w \in Workers : At(w, {"probing", "recovering"}) => Traced(Msg(w))
    BY DEF Origin, At, Idle
  <2>3. Waiting(n) = {}
    BY <2>1 DEF Waiting, Origin
  <2>4. Copies(n) = {}
    BY <2>3 DEF Copies
  <2>5. Recorded(n) = {}
    BY <1>2 DEF Recorded, Origin
  <2> QED
    BY <2>1, <2>2, <2>4, <2>5 DEF Running
<1>4. ASSUME NEW t \in Nat
      PROVE  /\ IsFiniteSet(Copies(t)') /\ IsFiniteSet(Recorded(t)')
             /\ Cardinality(Running(t)') + Cardinality(Copies(t)') + Cardinality(Recorded(t)')
                  <= 1 + faults'
  <2>1. Running(t)' = Running(t) /\ Recorded(t)' = Recorded(t) /\ faults' = faults
    BY <1>1 DEF Running, At, Msg, Recorded
  <2>2. IsFiniteSet(Copies(t)) /\ IsFiniteSet(Recorded(t))
    BY DEF Once
  <2>3. /\ IsFiniteSet(Copies(t)')
        /\ Cardinality(Copies(t)') =
             IF msg.task = t THEN Cardinality(Copies(t)) + 1 ELSE Cardinality(Copies(t))
    BY <1>1, <2>2, CardEnqueue
  <2>4. CASE t = n
    <3>1. /\ Cardinality(Running(t)) = 0 /\ Cardinality(Copies(t)) = 0
          /\ Cardinality(Recorded(t)) = 0
      BY <1>3, <2>4, FS_EmptySet
    <3>2. faults \in Nat
      BY DEF IInv, TypeOK
    <3> QED
      BY <1>1, <2>1, <2>2, <2>3, <2>4, <3>1, <3>2
  <2>5. CASE t # n
    BY <1>1, <2>1, <2>2, <2>3, <2>5 DEF Once
  <2> QED
    BY <2>4, <2>5
<1> QED
  BY <1>4 DEF Once

LEMMA InitOnce == Init => Once
<1> SUFFICES ASSUME Init, NEW t \in Nat
             PROVE  /\ IsFiniteSet(Copies(t)) /\ IsFiniteSet(Recorded(t))
                    /\ Cardinality(Running(t)) + Cardinality(Copies(t))
                         + Cardinality(Recorded(t)) <= 1 + faults
  BY DEF Once
<1>1. BagToSet(queue) = {}
  BY DEF Init, EmptyBag, SetToBag, BagToSet
<1>2. Copies(t) = {} /\ Recorded(t) = {} /\ Running(t) = {}
  BY <1>1 DEF Init, Copies, Waiting, Recorded, Running, At, Idle
<1>3. faults = 0
  BY DEF Init
<1> QED
  BY <1>2, <1>3, FS_EmptySet

LEMMA NextOnce == IInv /\ Origin /\ Once /\ [Next]_vars => Once'
<1> SUFFICES ASSUME IInv, Origin, Once, [Next]_vars
             PROVE  Once'
  OBVIOUS
<1>1. ASSUME UNCHANGED <<queue, worker, faults>>, results' \subseteq results
      PROVE  Once'
  <2> SUFFICES ASSUME NEW t \in Nat
               PROVE  /\ IsFiniteSet(Copies(t)') /\ IsFiniteSet(Recorded(t)')
                      /\ Cardinality(Running(t)') + Cardinality(Copies(t)')
                           + Cardinality(Recorded(t)') <= 1 + faults'
    BY DEF Once
  <2>1. Running(t)' = Running(t) /\ Copies(t)' = Copies(t) /\ faults' = faults
    BY <1>1, CopiesAre DEF Running, At, Msg
  <2>2. /\ IsFiniteSet(Copies(t)) /\ IsFiniteSet(Recorded(t))
        /\ Cardinality(Running(t)) + Cardinality(Copies(t)) + Cardinality(Recorded(t))
             <= 1 + faults
    BY DEF Once
  <2> DEFINE next == Recorded(t)'
  <2>3. next \in SUBSET Recorded(t)
    BY <1>1 DEF Recorded
  <2> HIDE DEF next
  <2>4. IsFiniteSet(next) /\ Cardinality(next) <= Cardinality(Recorded(t))
    BY <2>2, <2>3, FS_Subset
  <2>5. IsFiniteSet(Running(t))
    BY ProbeAssumption, FS_Subset DEF Running
  <2>6. /\ Cardinality(Running(t)) \in Nat /\ Cardinality(Copies(t)) \in Nat
        /\ Cardinality(Recorded(t)) \in Nat /\ Cardinality(next) \in Nat /\ faults \in Nat
    BY <2>2, <2>4, <2>5, FS_CardinalityType DEF IInv, TypeOK
  <2>7. /\ IsFiniteSet(next)
        /\ Cardinality(Running(t)) + Cardinality(Copies(t)) + Cardinality(next) <= 1 + faults
    BY <2>2, <2>4, <2>6
  <2> QED
    BY <2>1, <2>2, <2>7 DEF next
<1>2. CASE Tick \/ UNCHANGED vars
  BY <1>1, <1>2 DEF Tick, vars
<1>3. ASSUME NEW m \in DOMAIN monitors, Delete(m) \/ Disable(m)
      PROVE  Once'
  <2>1. UNCHANGED <<queue, worker, faults>> /\ results' \subseteq results
    BY <1>3 DEF Delete, Disable
  <2> QED
    BY <1>1, <2>1
<1>4. ASSUME NEW m \in DOMAIN monitors, SweepSends(m) \/ CheckSends(m)
      PROVE  Once'
  <2>1. PICK kind, expires : Send(kind, m, expires)
    BY <1>4 DEF SweepSends, CheckSends
  <2> QED
    BY <2>1, SendOnce
<1>5. ASSUME NEW w \in Workers,
             \/ Step(w) \/ Fail(w) \/ SoftTimeLimit(w)
             \/ LateSoftTimeLimit(w) \/ Kill(w) \/ Crash(w)
      PROVE  Once'
  <2>1. \A t \in Nat :
          /\ IsFiniteSet(Copies(t)') /\ IsFiniteSet(Recorded(t)')
          /\ Cardinality(Running(t)') + Cardinality(Copies(t)') + Cardinality(Recorded(t)')
               <= 1 + faults'
    BY <1>5, WorkerOnce
  <2> QED
    BY <2>1 DEF Once
<1> QED
  BY <1>2, <1>3, <1>4, <1>5 DEF Next

\* However often a task is retried, redelivered after a crash or interrupted, it
\* records at most one result more than faults struck: Celery hands one delivery
\* to one worker, and retry and Ack end the delivery they act on.
THEOREM ResultsPerFault == Spec => []AtMostOncePerFault
<1>1. IInv /\ Once => AtMostOncePerFault
  <2> SUFFICES ASSUME IInv, Once, NEW msg \in published
               PROVE  Cardinality(Running(msg.task)) + Cardinality(Copies(msg.task))
                        + Cardinality(Recorded(msg.task)) <= 1 + faults
    BY DEF AtMostOncePerFault
  <2>1. msg.task \in Nat
    BY DEF IInv, TypeOK, Message
  <2> QED
    BY <2>1 DEF Once
<1> QED
  BY <1>1, InitIInv, NextIInv, InitOrigin, NextOrigin, InitOnce, NextOnce, PTL DEF Spec
=============================================================================
