--------------------------- MODULE SchedulerProofs ---------------------------
(***************************************************************************)
(* Theorems about Scheduler for every number of sweeps, monitors, rows,    *)
(* intervals and batches.                                                  *)
(***************************************************************************)
EXTENDS Scheduler, TLAPS

(* The row operators. *)

\* Writing one schedule's column leaves a row a row and every other column,
\* the other schedule's included, as it was.
LEMMA WithNextAtRow ==
  ASSUME NEW row \in Monitor, NEW kind \in CheckType, NEW t \in Nat
  PROVE  /\ WithNextAt(row, kind, t) \in Monitor
         /\ NextAt(WithNextAt(row, kind, t), kind) = t
         /\ \A k \in CheckType \ {kind} :
              NextAt(WithNextAt(row, kind, t), k) = NextAt(row, k)
         /\ \A k \in CheckType :
              IntervalOf(WithNextAt(row, kind, t), k) = IntervalOf(row, k)
BY DEF Monitor, WithNextAt, NextAt, IntervalOf, CheckType

LEMMA RowTypes ==
  ASSUME NEW row \in Monitor, NEW kind \in CheckType
  PROVE  /\ NextAt(row, kind) \in Nat \cup {NULL}
         /\ IntervalOf(row, kind) \in Intervals \cup {NULL}
BY DEF Monitor, NextAt, IntervalOf, CheckType

LEMMA IntervalTypes == \A i \in Intervals : i \in Nat /\ i > 0
BY IntervalAssumption

-----------------------------------------------------------------------------
(* The local state of a sweep. *)

LEMMA IdleType == IdleSweep \in SweepState
BY SchedulerAssumption DEF IdleSweep, SweepState, CheckType

LEMMA AfterLoopType ==
  ASSUME NEW st \in SweepState
  PROVE  /\ AfterLoop(st) \in SweepState
         /\ AfterLoop(st).rows = {} /\ AfterLoop(st).items = {}
         /\ AfterLoop(st).pc \in {"idle", "select"}
         /\ AfterLoop(st).pc = "select" => AfterLoop(st).now = st.now
<1>1. CASE st.kind = "monitor"
  <2> DEFINE new == [st EXCEPT !.pc = "select", !.kind = "keep_alive",
                               !.batches = sweep_max_batches,
                               !.rows = {}, !.items = {}]
  <2> sweep_max_batches \in 0..sweep_max_batches
    BY SchedulerAssumption
  <2>1. new \in SweepState
    BY DEF SweepState, CheckType
  <2>2. /\ new.rows = {} /\ new.items = {} /\ new.pc = "select"
        /\ new.now = st.now
    BY DEF SweepState
  <2>3. AfterLoop(st) = new
    BY <1>1 DEF AfterLoop
  <2> QED
    BY <2>1, <2>2, <2>3
<1>2. CASE st.kind # "monitor"
  <2>1. AfterLoop(st) = IdleSweep
    BY <1>2 DEF AfterLoop
  <2>2. IdleSweep.rows = {} /\ IdleSweep.items = {} /\ IdleSweep.pc = "idle"
    BY DEF IdleSweep
  <2> QED
    BY <2>1, <2>2, IdleType
<1> QED
  BY <1>1, <1>2

LEMMA AfterBatchType ==
  ASSUME NEW st \in SweepState
  PROVE  /\ AfterBatch(st) \in SweepState
         /\ st.rows = {} => AfterBatch(st).rows = {}
         /\ st.items = {} => AfterBatch(st).items = {}
         /\ AfterBatch(st).pc \in {"idle", "select"}
         /\ AfterBatch(st).pc = "select" => AfterBatch(st).now = st.now
<1>1. CASE st.batches > 1
  <2>1. st.batches - 1 \in 0..sweep_max_batches
    BY <1>1, SchedulerAssumption DEF SweepState
  <2> QED
    BY <1>1, <2>1 DEF AfterBatch, SweepState
<1>2. CASE ~(st.batches > 1)
  BY <1>2, AfterLoopType DEF AfterBatch
<1> QED
  BY <1>1, <1>2

-----------------------------------------------------------------------------
(* Type correctness. *)

LEMMA MessageType ==
  ASSUME NEW id \in Nat, NEW kind \in CheckType, NEW m \in Nat,
         NEW at \in Nat, NEW expires \in Nat
  PROVE  NewMessage(id, kind, m, at, expires) \in Message
BY DEF NewMessage, Message

LEMMA PublishType ==
  ASSUME TypeOK, NEW s \in Sweeps, NEW item \in sweep[s].items, Publish(s, item)
  PROVE  queue' \subseteq Message /\ sent' \in Nat
<1>1. sweep[s].kind \in CheckType /\ item \in Mons \X Intervals
  BY DEF TypeOK, SweepState
<1>a. item[1] \in Mons /\ item[2] \in Intervals
  BY <1>1
<1>b. item[1] \in Nat /\ item[2] \in Nat
  BY <1>a, SchedulerAssumption, IntervalTypes
<1>2. Mon(item) \in Nat /\ clock \in Nat /\ clock + item[2] \in Nat /\ sent \in Nat
  BY <1>b DEF Mon, TypeOK
<1>3. NewMessage(sent, sweep[s].kind, Mon(item), clock, clock + item[2]) \in Message
  BY <1>1, <1>2, MessageType
<1> QED
  BY <1>2, <1>3 DEF Publish, TypeOK

\* What Claim writes: each claimed row one interval past the start of the sweep.
LEMMA ClaimRows ==
  ASSUME TypeOK, NEW s \in Sweeps, Claim(s), NEW m \in Mons
  PROVE  /\ m \notin Claimable(s) => monitors'[m] = monitors[m]
         /\ m \in Claimable(s) =>
              /\ IntervalOf(monitors[m], sweep[s].kind) \in Intervals
              /\ sweep[s].now + IntervalOf(monitors[m], sweep[s].kind) \in Nat
              /\ monitors'[m] = WithNextAt(monitors[m], sweep[s].kind,
                                  sweep[s].now + IntervalOf(monitors[m], sweep[s].kind))
         /\ monitors'[m] \in Monitor
<1>1. /\ monitors[m] \in Monitor /\ DOMAIN monitors = Mons
      /\ sweep[s].kind \in CheckType /\ sweep[s].now \in Nat
  BY DEF TypeOK, SweepState
<1>2. monitors'[m] =
        IF m \in Claimable(s)
        THEN WithNextAt(monitors[m], sweep[s].kind,
                        sweep[s].now + IntervalOf(monitors[m], sweep[s].kind))
        ELSE monitors[m]
  BY <1>1 DEF Claim, NextRun
<1>3. ASSUME m \in Claimable(s)
      PROVE  /\ IntervalOf(monitors[m], sweep[s].kind) \in Intervals
             /\ sweep[s].now + IntervalOf(monitors[m], sweep[s].kind) \in Nat
  BY <1>1, <1>3, RowTypes, IntervalTypes DEF Claimable
<1>4. m \in Claimable(s) =>
        WithNextAt(monitors[m], sweep[s].kind,
                   sweep[s].now + IntervalOf(monitors[m], sweep[s].kind)) \in Monitor
  BY <1>1, <1>3, WithNextAtRow
<1> QED
  BY <1>1, <1>2, <1>3, <1>4

LEMMA ClaimItems ==
  ASSUME TypeOK, NEW s \in Sweeps, Claim(s)
  PROVE  /\ Claimable(s) \subseteq sweep[s].rows /\ Claimable(s) \subseteq Mons
         /\ sweep'[s].items =
              {<<m, IntervalOf(monitors[m], sweep[s].kind)>> : m \in Claimable(s)}
         /\ sweep'[s].items \subseteq Mons \X Intervals
<1>1. Claimable(s) \subseteq sweep[s].rows /\ Claimable(s) \subseteq Mons
  BY DEF Claimable, TypeOK, SweepState
<1>2. sweep'[s].items =
        {<<m, IntervalOf(monitors[m], sweep[s].kind)>> : m \in Claimable(s)}
  BY DEF Claim, NextRun, TypeOK, SweepState
<1>3. \A m \in Claimable(s) : IntervalOf(monitors[m], sweep[s].kind) \in Intervals
  BY <1>1, ClaimRows
<1> QED
  BY <1>1, <1>2, <1>3

\* What Recover writes: the start of the sweep, in the rows of its items.
LEMMA RecoverRows ==
  ASSUME TypeOK, NEW s \in Sweeps, Recover(s), NEW m \in Mons
  PROVE  /\ m \notin ItemMons(s) => monitors'[m] = monitors[m]
         /\ m \in ItemMons(s) =>
              monitors'[m] = WithNextAt(monitors[m], sweep[s].kind, sweep[s].now)
         /\ monitors'[m] \in Monitor
<1>1. /\ monitors[m] \in Monitor /\ DOMAIN monitors = Mons
      /\ sweep[s].kind \in CheckType /\ sweep[s].now \in Nat
  BY DEF TypeOK, SweepState
<1>2. WithNextAt(monitors[m], sweep[s].kind, sweep[s].now) \in Monitor
  BY <1>1, WithNextAtRow
<1> QED
  BY <1>1, <1>2 DEF Recover

LEMMA ItemMonsType ==
  ASSUME TypeOK, NEW s \in Sweeps
  PROVE  ItemMons(s) \subseteq Mons
BY DEF TypeOK, SweepState, ItemMons, Mon

LEMMA TypeStep == TypeOK /\ [Next]_vars => TypeOK'
<1> SUFFICES ASSUME TypeOK, [Next]_vars
             PROVE  TypeOK'
  OBVIOUS
<1> USE DEF TypeOK
<1>1. CASE Tick
  BY <1>1 DEF Tick
<1>2. ASSUME NEW s \in Sweeps, Begin(s)
      PROVE  TypeOK'
  <2>1. sweep_max_batches \in 0..sweep_max_batches
    BY SchedulerAssumption
  <2>2. [IdleSweep EXCEPT !.pc = "select", !.now = clock,
                          !.batches = sweep_max_batches] \in SweepState
    BY <2>1, IdleType DEF SweepState
  <2> QED
    BY <1>2, <2>2 DEF Begin
<1>3. ASSUME NEW s \in Sweeps, SelectNone(s)
      PROVE  TypeOK'
  BY <1>3, AfterLoopType DEF SelectNone
<1>4. ASSUME NEW s \in Sweeps, SelectBatch(s)
      PROVE  TypeOK'
  <2>1. PICK B \in SUBSET DueRows(s) :
          sweep' = [sweep EXCEPT ![s].pc = "claim", ![s].rows = B]
    BY <1>4 DEF SelectBatch
  <2>2. B \in SUBSET Mons
    BY DEF DueRows
  <2>3. sweep'[s] \in SweepState
    BY <2>1, <2>2 DEF SweepState
  <2> QED
    BY <1>4, <2>1, <2>3 DEF SelectBatch
<1>5. ASSUME NEW s \in Sweeps, Claim(s)
      PROVE  TypeOK'
  <2>1. monitors' \in [Mons -> Monitor]
    <3>1. DOMAIN monitors' = Mons /\ monitors' = [m \in Mons |-> monitors'[m]]
      BY <1>5 DEF Claim, NextRun
    <3> QED
      BY <1>5, <3>1, ClaimRows
  <2>2. /\ Claimable(s) \subseteq Mons
        /\ sweep'[s].items \in SUBSET (Mons \X Intervals)
    BY <1>5, ClaimItems
  <2>3. sweep'[s] = [sweep[s] EXCEPT !.pc = "dispatch", !.rows = {},
                                     !.items = sweep'[s].items]
    BY <1>5 DEF Claim, NextRun, SweepState
  <2>4. sweep'[s] \in SweepState
    BY <2>2, <2>3 DEF SweepState
  <2>5. /\ DOMAIN sweep' = Sweeps
        /\ \A t \in Sweeps \ {s} : sweep'[t] = sweep[t]
        /\ sweep' = [t \in Sweeps |-> sweep'[t]]
    BY <1>5 DEF Claim, NextRun
  <2>6. sweep' \in [Sweeps -> SweepState]
    BY <2>4, <2>5
  <2>7. lost' \subseteq CheckType \X Mons
    BY <1>5 DEF Claim, NextRun
  <2> QED
    BY <1>5, <2>1, <2>6, <2>7 DEF Claim, NextRun
<1>6. ASSUME NEW s \in Sweeps, Enqueue(s)
      PROVE  TypeOK'
  <2>1. PICK item \in sweep[s].items :
          /\ Publish(s, item)
          /\ sweep' = [sweep EXCEPT ![s].items = @ \ {item}]
    BY <1>6 DEF Enqueue
  <2>2. queue' \subseteq Message /\ sent' \in Nat
    BY <2>1, PublishType
  <2>3. sweep' \in [Sweeps -> SweepState]
    BY <2>1 DEF SweepState
  <2> QED
    BY <1>6, <2>2, <2>3 DEF Enqueue
<1>7. ASSUME NEW s \in Sweeps, EnqueueFails(s)
      PROVE  TypeOK'
  <2>1. PICK item \in sweep[s].items :
          /\ Publish(s, item) \/ UNCHANGED <<queue, sent>>
          /\ sweep' = [sweep EXCEPT ![s].pc = "recover", ![s].items = sweep[s].items]
    BY <1>7 DEF EnqueueFails, Failed
  <2>2. queue' \subseteq Message /\ sent' \in Nat
    BY <2>1, PublishType
  <2>3. sweep' \in [Sweeps -> SweepState]
    <3>1. sweep[s] \in SweepState
      OBVIOUS
    <3>2. [sweep[s] EXCEPT !.pc = "recover", !.items = sweep[s].items] \in SweepState
      BY <3>1 DEF SweepState
    <3> QED
      BY <2>1, <3>2
  <2> QED
    BY <1>7, <2>2, <2>3 DEF EnqueueFails, Failed
<1>8. ASSUME NEW s \in Sweeps, EndBatch(s)
      PROVE  TypeOK'
  <2>1. AfterBatch(sweep[s]) \in SweepState
    BY <1>8, AfterBatchType DEF EndBatch
  <2> QED
    BY <1>8, <2>1 DEF EndBatch
<1>9. ASSUME NEW s \in Sweeps, Recover(s)
      PROVE  TypeOK'
  <2>1. monitors' \in [Mons -> Monitor]
    <3>1. DOMAIN monitors' = Mons /\ monitors' = [m \in Mons |-> monitors'[m]]
      BY <1>9 DEF Recover
    <3> QED
      BY <1>9, <3>1, RecoverRows
  <2> QED
    BY <1>9, <2>1, AfterLoopType DEF Recover
<1>10. ASSUME NEW s \in Sweeps, RecoverFails(s)
       PROVE  TypeOK'
  <2>1. {sweep[s].kind} \X ItemMons(s) \subseteq CheckType \X Mons
    BY ItemMonsType DEF SweepState
  <2> QED
    BY <1>10, <2>1, AfterLoopType DEF RecoverFails
<1>11. ASSUME NEW s \in Sweeps, Crash(s)
       PROVE  TypeOK'
  <2>1. {sweep[s].kind} \X ItemMons(s) \subseteq CheckType \X Mons
    BY ItemMonsType DEF SweepState
  <2> QED
    BY <1>11, <2>1, IdleType DEF Crash
<1>12. CASE UNCHANGED vars
  BY <1>12 DEF vars
<1> QED
  BY <1>1, <1>2, <1>3, <1>4, <1>5, <1>6, <1>7, <1>8, <1>9, <1>10, <1>11, <1>12
     DEF Next, Step

\* The type invariant is inductive: no step of the code leaves the declared
\* shape of rows, messages and sweep states.
THEOREM TypeCorrect == Spec => []TypeOK
<1>1. Init => TypeOK
  BY SchedulerAssumption, IdleType DEF Init, TypeOK
<1> QED
  BY <1>1, TypeStep, PTL DEF Spec

-----------------------------------------------------------------------------
(* The inductive invariant behind the safety properties.  A sweep that is   *)
(* alive is younger than every interval, so a time it has written is still  *)
(* in the future and no other sweep can find that row due; a row between    *)
(* its locking read and the commit stays due because nobody else may write  *)
(* it.                                                                      *)

SweepShape ==
  \A s \in Sweeps :
    /\ sweep[s].pc # "claim" => sweep[s].rows = {}
    /\ sweep[s].pc \notin {"dispatch", "recover"} => sweep[s].items = {}
    /\ sweep[s].pc # "idle" => /\ sweep[s].now <= clock
                               /\ clock < sweep[s].now + HardLimit

LocksDisjoint ==
  \A s, t \in Sweeps : s # t => sweep[s].rows \cap sweep[t].rows = {}

LockedDue ==
  \A s \in Sweeps : \A m \in sweep[s].rows :
    Due(monitors[m], sweep[s].kind, sweep[s].now)

IInv == TypeOK /\ SweepShape /\ LocksDisjoint /\ LockedDue /\ HeldIsOwn /\ DisjointHoldings

\* Due depends on the columns Claim and Recover do not write for other kinds.
LEMMA DueOfOther ==
  ASSUME NEW row \in Monitor, NEW kind \in CheckType, NEW k \in CheckType \ {kind},
         NEW t \in Nat, NEW now \in Nat
  PROVE  Due(WithNextAt(row, kind, t), k, now) = Due(row, k, now)
BY DEF Monitor, WithNextAt, Due, NextAt, CheckType

\* A row one sweep holds unpublished is not due for any sweep of its kind.
LEMMA HeldNotDue ==
  ASSUME LimitBelowIntervals, IInv, NEW s \in Sweeps, NEW t \in Sweeps,
         sweep[s].kind = sweep[t].kind, sweep[t].pc # "idle", NEW m \in ItemMons(s)
  PROVE  ~Due(monitors[m], sweep[t].kind, sweep[t].now)
<1>1. PICK item \in sweep[s].items : m = Mon(item)
  BY DEF ItemMons
<1>2. /\ item \in Mons \X Intervals /\ item[2] \in Intervals
      /\ sweep[s].now \in Nat /\ sweep[t].now \in Nat /\ clock \in Nat
      /\ HardLimit \in Nat
  BY SchedulerAssumption DEF IInv, TypeOK, SweepState
<1>3. NextAt(monitors[m], sweep[s].kind) = sweep[s].now + item[2]
  BY <1>1 DEF IInv, HeldIsOwn
<1>4. sweep[s].pc # "idle"
  BY <1>1 DEF IInv, SweepShape
<1>5. /\ clock < sweep[s].now + HardLimit /\ sweep[t].now <= clock
  BY <1>4 DEF IInv, SweepShape
<1>6. HardLimit <= item[2] /\ item[2] \in Nat
  BY <1>2, IntervalTypes DEF LimitBelowIntervals
<1>7. ~(sweep[s].now + item[2] <= sweep[t].now)
  BY <1>2, <1>5, <1>6
<1> QED
  BY <1>3, <1>7 DEF Due

Rest == SweepShape /\ LocksDisjoint /\ LockedDue /\ HeldIsOwn /\ DisjointHoldings

\* A step that touches no row and only lets sweep s drop some of what it holds.
LEMMA LocalStep ==
  ASSUME IInv, TypeOK', NEW s \in Sweeps,
         monitors' = monitors, clock' = clock,
         \A t \in Sweeps \ {s} : sweep'[t] = sweep[t],
         sweep'[s].rows \subseteq sweep[s].rows,
         sweep'[s].items \subseteq sweep[s].items,
         sweep'[s].rows # {} \/ sweep'[s].items # {} =>
           sweep'[s].kind = sweep[s].kind /\ sweep'[s].now = sweep[s].now,
         sweep'[s].pc # "claim" => sweep'[s].rows = {},
         sweep'[s].pc \notin {"dispatch", "recover"} => sweep'[s].items = {},
         sweep'[s].pc # "idle" =>
           sweep'[s].now <= clock /\ clock < sweep'[s].now + HardLimit
  PROVE  Rest'
<1>1. \A t \in Sweeps : /\ sweep'[t].rows \subseteq sweep[t].rows
                        /\ sweep'[t].items \subseteq sweep[t].items
                        /\ sweep'[t].rows # {} \/ sweep'[t].items # {} =>
                             /\ sweep'[t].kind = sweep[t].kind
                             /\ sweep'[t].now = sweep[t].now
  OBVIOUS
<1>2. SweepShape'
  BY DEF IInv, SweepShape
<1>3. LocksDisjoint'
  BY <1>1 DEF IInv, LocksDisjoint
<1>4. LockedDue'
  BY <1>1 DEF IInv, LockedDue
<1>5. HeldIsOwn'
  BY <1>1 DEF IInv, HeldIsOwn
<1>6. DisjointHoldings'
  <2> SUFFICES ASSUME NEW t \in Sweeps, NEW u \in Sweeps, t # u,
                      sweep'[t].kind = sweep'[u].kind,
                      NEW m \in Holding(t)' \cap Holding(u)'
               PROVE  FALSE
    BY DEF DisjointHoldings
  <2>1. m \in Holding(t) /\ m \in Holding(u)
    BY <1>1 DEF Holding, ItemMons
  <2>2. sweep[t].kind = sweep[u].kind
    BY <1>1 DEF Holding, ItemMons
  <2> QED
    BY <2>1, <2>2 DEF IInv, DisjointHoldings
<1> QED
  BY <1>2, <1>3, <1>4, <1>5, <1>6 DEF Rest

LEMMA LocalSteps ==
  ASSUME IInv, TypeOK', NEW s \in Sweeps,
         \/ Begin(s) \/ SelectNone(s) \/ Enqueue(s) \/ EnqueueFails(s)
         \/ EndBatch(s) \/ RecoverFails(s) \/ Crash(s)
  PROVE  Rest'
<1> USE DEF IInv, TypeOK
<1>a. sweep[s] \in SweepState /\ clock \in Nat /\ HardLimit \in Nat \ {0}
  BY SchedulerAssumption
<1>b. /\ sweep[s].pc # "claim" => sweep[s].rows = {}
      /\ sweep[s].pc \notin {"dispatch", "recover"} => sweep[s].items = {}
      /\ sweep[s].pc # "idle" => /\ sweep[s].now <= clock
                                 /\ clock < sweep[s].now + HardLimit
  BY DEF SweepShape
<1>1. CASE Begin(s)
  <2>1. sweep'[s] = [IdleSweep EXCEPT !.pc = "select", !.now = clock,
                                      !.batches = sweep_max_batches]
    BY <1>1 DEF Begin
  <2>2. /\ sweep'[s].rows = {} /\ sweep'[s].items = {} /\ sweep'[s].now = clock
        /\ sweep'[s].pc = "select"
    BY <2>1 DEF IdleSweep
  <2>3. clock < clock + HardLimit
    BY <1>a
  <2>4. /\ monitors' = monitors /\ clock' = clock
        /\ \A t \in Sweeps \ {s} : sweep'[t] = sweep[t]
    BY <1>1 DEF Begin
  <2> QED
    BY <1>a, <2>2, <2>3, <2>4, LocalStep
<1>2. CASE SelectNone(s) \/ RecoverFails(s)
  <2>1. sweep'[s] = AfterLoop(sweep[s])
    BY <1>2 DEF SelectNone, RecoverFails
  <2>2. /\ monitors' = monitors /\ clock' = clock
        /\ \A t \in Sweeps \ {s} : sweep'[t] = sweep[t]
        /\ sweep[s].pc # "idle"
    BY <1>2 DEF SelectNone, RecoverFails
  <2>3. /\ sweep'[s].rows = {} /\ sweep'[s].items = {}
        /\ sweep'[s].pc \in {"idle", "select"}
        /\ sweep'[s].pc = "select" => sweep'[s].now = sweep[s].now
    BY <1>a, <2>1, AfterLoopType
  <2> QED
    BY <1>b, <2>2, <2>3, LocalStep
<1>3. CASE Enqueue(s)
  <2>1. PICK item \in sweep[s].items :
          sweep' = [sweep EXCEPT ![s].items = @ \ {item}]
    BY <1>3 DEF Enqueue
  <2>2. /\ sweep'[s].rows = sweep[s].rows /\ sweep'[s].items \subseteq sweep[s].items
        /\ sweep'[s].pc = sweep[s].pc /\ sweep'[s].now = sweep[s].now
        /\ sweep'[s].kind = sweep[s].kind
    BY <1>a, <2>1 DEF SweepState
  <2>3. /\ monitors' = monitors /\ clock' = clock
        /\ \A t \in Sweeps \ {s} : sweep'[t] = sweep[t]
    BY <1>3 DEF Enqueue
  <2> QED
    BY <1>b, <2>2, <2>3, LocalStep
<1>4. CASE EnqueueFails(s)
  <2>1. sweep' = [sweep EXCEPT ![s].pc = "recover"]
    BY <1>4 DEF EnqueueFails, Failed
  <2>2. /\ sweep'[s].rows = sweep[s].rows /\ sweep'[s].items = sweep[s].items
        /\ sweep'[s].pc = "recover" /\ sweep'[s].now = sweep[s].now
        /\ sweep'[s].kind = sweep[s].kind
    BY <1>a, <2>1 DEF SweepState
  <2>3. /\ monitors' = monitors /\ clock' = clock /\ sweep[s].pc = "dispatch"
        /\ \A t \in Sweeps \ {s} : sweep'[t] = sweep[t]
    BY <1>4 DEF EnqueueFails, Failed
  <2> QED
    BY <1>b, <2>2, <2>3, LocalStep
<1>5. CASE EndBatch(s)
  <2>1. sweep'[s] = AfterBatch(sweep[s]) /\ sweep[s].items = {} /\ sweep[s].rows = {}
    BY <1>5, <1>b DEF EndBatch
  <2>2. /\ monitors' = monitors /\ clock' = clock /\ sweep[s].pc = "dispatch"
        /\ \A t \in Sweeps \ {s} : sweep'[t] = sweep[t]
    BY <1>5 DEF EndBatch
  <2>3. /\ sweep'[s].rows = {} /\ sweep'[s].items = {}
        /\ sweep'[s].pc \in {"idle", "select"}
        /\ sweep'[s].pc = "select" => sweep'[s].now = sweep[s].now
    BY <1>a, <2>1, AfterBatchType
  <2> QED
    BY <1>b, <2>1, <2>2, <2>3, LocalStep
<1>6. CASE Crash(s)
  <2>1. sweep'[s] = IdleSweep
    BY <1>6 DEF Crash
  <2>2. sweep'[s].rows = {} /\ sweep'[s].items = {} /\ sweep'[s].pc = "idle"
    BY <2>1 DEF IdleSweep
  <2>3. /\ monitors' = monitors /\ clock' = clock
        /\ \A t \in Sweeps \ {s} : sweep'[t] = sweep[t]
    BY <1>6 DEF Crash
  <2> QED
    BY <2>2, <2>3, LocalStep
<1> QED
  BY <1>1, <1>2, <1>3, <1>4, <1>5, <1>6

LEMMA SelectBatchStep ==
  ASSUME LimitBelowIntervals, IInv, TypeOK', NEW s \in Sweeps, SelectBatch(s)
  PROVE  Rest'
<1> USE DEF IInv, TypeOK
<1>1. PICK B \in SUBSET DueRows(s) :
        sweep' = [sweep EXCEPT ![s].pc = "claim", ![s].rows = B]
  BY DEF SelectBatch
<1>2. /\ sweep'[s].pc = "claim" /\ sweep'[s].rows = B
      /\ sweep'[s].items = sweep[s].items /\ sweep'[s].kind = sweep[s].kind
      /\ sweep'[s].now = sweep[s].now
      /\ \A t \in Sweeps \ {s} : sweep'[t] = sweep[t]
  BY <1>1 DEF SweepState
<1>3. /\ monitors' = monitors /\ clock' = clock /\ sweep[s].pc = "select"
      /\ sweep[s].items = {}
  BY DEF SelectBatch, SweepShape
<1>4. \A m \in B : /\ m \in Mons /\ Due(monitors[m], sweep[s].kind, sweep[s].now)
                   /\ \A t \in Sweeps : m \notin sweep[t].rows
  BY DEF DueRows, Locked
<1>5. SweepShape'
  BY <1>2, <1>3 DEF SweepShape
<1>6. LocksDisjoint'
  BY <1>2, <1>4 DEF LocksDisjoint
<1>7. LockedDue'
  BY <1>2, <1>3, <1>4 DEF LockedDue
<1>8. HeldIsOwn'
  BY <1>2, <1>3 DEF HeldIsOwn
<1>9. \A t \in Sweeps \ {s} :
        sweep[t].kind = sweep[s].kind => B \cap ItemMons(t) = {}
  BY <1>3, <1>4, HeldNotDue
<1>10. \A t \in Sweeps \ {s} : Holding(t)' = Holding(t) /\ sweep'[t].kind = sweep[t].kind
  BY <1>2 DEF Holding, ItemMons
<1>11. Holding(s)' = B
  BY <1>2, <1>3 DEF Holding, ItemMons
<1>12. \A t \in Sweeps \ {s} : sweep[t].kind = sweep[s].kind => B \cap Holding(t) = {}
  BY <1>4, <1>9 DEF Holding
<1>13. DisjointHoldings'
  BY <1>2, <1>10, <1>11, <1>12 DEF DisjointHoldings
<1> QED
  BY <1>5, <1>6, <1>7, <1>8, <1>13 DEF Rest

LEMMA ClaimStep ==
  ASSUME IInv, TypeOK', NEW s \in Sweeps, Claim(s)
  PROVE  Rest'
<1> USE DEF IInv, TypeOK
<1> DEFINE kind == sweep[s].kind
<1>1. /\ sweep'[s].pc = "dispatch" /\ sweep'[s].rows = {}
      /\ sweep'[s].kind = kind /\ sweep'[s].now = sweep[s].now
      /\ \A t \in Sweeps \ {s} : sweep'[t] = sweep[t]
      /\ clock' = clock /\ sweep[s].pc = "claim"
  BY DEF Claim, NextRun, SweepState
<1>2. /\ Claimable(s) \subseteq sweep[s].rows /\ Claimable(s) \subseteq Mons
      /\ sweep'[s].items = {<<m, IntervalOf(monitors[m], kind)>> : m \in Claimable(s)}
  BY ClaimItems
<1>3. /\ kind \in CheckType /\ monitors \in [Mons -> Monitor]
      /\ \A t \in Sweeps : /\ sweep[t].kind \in CheckType /\ sweep[t].now \in Nat
                           /\ sweep[t].rows \subseteq Mons
                           /\ sweep[t].items \subseteq Mons \X Intervals
  BY DEF SweepState
<1>4. ItemMons(s)' = Claimable(s)
  <2>1. ItemMons(s)' = {item[1] : item \in sweep'[s].items}
    BY DEF ItemMons, Mon
  <2>2. \A m \in Claimable(s) :
          /\ <<m, IntervalOf(monitors[m], kind)>> \in sweep'[s].items
          /\ <<m, IntervalOf(monitors[m], kind)>>[1] = m
    BY <1>2
  <2>3. \A item \in sweep'[s].items : item[1] \in Claimable(s)
    BY <1>2
  <2>4. ItemMons(s)' \subseteq Claimable(s)
    BY <2>1, <2>3
  <2>5. Claimable(s) \subseteq ItemMons(s)'
    <3> SUFFICES ASSUME NEW m \in Claimable(s)
                 PROVE  m \in ItemMons(s)'
      OBVIOUS
    <3> QED
      BY <2>1, <2>2
  <2> QED
    BY <2>4, <2>5
<1>5. \A t \in Sweeps \ {s} : ItemMons(t)' = ItemMons(t)
  BY <1>1 DEF ItemMons
\* the schedules of rows and kinds this claim does not concern stay
<1>6. ASSUME NEW m \in Mons, NEW k \in CheckType, m \notin Claimable(s) \/ k # kind
      PROVE  NextAt(monitors'[m], k) = NextAt(monitors[m], k)
  <2>1. CASE m \notin Claimable(s)
    BY <2>1, ClaimRows
  <2>2. CASE m \in Claimable(s)
    <3>1. /\ k \in CheckType \ {kind} /\ monitors[m] \in Monitor
          /\ sweep[s].now + IntervalOf(monitors[m], kind) \in Nat
          /\ monitors'[m] = WithNextAt(monitors[m], kind,
                                       sweep[s].now + IntervalOf(monitors[m], kind))
      BY <1>3, <1>6, <2>2, ClaimRows
    <3> QED
      BY <1>3, <3>1, WithNextAtRow
  <2> QED
    BY <2>1, <2>2
<1>7. SweepShape'
  BY <1>1 DEF SweepShape
<1>8. LocksDisjoint'
  BY <1>1 DEF LocksDisjoint
<1>9. LockedDue'
  <2> SUFFICES ASSUME NEW t \in Sweeps, NEW m \in sweep'[t].rows
               PROVE  Due(monitors'[m], sweep'[t].kind, sweep'[t].now)
    BY DEF LockedDue
  <2>1. t # s /\ m \in sweep[t].rows /\ sweep'[t] = sweep[t]
    BY <1>1
  <2>2. m \notin Claimable(s) /\ m \in Mons
    BY <1>2, <1>3, <2>1 DEF LocksDisjoint
  <2>3. monitors'[m] = monitors[m]
    BY <2>2, ClaimRows
  <2> QED
    BY <2>1, <2>3 DEF LockedDue
<1>10. HeldIsOwn'
  <2> SUFFICES ASSUME NEW t \in Sweeps, NEW item \in sweep'[t].items
               PROVE  NextAt(monitors'[Mon(item)], sweep'[t].kind) = sweep'[t].now + item[2]
    BY DEF HeldIsOwn
  <2>1. CASE t = s
    <3>1. PICK m \in Claimable(s) : item = <<m, IntervalOf(monitors[m], kind)>>
      BY <1>2, <2>1
    <3>2. NextAt(monitors'[m], kind) = sweep[s].now + IntervalOf(monitors[m], kind)
      BY <1>2, <1>3, ClaimRows, WithNextAtRow
    <3> QED
      BY <1>1, <2>1, <3>1, <3>2 DEF Mon
  <2>2. CASE t # s
    <3>1. item \in sweep[t].items /\ sweep'[t] = sweep[t] /\ Mon(item) \in Mons
      BY <1>1, <1>3, <2>2 DEF Mon
    <3>2. Mon(item) \notin Claimable(s) \/ sweep[t].kind # kind
      BY <1>2, <2>2, <3>1 DEF DisjointHoldings, Holding, ItemMons
    <3>3. NextAt(monitors'[Mon(item)], sweep[t].kind) = NextAt(monitors[Mon(item)], sweep[t].kind)
      BY <1>3, <1>6, <3>1, <3>2
    <3> QED
      BY <3>1, <3>3 DEF HeldIsOwn
  <2> QED
    BY <2>1, <2>2
<1>11. DisjointHoldings'
  <2>1. Holding(s)' \subseteq Holding(s)
    BY <1>1, <1>2, <1>4 DEF Holding
  <2>2. \A t \in Sweeps \ {s} : Holding(t)' = Holding(t)
    BY <1>1, <1>5 DEF Holding
  <2> QED
    BY <1>1, <2>1, <2>2 DEF DisjointHoldings
<1> QED
  BY <1>7, <1>8, <1>9, <1>10, <1>11 DEF Rest

LEMMA RecoverStep ==
  ASSUME IInv, TypeOK', NEW s \in Sweeps, Recover(s)
  PROVE  Rest'
<1> USE DEF IInv, TypeOK
<1>1. /\ sweep'[s] = AfterLoop(sweep[s]) /\ clock' = clock /\ sweep[s].pc = "recover"
      /\ \A t \in Sweeps \ {s} : sweep'[t] = sweep[t]
  BY DEF Recover
<1>2. /\ sweep'[s].rows = {} /\ sweep'[s].items = {}
      /\ sweep'[s].pc \in {"idle", "select"}
      /\ sweep'[s].pc = "select" => sweep'[s].now = sweep[s].now
  BY <1>1, AfterLoopType
<1>3. /\ ItemMons(s) \subseteq Mons /\ monitors \in [Mons -> Monitor]
      /\ \A t \in Sweeps : /\ sweep[t].kind \in CheckType /\ sweep[t].now \in Nat
                           /\ sweep[t].rows \subseteq Mons
                           /\ sweep[t].items \subseteq Mons \X Intervals
  BY ItemMonsType DEF SweepState
<1>4. SweepShape'
  BY <1>1, <1>2 DEF SweepShape
<1>5. LocksDisjoint'
  BY <1>1, <1>2 DEF LocksDisjoint
<1>6. LockedDue'
  <2> SUFFICES ASSUME NEW t \in Sweeps, NEW m \in sweep'[t].rows
               PROVE  Due(monitors'[m], sweep'[t].kind, sweep'[t].now)
    BY DEF LockedDue
  <2>1. t # s /\ m \in sweep[t].rows /\ sweep'[t] = sweep[t]
    BY <1>1, <1>2
  <2>2. m \notin ItemMons(s) /\ m \in Mons
    BY <1>3, <2>1 DEF Recover, Locked
  <2>3. monitors'[m] = monitors[m]
    BY <2>2, RecoverRows
  <2> QED
    BY <2>1, <2>3 DEF LockedDue
<1>7. HeldIsOwn'
  <2> SUFFICES ASSUME NEW t \in Sweeps, NEW item \in sweep'[t].items
               PROVE  NextAt(monitors'[Mon(item)], sweep'[t].kind) = sweep'[t].now + item[2]
    BY DEF HeldIsOwn
  <2>1. t # s /\ item \in sweep[t].items /\ sweep'[t] = sweep[t] /\ Mon(item) \in Mons
    BY <1>1, <1>2, <1>3 DEF Mon
  <2>2. Mon(item) \notin ItemMons(s) \/ sweep[t].kind # sweep[s].kind
    BY <2>1 DEF DisjointHoldings, Holding, ItemMons
  <2>3. NextAt(monitors'[Mon(item)], sweep[t].kind) = NextAt(monitors[Mon(item)], sweep[t].kind)
    <3>1. CASE Mon(item) \notin ItemMons(s)
      BY <2>1, <3>1, RecoverRows
    <3>2. CASE Mon(item) \in ItemMons(s)
      <4>1. /\ sweep[t].kind \in CheckType \ {sweep[s].kind}
            /\ sweep[s].now \in Nat /\ monitors[Mon(item)] \in Monitor
            /\ monitors'[Mon(item)] =
                 WithNextAt(monitors[Mon(item)], sweep[s].kind, sweep[s].now)
        BY <1>3, <2>1, <2>2, <3>2, RecoverRows
      <4> QED
        BY <1>3, <4>1, WithNextAtRow
    <3> QED
      BY <3>1, <3>2
  <2> QED
    BY <2>1, <2>3 DEF HeldIsOwn
<1>8. DisjointHoldings'
  <2>1. Holding(s)' = {}
    BY <1>2 DEF Holding, ItemMons
  <2>2. \A t \in Sweeps \ {s} : Holding(t)' = Holding(t) /\ sweep'[t].kind = sweep[t].kind
    BY <1>1 DEF Holding, ItemMons
  <2> QED
    BY <2>1, <2>2 DEF DisjointHoldings
<1> QED
  BY <1>4, <1>5, <1>6, <1>7, <1>8 DEF Rest

\* Time passes only while every live sweep stays younger than the hard limit.
LEMMA TickStep ==
  ASSUME IInv, TypeOK', Tick \/ UNCHANGED vars
  PROVE  Rest'
<1>1. sweep' = sweep /\ monitors' = monitors
  BY DEF Tick, vars
<1>2. SweepShape'
  <2>1. clock \in Nat /\ \A s \in Sweeps : sweep[s].now \in Nat
    BY DEF IInv, TypeOK, SweepState
  <2>2. clock' \in {clock, clock + 1}
    BY DEF Tick, vars
  <2>3. \A s \in Sweeps : sweep[s].pc # "idle" => clock' < sweep[s].now + HardLimit
    BY DEF Tick, vars, IInv, SweepShape
  <2> QED
    BY <1>1, <2>1, <2>2, <2>3 DEF IInv, SweepShape
<1>3. /\ LocksDisjoint' /\ LockedDue' /\ HeldIsOwn' /\ DisjointHoldings'
  BY <1>1 DEF IInv, LocksDisjoint, LockedDue, HeldIsOwn, DisjointHoldings,
              Holding, ItemMons
<1> QED
  BY <1>2, <1>3 DEF Rest

LEMMA IInvStep == LimitBelowIntervals /\ IInv /\ [Next]_vars => IInv'
<1> SUFFICES ASSUME LimitBelowIntervals, IInv, [Next]_vars
             PROVE  IInv'
  OBVIOUS
<1>1. TypeOK'
  BY TypeStep DEF IInv
<1>2. Rest'
  BY <1>1, LocalSteps, SelectBatchStep, ClaimStep, RecoverStep, TickStep DEF Next, Step
<1> QED
  BY <1>1, <1>2 DEF IInv, Rest

LEMMA IInvInit == Init => IInv
<1> SUFFICES ASSUME Init
             PROVE  IInv
  OBVIOUS
<1>1. TypeOK
  BY SchedulerAssumption, IdleType DEF Init, TypeOK
<1>2. \A s \in Sweeps : /\ sweep[s].pc = "idle" /\ sweep[s].rows = {}
                        /\ sweep[s].items = {}
  BY DEF Init, IdleSweep
<1> QED
  BY <1>1, <1>2 DEF IInv, SweepShape, LocksDisjoint, LockedDue, HeldIsOwn,
                    DisjointHoldings, Holding, ItemMons

-----------------------------------------------------------------------------
(* The results. *)

\* While the hard time limit is no longer than any interval, no two sweeps
\* ever hold the same row of the same schedule, however many run.
THEOREM NoDoubleClaim ==
  ASSUME LimitBelowIntervals
  PROVE  Spec => []DisjointHoldings
<1>1. IInv => DisjointHoldings
  BY DEF IInv
<1> QED
  BY <1>1, IInvInit, IInvStep, PTL DEF Spec

\* Under the same condition a sweep's reset can only undo its own claim.
THEOREM RecoveryIsOwn ==
  ASSUME LimitBelowIntervals
  PROVE  Spec => []HeldIsOwn
<1>1. IInv => HeldIsOwn
  BY DEF IInv
<1> QED
  BY <1>1, IInvInit, IInvStep, PTL DEF Spec

-----------------------------------------------------------------------------
(* Next-run columns.  Each item still carries the interval of its row. *)

\* No step of a sweep changes how often a row runs.
LEMMA IntervalsStay ==
  ASSUME TypeOK, [Next]_vars, NEW m \in Mons, NEW k \in CheckType
  PROVE  IntervalOf(monitors'[m], k) = IntervalOf(monitors[m], k)
<1>1. /\ monitors[m] \in Monitor
      /\ \A s \in Sweeps : sweep[s].kind \in CheckType /\ sweep[s].now \in Nat
  BY DEF TypeOK, SweepState
<1>2. ASSUME NEW s \in Sweeps, Claim(s)
      PROVE  IntervalOf(monitors'[m], k) = IntervalOf(monitors[m], k)
  BY <1>1, <1>2, ClaimRows, WithNextAtRow
<1>3. ASSUME NEW s \in Sweeps, Recover(s)
      PROVE  IntervalOf(monitors'[m], k) = IntervalOf(monitors[m], k)
  BY <1>1, <1>3, RecoverRows, WithNextAtRow
<1>4. \/ monitors' = monitors \/ \E s \in Sweeps : Claim(s) \/ Recover(s)
  BY DEF Next, Step, Tick, Begin, SelectNone, SelectBatch, Enqueue, EnqueueFails,
         EndBatch, RecoverFails, Crash, vars
<1> QED
  BY <1>2, <1>3, <1>4

ItemsCurrent ==
  \A s \in Sweeps : \A item \in sweep[s].items :
    IntervalOf(monitors[Mon(item)], sweep[s].kind) = item[2]

LEMMA ItemsCurrentStep ==
  ASSUME IInv, ItemsCurrent, [Next]_vars
  PROVE  ItemsCurrent'
<1> SUFFICES ASSUME NEW s \in Sweeps, NEW item \in sweep'[s].items
             PROVE  IntervalOf(monitors'[Mon(item)], sweep'[s].kind) = item[2]
  BY DEF ItemsCurrent
<1>1. /\ TypeOK /\ TypeOK'
  BY TypeStep DEF IInv
<1>2. Mon(item) \in Mons /\ sweep'[s].kind \in CheckType /\ sweep[s] \in SweepState
  BY <1>1 DEF TypeOK, SweepState, Mon
<1>3. IntervalOf(monitors'[Mon(item)], sweep'[s].kind)
        = IntervalOf(monitors[Mon(item)], sweep'[s].kind)
  BY <1>1, <1>2, IntervalsStay
<1>4. CASE item \in sweep[s].items /\ sweep'[s].kind = sweep[s].kind
  BY <1>3, <1>4 DEF ItemsCurrent
<1>5. CASE Claim(s)
  <2>1. PICK m \in Claimable(s) : item = <<m, IntervalOf(monitors[m], sweep[s].kind)>>
    BY <1>1, <1>5, ClaimItems
  <2>2. sweep'[s].kind = sweep[s].kind
    BY <1>1, <1>5 DEF Claim, TypeOK, SweepState
  <2> QED
    BY <1>3, <2>1, <2>2 DEF Mon
<1>6. ASSUME ~Claim(s)
      PROVE  item \in sweep[s].items /\ sweep'[s].kind = sweep[s].kind
  <2>1. CASE sweep'[s] = sweep[s]
    BY <2>1
  <2>2. CASE Begin(s) \/ Crash(s)
    <3>1. CASE Begin(s)
      <4>1. sweep'[s] = [IdleSweep EXCEPT !.pc = "select", !.now = clock,
                                          !.batches = sweep_max_batches]
        BY <1>1, <3>1 DEF Begin, TypeOK
      <4> QED
        BY <4>1 DEF IdleSweep
    <3>2. CASE Crash(s)
      BY <1>1, <3>2 DEF Crash, IdleSweep, TypeOK
    <3> QED
      BY <2>2, <3>1, <3>2
  <2>3. CASE SelectNone(s) \/ Recover(s) \/ RecoverFails(s)
    <3>1. sweep'[s] = AfterLoop(sweep[s])
      BY <1>1, <2>3 DEF SelectNone, Recover, RecoverFails, TypeOK
    <3> QED
      BY <1>2, <3>1, AfterLoopType
  <2>4. CASE SelectBatch(s)
    BY <1>1, <1>2, <2>4 DEF SelectBatch, TypeOK, SweepState
  <2>5. CASE Enqueue(s)
    BY <1>1, <1>2, <2>5 DEF Enqueue, TypeOK, SweepState
  <2>6. CASE EnqueueFails(s)
    BY <1>1, <1>2, <2>6 DEF EnqueueFails, Failed, TypeOK, SweepState
  <2>7. CASE EndBatch(s)
    <3>1. sweep'[s] = AfterBatch(sweep[s]) /\ sweep[s].items = {}
      BY <1>1, <2>7 DEF EndBatch, TypeOK
    <3> QED
      BY <1>2, <3>1, AfterBatchType
  <2>8. ASSUME NEW t \in Sweeps \ {s},
               \/ Begin(t) \/ Step(t) \/ EnqueueFails(t) \/ RecoverFails(t) \/ Crash(t)
        PROVE  sweep'[s] = sweep[s]
    BY <1>1, <2>8 DEF Begin, Step, SelectNone, SelectBatch, Claim, Enqueue, EndBatch,
       Recover, EnqueueFails, RecoverFails, Crash, TypeOK
  <2>9. CASE Tick \/ UNCHANGED vars
    BY <2>1, <2>9 DEF Tick, vars
  <2>10. CASE \E t \in Sweeps : \/ Begin(t) \/ Step(t) \/ EnqueueFails(t)
                                \/ RecoverFails(t) \/ Crash(t)
    <3>1. PICK t \in Sweeps : \/ Begin(t) \/ Step(t) \/ EnqueueFails(t)
                              \/ RecoverFails(t) \/ Crash(t)
      BY <2>10
    <3>2. CASE t # s
      BY <2>1, <2>8, <3>1, <3>2
    <3>3. CASE t = s
      BY <1>6, <2>2, <2>3, <2>4, <2>5, <2>6, <2>7, <3>1, <3>3 DEF Step
    <3> QED
      BY <3>2, <3>3
  <2> QED
    BY <2>9, <2>10 DEF Next
<1> QED
  BY <1>4, <1>5, <1>6

\* The step behind NextRunOnlyClaimedOrGivenBack.
ClaimedOrGivenBack(m, kind) ==
  LET interval == IntervalOf(monitors[m], kind)
      old == NextAt(monitors[m], kind)
      new == NextAt(monitors'[m], kind)
  IN new # old => \/ old <= clock /\ clock < new /\ new <= clock + interval
                  \/ clock < old /\ new = old - interval

LEMMA ClaimMoves ==
  ASSUME LimitBelowIntervals, IInv, NEW s \in Sweeps, Claim(s),
         NEW m \in Mons, NEW k \in CheckType
  PROVE  ClaimedOrGivenBack(m, k)
<1> DEFINE kind == sweep[s].kind
           i == IntervalOf(monitors[m], kind)
<1>1. /\ TypeOK /\ monitors[m] \in Monitor /\ kind \in CheckType
      /\ sweep[s].now \in Nat /\ clock \in Nat /\ HardLimit \in Nat
      /\ sweep[s].now <= clock /\ clock < sweep[s].now + HardLimit
  BY SchedulerAssumption DEF IInv, TypeOK, SweepState, SweepShape, Claim
<1>2. CASE m \notin Claimable(s)
  BY <1>1, <1>2, ClaimRows DEF ClaimedOrGivenBack
<1>3. CASE m \in Claimable(s)
  <2>1. /\ i \in Nat /\ HardLimit <= i
        /\ monitors'[m] = WithNextAt(monitors[m], kind, sweep[s].now + i)
    BY <1>1, <1>3, ClaimRows, IntervalTypes DEF LimitBelowIntervals
  <2>2. CASE k # kind
    <3>1. k \in CheckType \ {kind}
      BY <2>2
    <3> QED
      BY <1>1, <2>1, <3>1, WithNextAtRow DEF ClaimedOrGivenBack
  <2>3. CASE k = kind
    <3>1. NextAt(monitors'[m], kind) = sweep[s].now + i
      BY <1>1, <2>1, WithNextAtRow
    <3>2. m \in sweep[s].rows
      BY <1>3 DEF Claimable
    <3>3. NextAt(monitors[m], kind) # NULL /\ NextAt(monitors[m], kind) <= sweep[s].now
      BY <3>2 DEF IInv, LockedDue, Due
    <3>4. NextAt(monitors[m], kind) \in Nat
      BY <1>1, <3>3, RowTypes
    <3>5. /\ NextAt(monitors[m], kind) <= clock
          /\ clock < sweep[s].now + i /\ sweep[s].now + i <= clock + i
      BY <1>1, <2>1, <3>3, <3>4
    <3> QED
      BY <2>3, <3>1, <3>5 DEF ClaimedOrGivenBack
  <2> QED
    BY <2>2, <2>3
<1> QED
  BY <1>2, <1>3

LEMMA RecoverMoves ==
  ASSUME LimitBelowIntervals, IInv, ItemsCurrent, NEW s \in Sweeps, Recover(s),
         NEW m \in Mons, NEW k \in CheckType
  PROVE  ClaimedOrGivenBack(m, k)
<1> DEFINE kind == sweep[s].kind
<1>1. /\ TypeOK /\ monitors[m] \in Monitor /\ kind \in CheckType
      /\ sweep[s].now \in Nat /\ clock \in Nat /\ HardLimit \in Nat
      /\ clock < sweep[s].now + HardLimit
  BY SchedulerAssumption DEF IInv, TypeOK, SweepState, SweepShape, Recover
<1>2. CASE m \notin ItemMons(s)
  BY <1>1, <1>2, RecoverRows DEF ClaimedOrGivenBack
<1>3. CASE m \in ItemMons(s)
  <2>1. monitors'[m] = WithNextAt(monitors[m], kind, sweep[s].now)
    BY <1>1, <1>3, RecoverRows
  <2>2. CASE k # kind
    <3>1. k \in CheckType \ {kind}
      BY <2>2
    <3> QED
      BY <1>1, <2>1, <3>1, WithNextAtRow DEF ClaimedOrGivenBack
  <2>3. CASE k = kind
    <3>1. NextAt(monitors'[m], kind) = sweep[s].now
      BY <1>1, <2>1, WithNextAtRow
    <3>2. PICK item \in sweep[s].items : m = Mon(item)
      BY <1>3 DEF ItemMons
    <3>3. NextAt(monitors[m], kind) = sweep[s].now + item[2]
      BY <3>2 DEF IInv, HeldIsOwn
    <3>4. item[2] \in Intervals /\ IntervalOf(monitors[m], kind) = item[2]
      BY <1>1, <3>2 DEF TypeOK, SweepState, ItemsCurrent
    <3>5. item[2] \in Nat /\ HardLimit <= item[2]
      BY <3>4, IntervalTypes DEF LimitBelowIntervals
    <3>6. /\ clock < sweep[s].now + item[2]
          /\ sweep[s].now = (sweep[s].now + item[2]) - item[2]
      BY <1>1, <3>5
    <3> QED
      BY <2>3, <3>1, <3>3, <3>4, <3>6 DEF ClaimedOrGivenBack
  <2> QED
    BY <2>2, <2>3
<1> QED
  BY <1>2, <1>3

\* While the hard limit is below every interval, a next-run column changes only
\* by a claim, from a time that has come to one within an interval from now, and
\* by a reset that takes back the interval of the claim still in force.
THEOREM ResetsOnlyGiveBack ==
  ASSUME LimitBelowIntervals
  PROVE  Spec => NextRunOnlyClaimedOrGivenBack
<1>1. ASSUME IInv, ItemsCurrent, [Next]_vars
      PROVE  [\A m \in Mons, kind \in CheckType : ClaimedOrGivenBack(m, kind)]_vars
  <2>1. ASSUME NEW s \in Sweeps, Claim(s) \/ Recover(s)
        PROVE  \A m \in Mons, kind \in CheckType : ClaimedOrGivenBack(m, kind)
    BY <1>1, <2>1, ClaimMoves, RecoverMoves
  <2>2. ASSUME monitors' = monitors
        PROVE  \A m \in Mons, kind \in CheckType : ClaimedOrGivenBack(m, kind)
    BY <2>2 DEF ClaimedOrGivenBack
  <2> QED
    BY <1>1, <2>1, <2>2 DEF Next, Step, Tick, Begin, SelectNone, SelectBatch, Enqueue,
       EnqueueFails, EndBatch, RecoverFails, Crash, vars
<1>2. IInv /\ ItemsCurrent /\ [Next]_vars =>
        [\A m \in Mons, kind \in CheckType :
           LET interval == IntervalOf(monitors[m], kind)
               old == NextAt(monitors[m], kind)
               new == NextAt(monitors'[m], kind)
           IN new # old => \/ old <= clock /\ clock < new /\ new <= clock + interval
                           \/ clock < old /\ new = old - interval]_vars
  BY <1>1 DEF ClaimedOrGivenBack
<1>3. Init => ItemsCurrent
  BY DEF Init, ItemsCurrent, IdleSweep
<1>4. IInv /\ ItemsCurrent /\ [Next]_vars => IInv' /\ ItemsCurrent'
  BY IInvStep, ItemsCurrentStep
<1> QED
  BY <1>2, <1>3, <1>4, IInvInit, PTL DEF Spec, NextRunOnlyClaimedOrGivenBack

-----------------------------------------------------------------------------
(* No claim is lost silently. *)

\* The four ways NoSilentLoss allows for one row and one schedule.
Accounted(m, kind) ==
  LET next == NextAt(monitors[m], kind) IN
  \/ next = NULL \/ next <= clock
  \/ <<kind, m>> \in lost
  \/ \E s \in Sweeps : sweep[s].kind = kind /\ m \in ItemMons(s)
  \/ \E msg \in queue : msg.kind = kind /\ msg.mon = m /\ msg.expires >= next

LEMMA SilentLossInit == Init => NoSilentLoss
<1> SUFFICES ASSUME Init, NEW m \in Mons, NEW kind \in CheckType
             PROVE  Accounted(m, kind)
  BY DEF NoSilentLoss, Accounted
<1>1. NextAt(monitors[m], kind) = NULL \/ NextAt(monitors[m], kind) <= 0
  BY DueAtStart, SchedulerAssumption DEF Init
<1> QED
  BY <1>1 DEF Init, Accounted

LEMMA SilentLossStep ==
  ASSUME IInv, NoSilentLoss, [Next]_vars
  PROVE  NoSilentLoss'
<1> SUFFICES ASSUME NEW m \in Mons, NEW k \in CheckType
             PROVE  Accounted(m, k)'
  BY DEF NoSilentLoss, Accounted
<1> DEFINE next == NextAt(monitors[m], k)
<1>1. Accounted(m, k)
  BY DEF NoSilentLoss, Accounted
<1>2. /\ TypeOK /\ monitors[m] \in Monitor /\ clock \in Nat
      /\ DOMAIN sweep = Sweeps
      /\ next \in Nat \cup {NULL}
      /\ \A s \in Sweeps : /\ sweep[s] \in SweepState
                           /\ sweep[s].kind \in CheckType /\ sweep[s].now \in Nat
                           /\ sweep[s].items \subseteq Mons \X Intervals
  BY RowTypes DEF IInv, TypeOK, SweepState
\* a step that leaves rows alone and forgets nothing
<1>3. ASSUME monitors' = monitors, clock' \in {clock, clock + 1},
             lost \subseteq lost', queue \subseteq queue',
             NEW s \in Sweeps,
             \A t \in Sweeps \ {s} : sweep'[t] = sweep[t],
             \/ sweep[s].items = {}
             \/ /\ sweep'[s].kind = sweep[s].kind
                /\ sweep'[s].items = sweep[s].items
      PROVE  Accounted(m, k)'
  <2>1. CASE next = NULL \/ next <= clock
    <3>1. next = NULL \/ next <= clock'
      BY <1>2, <1>3, <2>1
    <3> QED
      BY <1>3, <3>1 DEF Accounted
  <2>2. CASE \E t \in Sweeps : sweep[t].kind = k /\ m \in ItemMons(t)
    <3>1. PICK t \in Sweeps : sweep[t].kind = k /\ m \in ItemMons(t)
      BY <2>2
    <3>2. sweep'[t].kind = k /\ m \in ItemMons(t)'
      BY <1>3, <3>1 DEF ItemMons
    <3> QED
      BY <3>2 DEF Accounted
  <2> QED
    BY <1>1, <1>3, <2>1, <2>2 DEF Accounted
<1>4. ASSUME Tick \/ UNCHANGED vars
      PROVE  Accounted(m, k)'
  <2>1. CASE Sweeps = {}
    <3>1. next = NULL \/ next <= clock' \/ <<k, m>> \in lost'
          \/ \E msg \in queue' : msg.kind = k /\ msg.mon = m /\ msg.expires >= next
      BY <1>1, <1>2, <1>4, <2>1 DEF Accounted, Tick, vars
    <3> QED
      BY <1>4, <3>1 DEF Accounted, Tick, vars
  <2>2. CASE Sweeps # {}
    BY <1>3, <1>4, <2>2 DEF Tick, vars
  <2> QED
    BY <2>1, <2>2
<1>5. ASSUME NEW s \in Sweeps, Begin(s) \/ SelectNone(s)
      PROVE  Accounted(m, k)'
  <2>1. sweep[s].items = {}
    BY <1>5 DEF IInv, SweepShape, Begin, SelectNone
  <2> QED
    <3>1. /\ monitors' = monitors /\ clock' = clock /\ lost' = lost /\ queue' = queue
          /\ \A t \in Sweeps \ {s} : sweep'[t] = sweep[t]
      BY <1>2, <1>5 DEF Begin, SelectNone
    <3> QED
      BY <1>3, <2>1, <3>1
<1>6. ASSUME NEW s \in Sweeps, SelectBatch(s)
      PROVE  Accounted(m, k)'
  <2>1. sweep[s].items = {}
    BY <1>6 DEF IInv, SweepShape, SelectBatch
  <2> QED
    <3>1. /\ monitors' = monitors /\ clock' = clock /\ lost' = lost /\ queue' = queue
          /\ \A t \in Sweeps \ {s} : sweep'[t] = sweep[t]
      BY <1>2, <1>6 DEF SelectBatch
    <3> QED
      BY <1>3, <2>1, <3>1
<1>7. ASSUME NEW s \in Sweeps, EndBatch(s)
      PROVE  Accounted(m, k)'
  <2>1. /\ monitors' = monitors /\ clock' = clock /\ lost' = lost /\ queue' = queue
        /\ sweep[s].items = {}
        /\ \A t \in Sweeps \ {s} : sweep'[t] = sweep[t]
    BY <1>2, <1>7 DEF EndBatch
  <2> QED
    BY <1>3, <2>1
<1>8. ASSUME NEW s \in Sweeps, EnqueueFails(s)
      PROVE  Accounted(m, k)'
  <2>1. sweep'[s].kind = sweep[s].kind /\ sweep'[s].items = sweep[s].items
    BY <1>2, <1>8 DEF EnqueueFails, Failed, TypeOK, SweepState
  <2>2. queue \subseteq queue'
    BY <1>8 DEF EnqueueFails, Failed, Publish
  <2> QED
    <3>1. /\ monitors' = monitors /\ clock' = clock /\ lost' = lost
          /\ \A t \in Sweeps \ {s} : sweep'[t] = sweep[t]
      BY <1>2, <1>8 DEF EnqueueFails, Failed
    <3> QED
      BY <1>3, <2>1, <2>2, <3>1
\* the message just published runs for the claimed time or longer
<1>9. ASSUME NEW s \in Sweeps, Enqueue(s)
      PROVE  Accounted(m, k)'
  <2>1. PICK item \in sweep[s].items :
          Publish(s, item) /\ sweep' = [sweep EXCEPT ![s].items = @ \ {item}]
    BY <1>9 DEF Enqueue
  <2>2. monitors' = monitors /\ clock' = clock /\ lost' = lost /\ queue \subseteq queue'
    BY <1>9, <2>1 DEF Enqueue, Publish
  <2>3. CASE sweep[s].kind = k /\ m = Mon(item)
    <3> DEFINE msg == NewMessage(sent, k, m, clock, clock + item[2])
    <3>1. msg \in queue' /\ msg.kind = k /\ msg.mon = m /\ msg.expires = clock + item[2]
      BY <2>1, <2>3 DEF Publish, NewMessage
    <3>2. next = sweep[s].now + item[2] /\ sweep[s].now <= clock
      BY <2>1, <2>3 DEF IInv, HeldIsOwn, SweepShape
    <3>a. item[2] \in Intervals
      BY <1>2, <2>1
    <3>b. item[2] \in Nat
      BY <3>a, IntervalTypes
    <3>3. clock + item[2] >= next
      BY <1>2, <3>2, <3>b
    <3> QED
      BY <2>2, <3>1, <3>3 DEF Accounted
  <2>4. CASE ~(sweep[s].kind = k /\ m = Mon(item))
    <3>1. CASE \E t \in Sweeps : sweep[t].kind = k /\ m \in ItemMons(t)
      <4>1. PICK t \in Sweeps : sweep[t].kind = k /\ m \in ItemMons(t)
        BY <3>1
      <4>2. PICK other \in sweep[t].items : m = Mon(other)
        BY <4>1 DEF ItemMons
      <4>3. sweep'[t].kind = k /\ other \in sweep'[t].items
        BY <1>2, <2>1, <2>4, <4>1, <4>2 DEF TypeOK, SweepState
      <4> QED
        BY <4>2, <4>3 DEF Accounted, ItemMons
    <3> QED
      BY <1>1, <2>2, <3>1 DEF Accounted
  <2> QED
    BY <2>3, <2>4
<1>10. ASSUME NEW s \in Sweeps, RecoverFails(s) \/ Crash(s)
       PROVE  Accounted(m, k)'
  <2>1. /\ monitors' = monitors /\ clock' = clock /\ queue' = queue
        /\ lost' = lost \cup ({sweep[s].kind} \X ItemMons(s))
        /\ \A t \in Sweeps \ {s} : sweep'[t] = sweep[t]
    BY <1>2, <1>10 DEF RecoverFails, Crash
  <2>2. CASE \E t \in Sweeps : sweep[t].kind = k /\ m \in ItemMons(t)
    <3>1. PICK t \in Sweeps : sweep[t].kind = k /\ m \in ItemMons(t)
      BY <2>2
    <3>2. CASE t = s
      BY <2>1, <3>1, <3>2 DEF Accounted
    <3>3. CASE t # s
      <4>1. sweep'[t].kind = k /\ m \in ItemMons(t)'
        BY <2>1, <3>1, <3>3 DEF ItemMons
      <4> QED
        BY <4>1 DEF Accounted
    <3> QED
      BY <3>2, <3>3
  <2> QED
    BY <1>1, <2>1, <2>2 DEF Accounted
<1>11. ASSUME NEW s \in Sweeps, Claim(s)
       PROVE  Accounted(m, k)'
  <2>1. /\ clock' = clock /\ queue' = queue
        /\ lost' = lost \ ({sweep[s].kind} \X Claimable(s))
        /\ sweep'[s].kind = sweep[s].kind /\ sweep[s].items = {}
        /\ \A t \in Sweeps \ {s} : sweep'[t] = sweep[t]
    BY <1>2, <1>11 DEF Claim, NextRun, IInv, SweepShape, TypeOK, SweepState
  <2>2. CASE m \in Claimable(s) /\ k = sweep[s].kind
    <3>1. <<m, IntervalOf(monitors[m], k)>> \in sweep'[s].items
      BY <1>2, <1>11, <2>2, ClaimItems
    <3>2. m \in ItemMons(s)'
      BY <3>1 DEF ItemMons, Mon
    <3> QED
      BY <2>1, <2>2, <3>2 DEF Accounted
  <2>3. CASE ~(m \in Claimable(s) /\ k = sweep[s].kind)
    <3>1. NextAt(monitors'[m], k) = next
      <4>1. CASE m \notin Claimable(s)
        BY <1>2, <1>11, <4>1, ClaimRows
      <4>2. CASE m \in Claimable(s)
        <5>1. /\ k \in CheckType \ {sweep[s].kind}
              /\ sweep[s].now + IntervalOf(monitors[m], sweep[s].kind) \in Nat
              /\ monitors'[m] = WithNextAt(monitors[m], sweep[s].kind,
                   sweep[s].now + IntervalOf(monitors[m], sweep[s].kind))
          BY <1>2, <1>11, <2>3, <4>2, ClaimRows
        <5> QED
          BY <1>2, <5>1, WithNextAtRow
      <4> QED
        BY <4>1, <4>2
    <3>2. <<k, m>> \in lost => <<k, m>> \in lost'
      BY <2>1, <2>3
    <3>3. \A t \in Sweeps : m \in ItemMons(t) =>
            m \in ItemMons(t)' /\ sweep'[t].kind = sweep[t].kind
      BY <2>1 DEF ItemMons
    <3> QED
      BY <1>1, <2>1, <3>1, <3>2, <3>3 DEF Accounted
  <2> QED
    BY <2>2, <2>3
<1>12. ASSUME NEW s \in Sweeps, Recover(s)
       PROVE  Accounted(m, k)'
  <2>1. /\ clock' = clock /\ queue' = queue /\ lost' = lost
        /\ \A t \in Sweeps \ {s} : sweep'[t] = sweep[t]
        /\ sweep[s].now <= clock
    BY <1>2, <1>12 DEF Recover, IInv, SweepShape
  <2>2. CASE m \in ItemMons(s) /\ k = sweep[s].kind
    <3>1. NextAt(monitors'[m], k) = sweep[s].now
      BY <1>2, <1>12, <2>2, RecoverRows, WithNextAtRow
    <3> QED
      BY <2>1, <3>1 DEF Accounted
  <2>3. CASE ~(m \in ItemMons(s) /\ k = sweep[s].kind)
    <3>1. NextAt(monitors'[m], k) = next
      <4>1. CASE m \notin ItemMons(s)
        BY <1>2, <1>12, <4>1, RecoverRows
      <4>2. CASE m \in ItemMons(s)
        <5>1. k \in CheckType \ {sweep[s].kind}
          BY <2>3, <4>2
        <5> QED
          BY <1>2, <1>12, <4>2, <5>1, RecoverRows, WithNextAtRow
      <4> QED
        BY <4>1, <4>2
    <3>2. \A t \in Sweeps : sweep[t].kind = k /\ m \in ItemMons(t) =>
            m \in ItemMons(t)' /\ sweep'[t].kind = sweep[t].kind
      BY <2>1, <2>3 DEF ItemMons
    <3> QED
      BY <1>1, <2>1, <3>1, <3>2 DEF Accounted
  <2> QED
    BY <2>2, <2>3
<1> QED
  BY <1>4, <1>5, <1>6, <1>7, <1>8, <1>9, <1>10, <1>11, <1>12 DEF Next, Step

\* While the hard limit is below every interval, every future run of a row is
\* published, about to be published, or lost to a fault the model counts.
THEOREM NoClaimLostSilently ==
  ASSUME LimitBelowIntervals
  PROVE  Spec => []NoSilentLoss
<1>1. IInv /\ NoSilentLoss /\ [Next]_vars => NoSilentLoss'
  BY SilentLossStep
<1> QED
  BY <1>1, SilentLossInit, IInvInit, IInvStep, PTL DEF Spec

=============================================================================
