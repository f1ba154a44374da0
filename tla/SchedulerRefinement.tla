------------------------- MODULE SchedulerRefinement -------------------------
(***************************************************************************)
(* Scheduler implements Dispatch, for every number of sweeps, monitors and *)
(* batches: overlapping sweeps that lock, claim, publish and reset whole   *)
(* batches behave as if every entry had one owner at a time.               *)
(***************************************************************************)
EXTENDS SchedulerProofs

(* The refinement mapping, entry by entry. *)

LEMMA EntryForm ==
  /\ D!Entry = Entry
  /\ \A e \in Entry : e[1] \in CheckType /\ e[2] \in Mons /\ e = <<e[1], e[2]>>
BY DEF Entry, D!Entry, CheckType, D!CheckType

LEMMA Reading ==
  ASSUME NEW e \in Entry
  PROVE  /\ entry_next[e] = NextAt(monitors[e[2]], e[1])
         /\ entry_next'[e] = NextAt(monitors'[e[2]], e[1])
         /\ entry_period[e] = IntervalOf(monitors[e[2]], e[1])
         /\ entry_period'[e] = IntervalOf(monitors'[e[2]], e[1])
BY DEF entry_next, entry_period

LEMMA Unread == monitors' = monitors => UNCHANGED <<entry_next, entry_period>>
BY DEF entry_next, entry_period

LEMMA PeriodsStay == TypeOK /\ [Next]_vars => entry_period' = entry_period
<1> SUFFICES ASSUME TypeOK, [Next]_vars
             PROVE  entry_period' = entry_period
  OBVIOUS
<1>1. \A e \in Entry : IntervalOf(monitors'[e[2]], e[1]) = IntervalOf(monitors[e[2]], e[1])
  BY IntervalsStay, EntryForm
<1> QED
  BY <1>1 DEF entry_period

\* What one sweep owes, and what the others do.
Held(s) == {sweep[s].kind} \X ItemMons(s)
OwedByOthers(s) ==
  {e \in Entry : \E t \in Sweeps \ {s} : sweep[t].kind = e[1] /\ e[2] \in ItemMons(t)}

LEMMA OwedParts ==
  ASSUME TypeOK, NEW s \in Sweeps
  PROVE  /\ Held(s) \subseteq Entry
         /\ entries_owed = OwedByOthers(s) \cup Held(s)
<1>1. Held(s) \subseteq Entry
  BY ItemMonsType DEF Held, Entry, TypeOK, SweepState
<1> QED
  BY <1>1 DEF entries_owed, OwedByOthers, Held, Entry

LEMMA OwedPartsAfter ==
  ASSUME TypeOK', NEW s \in Sweeps, \A t \in Sweeps \ {s} : sweep'[t] = sweep[t]
  PROVE  entries_owed' = OwedByOthers(s) \cup Held(s)'
<1>1. sweep'[s] \in SweepState
  BY DEF TypeOK
<1>2. sweep'[s].kind \in CheckType /\ ItemMons(s)' \subseteq Mons
  BY <1>1 DEF SweepState, ItemMons, Mon
<1>3. Held(s)' \subseteq Entry
  BY <1>2 DEF Held, Entry
<1>4. OwedByOthers(s)' = OwedByOthers(s)
  BY DEF OwedByOthers, ItemMons
<1> QED
  BY <1>3, <1>4 DEF entries_owed, OwedByOthers, Held, Entry

\* No entry has two owners: DisjointHoldings seen from Dispatch.
LEMMA OneOwner ==
  ASSUME IInv, NEW s \in Sweeps
  PROVE  OwedByOthers(s) \cap ({sweep[s].kind} \X Holding(s)) = {}
BY DEF IInv, DisjointHoldings, OwedByOthers, Holding

-----------------------------------------------------------------------------
(* The step simulation: what each action of Scheduler is in Dispatch. *)

\* Steps in which a sweep with nothing claimed looks for work or gives up.
LEMMA SearchStutters ==
  ASSUME IInv, TypeOK', NEW s \in Sweeps,
         Begin(s) \/ SelectNone(s) \/ SelectBatch(s) \/ EndBatch(s)
  PROVE  UNCHANGED D!vars
<1>1. /\ UNCHANGED <<clock, monitors, queue, sent, faults, lost>>
      /\ \A t \in Sweeps \ {s} : sweep'[t] = sweep[t]
      /\ TypeOK /\ sweep[s] \in SweepState
  BY DEF IInv, TypeOK, Begin, SelectNone, SelectBatch, EndBatch
<1>2. sweep[s].items = {}
  BY DEF IInv, SweepShape, Begin, SelectNone, SelectBatch, EndBatch
<1>3. sweep'[s].items = {}
  <2>1. CASE Begin(s)
    BY <1>1, <2>1 DEF Begin, IdleSweep, TypeOK
  <2>2. CASE SelectNone(s)
    BY <1>1, <2>2, AfterLoopType DEF SelectNone, TypeOK
  <2>3. CASE SelectBatch(s)
    <3>1. PICK B \in SUBSET DueRows(s) :
            sweep' = [sweep EXCEPT ![s].pc = "claim", ![s].rows = B]
      BY <2>3 DEF SelectBatch
    <3> QED
      BY <1>1, <1>2, <3>1 DEF TypeOK, SweepState
  <2>4. CASE EndBatch(s)
    BY <1>1, <1>2, <2>4, AfterBatchType DEF EndBatch, TypeOK
  <2> QED
    BY <2>1, <2>2, <2>3, <2>4
<1>4. Held(s) = {} /\ Held(s)' = {}
  BY <1>2, <1>3 DEF Held, ItemMons
<1>5. entries_owed' = entries_owed
  BY <1>1, <1>4, OwedParts, OwedPartsAfter
<1> QED
  BY <1>1, <1>5, Unread DEF D!vars

LEMMA ClaimSimulated ==
  ASSUME IInv, TypeOK', LimitBelowIntervals, [Next]_vars, NEW s \in Sweeps, Claim(s)
  PROVE  \E E \in SUBSET (D!Entry \ entries_owed) : D!Claim(E)
<1> DEFINE kind == sweep[s].kind
           E == {kind} \X Claimable(s)
<1>1. /\ TypeOK /\ sweep[s] \in SweepState /\ kind \in CheckType
      /\ sweep[s].now \in Nat /\ clock \in Nat /\ HardLimit \in Nat
      /\ UNCHANGED <<clock, queue, sent, faults>>
      /\ lost' = lost \ E
      /\ \A t \in Sweeps \ {s} : sweep'[t] = sweep[t]
  BY SchedulerAssumption DEF IInv, TypeOK, SweepState, Claim
<1>2. /\ sweep[s].items = {} /\ sweep[s].now <= clock /\ clock < sweep[s].now + HardLimit
      /\ sweep'[s].kind = kind
  BY <1>1 DEF IInv, SweepShape, Claim, TypeOK, SweepState
<1>3. /\ Claimable(s) \subseteq Mons /\ Claimable(s) \subseteq Holding(s)
      /\ sweep'[s].items = {<<m, IntervalOf(monitors[m], kind)>> : m \in Claimable(s)}
  BY <1>1, ClaimItems DEF Holding
<1>4. Held(s) = {}
  BY <1>2 DEF Held, ItemMons
<1>5. Held(s)' = E
  <2>1. ItemMons(s)' = Claimable(s)
    <3>1. \A m \in Claimable(s) : <<m, IntervalOf(monitors[m], kind)>> \in sweep'[s].items
      BY <1>3
    <3>2. ItemMons(s)' = {item[1] : item \in sweep'[s].items}
      BY DEF ItemMons, Mon
    <3>3. Claimable(s) \subseteq ItemMons(s)'
      <4> SUFFICES ASSUME NEW m \in Claimable(s)
                   PROVE  m \in ItemMons(s)'
        OBVIOUS
      <4>1. <<m, IntervalOf(monitors[m], kind)>>[1] = m
        OBVIOUS
      <4> QED
        BY <3>1, <3>2, <4>1
    <3>4. ItemMons(s)' \subseteq Claimable(s)
      BY <1>3, <3>2
    <3> QED
      BY <3>3, <3>4
  <2> QED
    BY <1>2, <2>1 DEF Held
<1>6. /\ entries_owed = OwedByOthers(s)
      /\ entries_owed' = entries_owed \cup E
  BY <1>1, <1>4, <1>5, OwedParts, OwedPartsAfter
<1>7. E \cap entries_owed = {} /\ E \subseteq D!Entry
  <2>1. E \subseteq {kind} \X Holding(s)
    BY <1>3
  <2>2. E \subseteq Entry
    BY <1>1, <1>3 DEF Entry
  <2> QED
    BY <1>6, <2>1, <2>2, OneOwner, EntryForm
<1>8. ASSUME NEW e \in E
      PROVE  /\ entry_period[e] # NULL /\ entry_next[e] # NULL /\ entry_next[e] <= clock
             /\ entry_next'[e] \in clock + 1 .. clock + entry_period[e]
             /\ entry_next'[e] >= entry_next[e] + entry_period[e]
  <2> DEFINE m == e[2]
             i == IntervalOf(monitors[m], kind)
  <2>1. e \in Entry /\ e[1] = kind /\ m \in Claimable(s) /\ m \in Mons
    BY <1>3, <1>7, <1>8, EntryForm
  <2>2. /\ i \in Intervals /\ i \in Nat /\ HardLimit <= i
        /\ monitors'[m] = WithNextAt(monitors[m], kind, sweep[s].now + i)
        /\ monitors[m] \in Monitor
    BY <1>1, <2>1, ClaimRows, IntervalTypes DEF LimitBelowIntervals, TypeOK
  <2>3. NextAt(monitors'[m], kind) = sweep[s].now + i
    BY <1>1, <2>2, WithNextAtRow
  <2>4. m \in sweep[s].rows
    BY <2>1 DEF Claimable
  <2>5. NextAt(monitors[m], kind) # NULL /\ NextAt(monitors[m], kind) <= sweep[s].now
    BY <2>4 DEF IInv, LockedDue, Due
  <2>6. NextAt(monitors[m], kind) \in Nat
    BY <1>1, <2>2, <2>5, RowTypes
  <2>7. NextAt(monitors[m], kind) <= clock
    BY <1>1, <1>2, <2>5, <2>6
  <2>8. /\ sweep[s].now + i \in clock + 1 .. clock + i
        /\ sweep[s].now + i >= NextAt(monitors[m], kind) + i
    BY <1>1, <1>2, <2>2, <2>5, <2>6
  <2>9. i # NULL
    BY <2>2, NullAssumption
  <2>10. /\ entry_next[e] = NextAt(monitors[m], kind)
         /\ entry_next'[e] = NextAt(monitors'[m], kind)
         /\ entry_period[e] = i
    BY <2>1, Reading
  <2> QED
    BY <2>3, <2>5, <2>7, <2>8, <2>9, <2>10
<1>9. D!OthersKeep(E)
  <2> SUFFICES ASSUME NEW e \in Entry \ E
               PROVE  entry_next'[e] = entry_next[e]
    BY EntryForm DEF D!OthersKeep
  <2>1. e[1] \in CheckType /\ e[2] \in Mons /\ (e[2] \notin Claimable(s) \/ e[1] # kind)
    BY EntryForm
  <2>2. NextAt(monitors'[e[2]], e[1]) = NextAt(monitors[e[2]], e[1])
    <3>1. CASE e[2] \notin Claimable(s)
      BY <1>1, <2>1, <3>1, ClaimRows
    <3>2. CASE e[2] \in Claimable(s)
      BY <1>1, <2>1, <3>2, ClaimRows, WithNextAtRow DEF TypeOK
    <3> QED
      BY <3>1, <3>2
  <2> QED
    BY <2>2, Reading
<1>10. entry_period' = entry_period
  BY <1>1, PeriodsStay
<1>11. D!Claim(E)
  BY <1>1, <1>6, <1>7, <1>8, <1>9, <1>10 DEF D!Claim
<1> QED
  BY <1>7, <1>11

LEMMA EnqueueSimulated ==
  ASSUME IInv, ItemsCurrent, TypeOK', [Next]_vars, NEW s \in Sweeps, Enqueue(s)
  PROVE  \E e \in entries_owed : D!Publish(e)
<1>1. PICK item \in sweep[s].items :
        /\ Publish(s, item)
        /\ sweep' = [sweep EXCEPT ![s].items = @ \ {item}]
  BY DEF Enqueue
<1> DEFINE e == <<sweep[s].kind, Mon(item)>>
<1>2. /\ UNCHANGED <<clock, monitors, faults, lost>>
      /\ \A t \in Sweeps \ {s} : sweep'[t] = sweep[t]
      /\ sweep'[s].kind = sweep[s].kind /\ sweep'[s].items = sweep[s].items \ {item}
      /\ TypeOK /\ sweep[s] \in SweepState
  BY <1>1 DEF Enqueue, IInv, TypeOK, SweepState
<1>3. /\ e \in Held(s) /\ e \in entries_owed /\ e \in Entry
      /\ e[1] = sweep[s].kind /\ e[2] = Mon(item)
  <2>1. e \in Held(s)
    BY DEF Held, ItemMons
  <2> QED
    BY <1>2, <2>1, OwedParts
<1>4. IntervalOf(monitors[Mon(item)], sweep[s].kind) = item[2]
  BY DEF ItemsCurrent
<1>5. D!Deliver(e)
  <2>1. entry_period[e] = item[2]
    BY <1>3, <1>4, Reading
  <2> QED
    BY <1>1, <1>3, <2>1 DEF D!Deliver, Publish, NewMessage, D!NewMessage
\* an item is its row's: no other item of the sweep names the same row
<1>6. Held(s)' = Held(s) \ {e}
  <2>1. \A other \in sweep[s].items : Mon(other) = Mon(item) => other = item
    <3> SUFFICES ASSUME NEW other \in sweep[s].items, Mon(other) = Mon(item)
                 PROVE  other = item
      OBVIOUS
    <3>1. other[2] = item[2]
      BY <1>4 DEF ItemsCurrent
    <3>2. other \in Mons \X Intervals /\ item \in Mons \X Intervals
      BY <1>2 DEF SweepState
    <3> QED
      BY <3>1, <3>2 DEF Mon
  <2>2. ItemMons(s)' = ItemMons(s) \ {Mon(item)}
    BY <1>2, <2>1 DEF ItemMons
  <2> QED
    BY <1>2, <2>2 DEF Held
<1>7. entries_owed' = entries_owed \ {e}
  <2>1. e \notin OwedByOthers(s)
    BY <1>3, OneOwner DEF Held, Holding
  <2> QED
    BY <1>2, <1>6, <2>1, OwedParts, OwedPartsAfter
<1>8. D!Publish(e)
  BY <1>2, <1>5, <1>7, Unread DEF D!Publish
<1> QED
  BY <1>3, <1>8

LEMMA EnqueueFailsSimulated ==
  ASSUME IInv, ItemsCurrent, TypeOK', NEW s \in Sweeps, EnqueueFails(s)
  PROVE  \E e \in entries_owed : D!Refuse(e)
<1>1. PICK item \in sweep[s].items :
        /\ Publish(s, item) \/ UNCHANGED <<queue, sent>>
        /\ sweep' = [sweep EXCEPT ![s].pc = "recover"]
  BY DEF EnqueueFails, Failed
<1> DEFINE e == <<sweep[s].kind, Mon(item)>>
<1>2. /\ UNCHANGED <<clock, monitors, lost>> /\ faults' = faults + 1
      /\ \A t \in Sweeps \ {s} : sweep'[t] = sweep[t]
      /\ TypeOK /\ sweep[s] \in SweepState
  BY <1>1 DEF EnqueueFails, IInv, TypeOK
<1>3. e \in Held(s) /\ Held(s)' = Held(s)
  <2>1. sweep'[s].kind = sweep[s].kind /\ sweep'[s].items = sweep[s].items
    BY <1>1, <1>2 DEF TypeOK, SweepState
  <2> QED
    BY <2>1 DEF Held, ItemMons
<1>4. e \in entries_owed /\ e \in Entry /\ entries_owed' = entries_owed
  BY <1>2, <1>3, OwedParts, OwedPartsAfter
<1>5. D!Deliver(e) \/ UNCHANGED <<queue, sent>>
  <2>1. IntervalOf(monitors[Mon(item)], sweep[s].kind) = item[2]
    BY DEF ItemsCurrent
  <2>2. e[1] = sweep[s].kind /\ e[2] = Mon(item)
    OBVIOUS
  <2>3. entry_period[e] = item[2]
    BY <1>4, <2>1, <2>2, Reading
  <2> QED
    BY <1>1, <2>2, <2>3 DEF D!Deliver, Publish, NewMessage, D!NewMessage
<1>6. D!Refuse(e)
  BY <1>2, <1>4, <1>5, Unread DEF D!Refuse
<1> QED
  BY <1>4, <1>6

LEMMA RecoverSimulated ==
  ASSUME IInv, ItemsCurrent, TypeOK', [Next]_vars, NEW s \in Sweeps, Recover(s)
  PROVE  \E E \in SUBSET entries_owed : D!GiveBack(E)
<1> DEFINE kind == sweep[s].kind
           E == Held(s)
<1>1. /\ TypeOK /\ sweep[s] \in SweepState /\ kind \in CheckType
      /\ sweep[s].now \in Nat /\ clock \in Nat /\ sweep[s].now <= clock
      /\ UNCHANGED <<clock, queue, sent, faults, lost>>
      /\ sweep'[s] = AfterLoop(sweep[s])
      /\ \A t \in Sweeps \ {s} : sweep'[t] = sweep[t]
  BY DEF IInv, SweepShape, TypeOK, SweepState, Recover
<1>2. Held(s)' = {}
  BY <1>1, AfterLoopType DEF Held, ItemMons
<1>3. /\ E \subseteq entries_owed /\ E \subseteq Entry
      /\ entries_owed' = entries_owed \ E
  <2>1. OwedByOthers(s) \cap E = {}
    BY OneOwner DEF Held, Holding
  <2> QED
    BY <1>1, <1>2, <2>1, OwedParts, OwedPartsAfter
<1>4. ASSUME NEW e \in E
      PROVE  /\ entry_next'[e] \in 0 .. clock
             /\ entry_next'[e] = entry_next[e] - entry_period[e]
  <2>1. e \in Entry /\ e[1] = kind /\ e[2] \in ItemMons(s) /\ e[2] \in Mons
    BY <1>3, <1>4, EntryForm DEF Held
  <2>2. NextAt(monitors'[e[2]], kind) = sweep[s].now
    BY <1>1, <2>1, RecoverRows, WithNextAtRow DEF TypeOK
  <2>3. entry_next'[e] = sweep[s].now
    BY <2>1, <2>2, Reading
  <2>4. PICK item \in sweep[s].items : e[2] = Mon(item)
    BY <2>1 DEF ItemMons
  <2>5. /\ NextAt(monitors[e[2]], kind) = sweep[s].now + item[2]
        /\ IntervalOf(monitors[e[2]], kind) = item[2]
    BY <2>4 DEF IInv, HeldIsOwn, ItemsCurrent
  <2>6. item[2] \in Intervals
    BY <1>1 DEF SweepState
  <2>7. entry_next[e] = sweep[s].now + item[2] /\ entry_period[e] = item[2] /\ item[2] \in Nat
    BY <2>1, <2>5, <2>6, Reading, IntervalTypes
  <2> QED
    BY <1>1, <2>3, <2>7
<1>5. D!OthersKeep(E)
  <2> SUFFICES ASSUME NEW e \in Entry \ E
               PROVE  entry_next'[e] = entry_next[e]
    BY EntryForm DEF D!OthersKeep
  <2>1. e[1] \in CheckType /\ e[2] \in Mons /\ (e[2] \notin ItemMons(s) \/ e[1] # kind)
    BY EntryForm DEF Held
  <2>2. NextAt(monitors'[e[2]], e[1]) = NextAt(monitors[e[2]], e[1])
    <3>1. CASE e[2] \notin ItemMons(s)
      BY <1>1, <2>1, <3>1, RecoverRows
    <3>2. CASE e[2] \in ItemMons(s)
      BY <1>1, <2>1, <3>2, RecoverRows, WithNextAtRow DEF TypeOK
    <3> QED
      BY <3>1, <3>2
  <2> QED
    BY <2>2, Reading
<1>6. entry_period' = entry_period
  BY <1>1, PeriodsStay
<1>7. D!GiveBack(E)
  BY <1>1, <1>3, <1>4, <1>5, <1>6 DEF D!GiveBack
<1> QED
  BY <1>3, <1>7

LEMMA LossSimulated ==
  ASSUME IInv, TypeOK', NEW s \in Sweeps, RecoverFails(s) \/ Crash(s)
  PROVE  \E E \in SUBSET entries_owed : D!Lose(E)
<1>1. /\ TypeOK /\ sweep[s] \in SweepState
      /\ UNCHANGED <<clock, monitors, queue, sent>> /\ faults' = faults + 1
      /\ lost' = lost \cup Held(s)
      /\ sweep'[s] \in {AfterLoop(sweep[s]), IdleSweep}
      /\ \A t \in Sweeps \ {s} : sweep'[t] = sweep[t]
  BY DEF IInv, TypeOK, RecoverFails, Crash, Held
<1>2. Held(s)' = {}
  BY <1>1, AfterLoopType DEF Held, ItemMons, IdleSweep
<1>3. /\ Held(s) \subseteq entries_owed
      /\ entries_owed' = entries_owed \ Held(s)
  <2>1. OwedByOthers(s) \cap Held(s) = {}
    BY OneOwner DEF Held, Holding
  <2> QED
    BY <1>1, <1>2, <2>1, OwedParts, OwedPartsAfter
<1>4. D!Lose(Held(s))
  BY <1>1, <1>3, Unread DEF D!Lose
<1> QED
  BY <1>3, <1>4

LEMMA TickSimulated == LimitBelowIntervals /\ IInv /\ Tick => D!Tick
<1> SUFFICES ASSUME LimitBelowIntervals, IInv, Tick
             PROVE  D!Tick
  OBVIOUS
<1>1. entries_owed' = entries_owed
  BY DEF Tick, entries_owed, ItemMons
<1>2. ASSUME NEW e \in entries_owed
      PROVE  clock + 1 < entry_next[e]
  <2>1. PICK s \in Sweeps : sweep[s].kind = e[1] /\ e[2] \in ItemMons(s)
    BY DEF entries_owed
  <2>2. PICK item \in sweep[s].items : e[2] = Mon(item)
    BY <2>1 DEF ItemMons
  <2>3. entry_next[e] = sweep[s].now + item[2]
    BY <2>1, <2>2, Reading DEF IInv, HeldIsOwn, entries_owed
  <2>4. sweep[s].now \in Nat /\ item[2] \in Intervals /\ clock \in Nat /\ HardLimit \in Nat
    BY SchedulerAssumption DEF IInv, TypeOK, SweepState
  <2>5. HardLimit <= item[2] /\ item[2] \in Nat
    BY <2>4, IntervalTypes DEF LimitBelowIntervals
  <2>6. clock + 1 < sweep[s].now + HardLimit
    BY <2>2 DEF Tick, IInv, SweepShape
  <2> QED
    BY <2>3, <2>4, <2>5, <2>6
<1> QED
  BY <1>1, <1>2, Unread DEF Tick, D!Tick

LEMMA StutterSimulated == UNCHANGED vars => UNCHANGED D!vars
<1> SUFFICES ASSUME UNCHANGED vars
             PROVE  UNCHANGED D!vars
  OBVIOUS
<1>1. entries_owed' = entries_owed
  BY DEF vars, entries_owed, ItemMons
<1> QED
  BY <1>1, Unread DEF vars, D!vars

LEMMA StepSimulated ==
  LimitBelowIntervals /\ IInv /\ ItemsCurrent /\ [Next]_vars => [D!Next]_(D!vars)
<1> SUFFICES ASSUME LimitBelowIntervals, IInv, ItemsCurrent, [Next]_vars
             PROVE  D!Next \/ UNCHANGED D!vars
  OBVIOUS
<1>1. TypeOK'
  BY TypeStep DEF IInv
<1>2. ASSUME NEW s \in Sweeps,
             Begin(s) \/ Step(s) \/ EnqueueFails(s) \/ RecoverFails(s) \/ Crash(s)
      PROVE  D!Next \/ UNCHANGED D!vars
  <2>1. CASE Begin(s) \/ SelectNone(s) \/ SelectBatch(s) \/ EndBatch(s)
    BY <1>1, <2>1, SearchStutters
  <2>2. CASE Claim(s)
    BY <1>1, <2>2, ClaimSimulated DEF D!Next
  <2>3. CASE Enqueue(s)
    BY <1>1, <2>3, EnqueueSimulated DEF D!Next
  <2>4. CASE EnqueueFails(s)
    BY <1>1, <2>4, EnqueueFailsSimulated DEF D!Next
  <2>5. CASE Recover(s)
    BY <1>1, <2>5, RecoverSimulated DEF D!Next
  <2>6. CASE RecoverFails(s) \/ Crash(s)
    BY <1>1, <2>6, LossSimulated DEF D!Next
  <2> QED
    BY <1>2, <2>1, <2>2, <2>3, <2>4, <2>5, <2>6 DEF Step
<1>3. CASE Tick
  BY <1>3, TickSimulated DEF D!Next
<1>4. CASE UNCHANGED vars
  BY <1>4, StutterSimulated
<1> QED
  BY <1>2, <1>3, <1>4 DEF Next

LEMMA InitSimulated == Init => D!Init
<1> SUFFICES ASSUME Init
             PROVE  D!Init
  OBVIOUS
<1>1. TypeOK /\ \A s \in Sweeps : sweep[s].items = {}
  BY IInvInit DEF Init, IdleSweep, IInv
<1>2. entries_owed = {}
  BY <1>1 DEF entries_owed, ItemMons
<1>3. \A e \in Entry : /\ IntervalOf(monitors[e[2]], e[1]) \in Intervals \cup {NULL}
                      /\ NextAt(monitors[e[2]], e[1]) \in {0, NULL}
  BY <1>1, EntryForm, RowTypes, DueAtStart DEF Init, TypeOK
<1>4. entry_period \in [D!Entry -> Intervals \cup {NULL}]
  BY <1>3, EntryForm DEF entry_period
<1>5. entry_next \in [D!Entry -> {0, NULL}]
  BY <1>3, EntryForm DEF entry_next
<1> QED
  BY <1>2, <1>4, <1>5 DEF Init, D!Init

\* While no sweep outlives the shortest interval, sweep_due_monitors on any
\* number of workers does what Dispatch promises: every schedule of every
\* monitor is claimed, published, given back or lost by one owner at a time.
THEOREM SweepsImplementDispatch ==
  ASSUME LimitBelowIntervals
  PROVE  Spec => ImplementsDispatch
<1>1. Init => ItemsCurrent
  BY DEF Init, ItemsCurrent, IdleSweep
<1>2. IInv /\ ItemsCurrent /\ [Next]_vars => ItemsCurrent'
  BY ItemsCurrentStep
<1>3. IInv /\ [Next]_vars => IInv'
  BY IInvStep
<1>4. IInv /\ ItemsCurrent /\ [Next]_vars => [D!Next]_(D!vars)
  BY StepSimulated
<1> QED
  BY <1>1, <1>2, <1>3, <1>4, IInvInit, InitSimulated, PTL DEF Spec, ImplementsDispatch, D!Spec
=============================================================================
