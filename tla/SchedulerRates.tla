---------------------------- MODULE SchedulerRates ----------------------------
(***************************************************************************)
(* How many messages the sweeps can publish for one schedule of one        *)
(* monitor.  The argument is about the steps of Dispatch, which            *)
(* SchedulerRefinement shows the sweeps take: a claim advances an entry by *)
(* a period and may publish once, a reset takes both back, and a message   *)
(* too many costs a fault.                                                 *)
(***************************************************************************)
EXTENDS SchedulerRefinement, FiniteSetTheorems

(* Arithmetic.                                                             *)

LEMMA Products ==
  ASSUME NEW a \in Int, NEW b \in Int, NEW i \in Nat
  PROVE  /\ a * i \in Int /\ (a + 1) * i = a * i + i /\ (a - 1) * i = a * i - i
         /\ a <= b => a * i <= b * i
         /\ i > 0 /\ a * i < b * i => a < b
<1>1. a * i \in Int /\ b * i \in Int
  BY SMT
<1>2. (a + 1) * i = a * i + i /\ (a - 1) * i = a * i - i
  BY SMT
<1>3. a <= b => a * i <= b * i
  BY SMT
<1>4. b <= a => b * i <= a * i
  BY SMT
<1> QED
  BY <1>1, <1>2, <1>3, <1>4

LEMMA Quotient ==
  ASSUME NEW a \in Nat, NEW i \in Nat \ {0}
  PROVE  (a \div i) \in Nat /\ a < ((a \div i) + 1) * i
BY SMT

-----------------------------------------------------------------------------
(* What an entry has been sent, and what it may still be sent.             *)

\* An entry some sweep can claim.
Runnable(e) == entry_period[e] # NULL /\ entry_next[e] # NULL

\* The messages of an entry published at x or later.
SentSince(e, x) == {msg \in queue : msg.kind = e[1] /\ msg.mon = e[2] /\ msg.eta >= x}

\* With the one it is owed, and without those a fault may account for.
Owes(e) == IF e \in entries_owed THEN 1 ELSE 0
Load(e, x) == Cardinality(SentSince(e, x)) + Owes(e) - faults

QueueInv ==
  /\ IsFiniteSet(queue)
  /\ \A msg \in queue : msg.task < sent /\ msg.eta <= clock
  /\ \A msg \in queue, e \in Entry :
       msg.kind = e[1] /\ msg.mon = e[2] =>
         Runnable(e) /\ msg.expires = msg.eta + entry_period[e]
  /\ \A e \in entries_owed : Runnable(e)

\* A period of the schedule passes for each message but those of faults; over
\* all time, and over the time since any x.
Paced(e) ==
  /\ entry_next[e] <= clock + entry_period[e]
  /\ Load(e, 0) * entry_period[e] <= entry_next[e]
  /\ \A x \in 0 .. clock :
       \/ Load(e, x) <= 0
       \/ Load(e, x) * entry_period[e] < entry_next[e] - x + entry_period[e]

RateInv == QueueInv /\ \A e \in Entry : Runnable(e) => Paced(e)

LEMMA EntryTypes ==
  ASSUME TypeOK, NEW e \in Entry
  PROVE  /\ entry_period[e] # NULL => entry_period[e] \in Nat \ {0}
         /\ entry_next[e] # NULL => entry_next[e] \in Nat
<1>1. /\ monitors[e[2]] \in Monitor /\ e[1] \in CheckType
      /\ entry_period[e] = IntervalOf(monitors[e[2]], e[1])
      /\ entry_next[e] = NextAt(monitors[e[2]], e[1])
  BY EntryForm, Reading DEF TypeOK
<1> QED
  BY <1>1, RowTypes, IntervalTypes

LEMMA LoadType ==
  ASSUME TypeOK, QueueInv, NEW e \in Entry, NEW x \in Nat
  PROVE  /\ IsFiniteSet(SentSince(e, x)) /\ Cardinality(SentSince(e, x)) \in Nat
         /\ Owes(e) \in {0, 1} /\ faults \in Nat /\ Load(e, x) \in Int
<1>1. IsFiniteSet(SentSince(e, x))
  BY FS_Subset DEF QueueInv, SentSince
<1>2. Cardinality(SentSince(e, x)) \in Nat
  BY <1>1, FS_CardinalityType
<1> QED
  BY <1>1, <1>2 DEF Owes, Load, TypeOK

LEMMA LoadTypeAfter ==
  ASSUME TypeOK', QueueInv', NEW e, NEW x
  PROVE  Load(e, x)' \in Int
<1> DEFINE new == SentSince(e, x)'
<1>1. IsFiniteSet(queue') /\ new \in SUBSET queue' /\ faults' \in Nat
  BY DEF QueueInv, SentSince, TypeOK
<1>2. Load(e, x)' = Cardinality(new) + Owes(e)' - faults'
  BY DEF Load
<1> HIDE DEF new
<1>3. Cardinality(new) \in Nat
  BY <1>1, FS_Subset, FS_CardinalityType
<1>4. Owes(e)' \in {0, 1}
  BY DEF Owes
<1> QED
  BY <1>1, <1>2, <1>3, <1>4

\* One message more, for its entry.
LEMMA DeliverLoad ==
  ASSUME TypeOK, QueueInv, NEW e \in Entry, D!Deliver(e),
         NEW f \in Entry, NEW x \in Nat, x <= clock
  PROVE  Cardinality(SentSince(f, x)') =
           IF f = e THEN Cardinality(SentSince(f, x)) + 1 ELSE Cardinality(SentSince(f, x))
<1> DEFINE msg == NewMessage(sent, e[1], e[2], clock, clock + entry_period[e])
           old == SentSince(f, x)
           new == SentSince(f, x)'
<1>1. queue' = queue \cup {msg}
  BY DEF D!Deliver, D!NewMessage, NewMessage
<1>2. msg.task = sent /\ msg.kind = e[1] /\ msg.mon = e[2] /\ msg.eta = clock
  BY DEF NewMessage
<1>3. msg \notin queue
  <2>1. \A other \in queue : other.task < sent /\ other.task \in Nat /\ sent \in Nat
    BY DEF QueueInv, TypeOK, Message
  <2> QED
    BY <1>2, <2>1
<1>4. f = e <=> msg.kind = f[1] /\ msg.mon = f[2]
  BY <1>2, EntryForm
<1>5. clock \in Nat
  BY DEF TypeOK
<1> HIDE DEF msg
<1>6. new = IF f = e THEN old \cup {msg} ELSE old
  BY <1>1, <1>2, <1>4, <1>5 DEF SentSince
<1>7. msg \notin old /\ IsFiniteSet(old)
  BY <1>3, LoadType DEF SentSince
<1> HIDE DEF old, new
<1>8. Cardinality(old \cup {msg}) = Cardinality(old) + 1
  BY <1>7, FS_AddElement
<1>9. Cardinality(new) = IF f = e THEN Cardinality(old) + 1 ELSE Cardinality(old)
  BY <1>6, <1>8
<1> QED
  BY <1>9 DEF old, new
-----------------------------------------------------------------------------
(* What a step does to an entry.                                           *)

\* Nothing is claimed or given back: the load does not grow.
Stays(e, x) == entry_next'[e] = entry_next[e] /\ Load(e, x)' <= Load(e, x)

\* A claim: one message more for a period more.
Advances(e, x) ==
  /\ entry_next'[e] \in Nat /\ entry_next'[e] > clock
  /\ entry_next'[e] <= clock + entry_period[e]
  /\ entry_next'[e] >= entry_next[e] + entry_period[e]
  /\ Load(e, x)' = Load(e, x) + 1

\* A reset: one message less for a period less.
Returns(e, x) ==
  /\ entry_next'[e] \in Nat /\ entry_next'[e] = entry_next[e] - entry_period[e]
  /\ Load(e, x)' = Load(e, x) - 1

\* The load of an entry when no message is published.
LEMMA SameQueue ==
  ASSUME queue' = queue, NEW e, NEW x
  PROVE  Load(e, x)' = Cardinality(SentSince(e, x)) + Owes(e)' - faults'
BY DEF Load, SentSince

LEMMA LoadStep ==
  ASSUME TypeOK, QueueInv, D!Next, ~D!Tick,
         NEW e \in Entry, Runnable(e), NEW x \in Nat, x <= clock
  PROVE  Stays(e, x) \/ Advances(e, x) \/ Returns(e, x)
<1> DEFINE c == Cardinality(SentSince(e, x))
<1>1. /\ c \in Nat /\ Owes(e) \in {0, 1} /\ faults \in Nat /\ clock \in Nat
      /\ Load(e, x) = c + Owes(e) - faults
      /\ entry_period[e] \in Nat \ {0} /\ entry_next[e] \in Nat
  BY LoadType, EntryTypes DEF Load, Runnable, TypeOK
<1> HIDE DEF c
<1>2. ASSUME NEW E \in SUBSET (D!Entry \ entries_owed), D!Claim(E)
      PROVE  Stays(e, x) \/ Advances(e, x)
  <2>1. UNCHANGED <<queue, faults>> /\ entries_owed' = entries_owed \cup E
    BY <1>2 DEF D!Claim
  <2>2. Load(e, x)' = c + Owes(e)' - faults
    BY <2>1, SameQueue DEF c
  <2>3. CASE e \in E
    <3>1. Owes(e) = 0 /\ Owes(e)' = 1
      BY <1>2, <2>1, <2>3 DEF Owes
    <3>2. /\ entry_next'[e] \in clock + 1 .. clock + entry_period[e]
          /\ entry_next'[e] >= entry_next[e] + entry_period[e]
      BY <1>2, <2>3 DEF D!Claim
    <3> QED
      BY <1>1, <2>2, <3>1, <3>2 DEF Advances
  <2>4. CASE e \notin E
    <3>1. Owes(e)' = Owes(e)
      BY <2>1, <2>4 DEF Owes
    <3>2. entry_next'[e] = entry_next[e]
      BY <1>2, <2>4, EntryForm DEF D!Claim, D!OthersKeep
    <3> QED
      BY <1>1, <2>2, <3>1, <3>2 DEF Stays
  <2> QED
    BY <2>3, <2>4
<1>3. ASSUME NEW f \in entries_owed, D!Publish(f)
      PROVE  Stays(e, x)
  <2>1. /\ entry_next' = entry_next /\ faults' = faults /\ f \in Entry
        /\ entries_owed' = entries_owed \ {f} /\ D!Deliver(f)
    BY <1>3 DEF D!Publish, entries_owed
  <2>2. Cardinality(SentSince(e, x)') = IF e = f THEN c + 1 ELSE c
    BY <2>1, DeliverLoad DEF c
  <2>3. IF e = f THEN Owes(e) = 1 /\ Owes(e)' = 0 ELSE Owes(e)' = Owes(e)
    BY <2>1 DEF Owes
  <2>4. Load(e, x)' = Cardinality(SentSince(e, x)') + Owes(e)' - faults
    BY <2>1 DEF Load
  <2> QED
    BY <1>1, <2>1, <2>2, <2>3, <2>4 DEF Stays
<1>4. ASSUME NEW f \in entries_owed, D!Refuse(f)
      PROVE  Stays(e, x)
  <2>1. /\ entry_next' = entry_next /\ faults' = faults + 1 /\ f \in Entry
        /\ Owes(e)' = Owes(e)
        /\ D!Deliver(f) \/ queue' = queue
    BY <1>4 DEF D!Refuse, entries_owed, Owes
  <2>2. Cardinality(SentSince(e, x)') \in {c, c + 1}
    <3>1. CASE queue' = queue
      BY <3>1 DEF SentSince, c
    <3>2. CASE D!Deliver(f)
      BY <2>1, <3>2, DeliverLoad DEF c
    <3> QED
      BY <2>1, <3>1, <3>2
  <2>3. Load(e, x)' = Cardinality(SentSince(e, x)') + Owes(e) - (faults + 1)
    BY <2>1 DEF Load
  <2> QED
    BY <1>1, <2>1, <2>2, <2>3 DEF Stays
<1>5. ASSUME NEW E \in SUBSET entries_owed, D!GiveBack(E)
      PROVE  Stays(e, x) \/ Returns(e, x)
  <2>1. UNCHANGED <<queue, faults>> /\ entries_owed' = entries_owed \ E
    BY <1>5 DEF D!GiveBack
  <2>2. Load(e, x)' = c + Owes(e)' - faults
    BY <2>1, SameQueue DEF c
  <2>3. CASE e \in E
    <3>1. Owes(e) = 1 /\ Owes(e)' = 0
      BY <1>5, <2>1, <2>3 DEF Owes
    <3>2. /\ entry_next'[e] \in 0 .. clock
          /\ entry_next'[e] = entry_next[e] - entry_period[e]
      BY <1>5, <2>3 DEF D!GiveBack
    <3> QED
      BY <1>1, <2>2, <3>1, <3>2 DEF Returns
  <2>4. CASE e \notin E
    <3>1. Owes(e)' = Owes(e)
      BY <2>1, <2>4 DEF Owes
    <3>2. entry_next'[e] = entry_next[e]
      BY <1>5, <2>4, EntryForm DEF D!GiveBack, D!OthersKeep
    <3> QED
      BY <1>1, <2>2, <3>1, <3>2 DEF Stays
  <2> QED
    BY <2>3, <2>4
<1>6. ASSUME NEW E \in SUBSET entries_owed, D!Lose(E)
      PROVE  Stays(e, x)
  <2>1. /\ queue' = queue /\ faults' = faults + 1 /\ entry_next' = entry_next
        /\ entries_owed' = entries_owed \ E
    BY <1>6 DEF D!Lose
  <2>2. Load(e, x)' = c + Owes(e)' - (faults + 1)
    BY <2>1, SameQueue DEF c
  <2>3. Owes(e)' \in {0, 1} /\ Owes(e)' <= Owes(e)
    BY <2>1 DEF Owes
  <2> QED
    BY <1>1, <2>1, <2>2, <2>3 DEF Stays
<1> QED
  BY <1>2, <1>3, <1>4, <1>5, <1>6 DEF D!Next

\* An account of a messages at the time n, and of b at the time m, after a step.
Moves(a, b, n, m, i, now) ==
  \/ m = n /\ b <= a
  \/ m > now /\ m >= n + i /\ b = a + 1
  \/ m = n - i /\ b = a - 1

LEMMA RateKept ==
  ASSUME NEW a \in Int, NEW b \in Int, NEW n \in Nat, NEW m \in Nat,
         NEW i \in Nat, NEW now \in Nat, Moves(a, b, n, m, i, now), a * i <= n
  PROVE  b * i <= m
<1>1. /\ a * i \in Int /\ b * i \in Int /\ (a + 1) * i = a * i + i
      /\ (a - 1) * i = a * i - i /\ (b <= a => b * i <= a * i)
  BY Products
<1> QED
  BY <1>1 DEF Moves

LEMMA PaceKept ==
  ASSUME NEW a \in Int, NEW b \in Int, NEW n \in Nat, NEW m \in Nat,
         NEW i \in Nat \ {0}, NEW now \in Nat, NEW x \in Nat, x <= now,
         Moves(a, b, n, m, i, now),
         a <= 0 \/ a * i < n - x + i
  PROVE  b <= 0 \/ b * i < m - x + i
<1>1. CASE a <= 0 /\ m > now /\ b = a + 1
  <2>1. b <= 1 /\ 1 * i = i /\ 1 \in Int
    BY <1>1
  <2>2. b * i <= i /\ b * i \in Int
    BY <2>1, Products
  <2> QED
    BY <1>1, <2>2
<1>2. CASE a <= 0 /\ b <= a
  BY <1>2
<1>3. CASE a * i < n - x + i
  <2>1. /\ a * i \in Int /\ b * i \in Int /\ (a + 1) * i = a * i + i
        /\ (a - 1) * i = a * i - i /\ (b <= a => b * i <= a * i)
    BY Products
  <2> QED
    BY <1>3, <2>1 DEF Moves
<1> QED
  BY <1>1, <1>2, <1>3 DEF Moves

\* What each step keeps of an entry's pace.
LEMMA PacedStep ==
  ASSUME TypeOK, TypeOK', QueueInv, QueueInv', D!Next, ~D!Tick, entry_period' = entry_period,
         clock' = clock, NEW e \in Entry, Runnable(e), Paced(e)
  PROVE  Paced(e)'
<1> DEFINE i == entry_period[e]
           n == entry_next[e]
           m == entry_next'[e]
<1>1. i \in Nat \ {0} /\ n \in Nat /\ clock \in Nat
  BY EntryTypes DEF Runnable, TypeOK
<1>2. m \in Nat /\ m <= clock + i
  BY <1>1, LoadStep DEF Stays, Advances, Returns, Paced
<1>3. ASSUME NEW x \in Nat, x <= clock
      PROVE  /\ Load(e, x) \in Int /\ Load(e, x)' \in Int
             /\ Moves(Load(e, x), Load(e, x)', n, m, i, clock)
  <2>1. Load(e, x) \in Int /\ Load(e, x)' \in Int
    BY LoadType, LoadTypeAfter
  <2>2. Stays(e, x) \/ Advances(e, x) \/ Returns(e, x)
    BY <1>3, LoadStep
  <2> QED
    BY <2>1, <2>2 DEF Moves, Stays, Advances, Returns
<1>4. Load(e, 0)' * i <= m
  <2>1. 0 \in Nat /\ 0 <= clock /\ Load(e, 0) * i <= n
    BY <1>1 DEF Paced
  <2> QED
    BY <1>1, <1>2, <1>3, <2>1, RateKept
<1>5. ASSUME NEW x \in 0 .. clock
      PROVE  Load(e, x)' <= 0 \/ Load(e, x)' * i < m - x + i
  <2>1. /\ x \in Nat /\ x <= clock
        /\ Load(e, x) <= 0 \/ Load(e, x) * i < n - x + i
    BY <1>1 DEF Paced
  <2> QED
    BY <1>1, <1>2, <1>3, <2>1, PaceKept
<1> QED
  BY <1>2, <1>4, <1>5 DEF Paced

\* The clock passes: at the new time nothing was published yet, and what is owed
\* runs later still.
LEMMA PacedTick ==
  ASSUME TypeOK, QueueInv, D!Tick, NEW e \in Entry, Runnable(e), Paced(e)
  PROVE  Paced(e)'
<1> DEFINE i == entry_period[e]
           n == entry_next[e]
<1>1. /\ i \in Nat \ {0} /\ n \in Nat /\ clock \in Nat /\ clock' = clock + 1
      /\ UNCHANGED <<entry_period, entry_next, queue, faults>>
      /\ entries_owed' = entries_owed
  BY EntryTypes DEF Runnable, TypeOK, D!Tick
<1>2. \A x \in Nat : Load(e, x)' = Load(e, x)
  BY <1>1 DEF Load, SentSince, Owes
<1>3. n <= clock' + i /\ Load(e, 0)' * i <= n
  BY <1>1, <1>2 DEF Paced
<1>4. ASSUME NEW x \in 0 .. clock'
      PROVE  Load(e, x)' <= 0 \/ Load(e, x)' * i < n - x + i
  <2>1. CASE x <= clock
    <3>1. x \in 0 .. clock /\ x \in Nat
      BY <1>1, <2>1
    <3> QED
      BY <1>2, <3>1 DEF Paced
  <2>2. CASE x = clock + 1
    <3> DEFINE l == Load(e, x)
    <3>1. x \in Nat /\ SentSince(e, x) = {}
      <4>1. \A msg \in queue : msg.eta \in Nat /\ msg.eta <= clock
        BY DEF QueueInv, TypeOK, Message
      <4> QED
        BY <1>1, <2>2, <4>1 DEF SentSince
    <3>2. l = Owes(e) - faults
      BY <3>1, FS_EmptySet DEF Load, TypeOK, Owes
    <3>3. faults \in Nat /\ Owes(e) \in {0, 1}
      BY DEF TypeOK, Owes
    <3> HIDE DEF l
    <3>4. CASE e \in entries_owed /\ l = 1
      <4>1. x < n
        BY <2>2, <3>4 DEF D!Tick
      <4>2. 1 * i = i
        BY <1>1
      <4>3. l * i < n - x + i
        BY <1>1, <3>1, <3>4, <4>1, <4>2
      <4> QED
        BY <1>2, <3>1, <4>3 DEF l
    <3>5. CASE ~(e \in entries_owed /\ l = 1)
      <4>1. l <= 0
        BY <3>2, <3>3, <3>5 DEF Owes
      <4> QED
        BY <1>2, <3>1, <4>1 DEF l
    <3> QED
      BY <3>4, <3>5
  <2> QED
    BY <1>1, <2>1, <2>2
<1> QED
  BY <1>1, <1>3, <1>4 DEF Paced

LEMMA QueueInvStep ==
  ASSUME TypeOK, TypeOK', QueueInv, [D!Next]_(D!vars), entry_period' = entry_period
  PROVE  QueueInv' /\ \A e \in Entry : Runnable(e)' <=> Runnable(e)
<1>1. ASSUME NEW e \in Entry
      PROVE  Runnable(e)' <=> Runnable(e)
  <2> DEFINE n == entry_next'[e]
  <2>1. entry_period[e] # NULL => entry_period[e] \in Nat
    BY EntryTypes
  <2>2. clock \in Nat /\ (entry_next[e] # NULL => entry_next[e] \in Nat)
    BY EntryTypes DEF TypeOK
  <2>3. n \in Int => n # NULL
    BY NullAssumption
  <2>4. n = entry_next[e] \/ (n \in Int /\ Runnable(e))
    <3>1. ASSUME NEW E \in SUBSET (D!Entry \ entries_owed), D!Claim(E)
          PROVE  n = entry_next[e] \/ (n \in Int /\ Runnable(e))
      BY <2>1, <2>2, <3>1, EntryForm DEF D!Claim, D!OthersKeep, Runnable
    <3>2. ASSUME NEW E \in SUBSET entries_owed, D!GiveBack(E)
          PROVE  n = entry_next[e] \/ (n \in Int /\ Runnable(e))
      <4>1. CASE e \in E
        BY <2>2, <3>2, <4>1 DEF D!GiveBack, QueueInv
      <4>2. CASE e \notin E
        BY <3>2, <4>2, EntryForm DEF D!GiveBack, D!OthersKeep
      <4> QED
        BY <4>1, <4>2
    <3>3. ASSUME entry_next' = entry_next
          PROVE  n = entry_next[e]
      BY <3>3
    <3> QED
      BY <3>1, <3>2, <3>3 DEF D!Next, D!Tick, D!Publish, D!Refuse, D!Lose, D!vars
  <2> QED
    BY <2>3, <2>4 DEF Runnable
<1>2. ASSUME queue' = queue, sent' = sent, clock' >= clock, clock' \in Nat,
             \A e \in entries_owed' : e \in Entry /\ Runnable(e)
      PROVE  QueueInv'
  <2>1. \A msg \in queue : msg.eta <= clock'
    <3>1. \A msg \in queue : msg.eta \in Nat /\ msg.eta <= clock /\ clock \in Nat
      BY DEF QueueInv, TypeOK, Message
    <3> QED
      BY <1>2, <3>1
  <2>2. \A e \in entries_owed' : Runnable(e)'
    BY <1>1, <1>2
  <2> QED
    BY <1>1, <1>2, <2>1, <2>2 DEF QueueInv
<1>3. ASSUME NEW e \in entries_owed, D!Deliver(e), clock' = clock,
             entries_owed' \subseteq entries_owed
      PROVE  QueueInv'
  <2> DEFINE msg == NewMessage(sent, e[1], e[2], clock, clock + entry_period[e])
  <2>1. queue' = queue \cup {msg} /\ sent' = sent + 1
    BY <1>3 DEF D!Deliver, D!NewMessage, NewMessage
  <2>2. /\ msg.task = sent /\ msg.kind = e[1] /\ msg.mon = e[2] /\ msg.eta = clock
        /\ msg.expires = clock + entry_period[e]
    BY DEF NewMessage
  <2> HIDE DEF msg
  <2>3. /\ e \in Entry /\ Runnable(e) /\ sent \in Nat /\ clock \in Nat
        /\ \A other \in queue : other.task \in Nat
    BY <1>3 DEF entries_owed, QueueInv, TypeOK, Message
  <2>4. IsFiniteSet(queue')
    BY <2>1, FS_AddElement DEF QueueInv
  <2>5. \A other \in queue' : other.task < sent' /\ other.eta <= clock'
    BY <1>3, <2>1, <2>2, <2>3 DEF QueueInv
  <2>6. ASSUME NEW other \in queue', NEW f \in Entry, other.kind = f[1], other.mon = f[2]
        PROVE  Runnable(f)' /\ other.expires = other.eta + entry_period'[f]
    <3>1. CASE other \in queue
      BY <1>1, <2>6, <3>1 DEF QueueInv
    <3>2. CASE other = msg
      <4>1. f = e
        BY <2>2, <2>3, <2>6, <3>2, EntryForm
      <4> QED
        BY <1>1, <2>2, <2>3, <3>2, <4>1
    <3> QED
      BY <2>1, <3>1, <3>2
  <2>7. \A f \in entries_owed' : Runnable(f)'
    BY <1>1, <1>3 DEF QueueInv, entries_owed
  <2> QED
    BY <2>4, <2>5, <2>6, <2>7 DEF QueueInv
<1>4. clock \in Nat /\ \A e \in entries_owed : e \in Entry /\ Runnable(e)
  BY DEF TypeOK, QueueInv, entries_owed
<1>5. CASE D!Tick \/ UNCHANGED D!vars
  <2>1. /\ queue' = queue /\ sent' = sent /\ entries_owed' = entries_owed
        /\ clock' \in {clock, clock + 1}
    BY <1>5 DEF D!Tick, D!vars
  <2>2. clock' >= clock /\ clock' \in Nat
    BY <1>4, <2>1
  <2>3. \A e \in entries_owed' : e \in Entry /\ Runnable(e)
    BY <1>4, <2>1
  <2> QED
    BY <1>1, <1>2, <2>1, <2>2, <2>3
<1>6. ASSUME NEW E \in SUBSET (D!Entry \ entries_owed), D!Claim(E)
      PROVE  QueueInv'
  <2>1. \A e \in E : e \in Entry /\ Runnable(e)
    BY <1>6, EntryForm DEF D!Claim, Runnable
  <2> QED
    BY <1>2, <1>4, <1>6, <2>1 DEF D!Claim
<1>7. ASSUME NEW e \in entries_owed, D!Publish(e) \/ D!Refuse(e)
      PROVE  QueueInv'
  <2>1. clock' = clock /\ entries_owed' \subseteq entries_owed
    BY <1>7 DEF D!Publish, D!Refuse
  <2>2. D!Deliver(e) \/ UNCHANGED <<queue, sent>>
    BY <1>7 DEF D!Publish, D!Refuse
  <2>3. CASE UNCHANGED <<queue, sent>>
    BY <1>2, <1>4, <2>1, <2>3
  <2> QED
    BY <1>3, <2>1, <2>2, <2>3
<1>8. ASSUME NEW E \in SUBSET entries_owed, D!GiveBack(E) \/ D!Lose(E)
      PROVE  QueueInv'
  BY <1>2, <1>4, <1>8 DEF D!GiveBack, D!Lose
<1> QED
  BY <1>1, <1>5, <1>6, <1>7, <1>8 DEF D!Next

-----------------------------------------------------------------------------
(* Theorems *)

LEMMA RateInit == Init => RateInv
<1> SUFFICES ASSUME Init
             PROVE  RateInv
  OBVIOUS
<1>1. /\ TypeOK /\ clock = 0 /\ faults = 0 /\ queue = {} /\ entries_owed = {}
      /\ entry_next \in [D!Entry -> {0, NULL}]
  BY IInvInit, InitSimulated DEF IInv, Init, D!Init
<1>2. QueueInv
  BY <1>1, FS_EmptySet DEF QueueInv
<1>3. ASSUME NEW e \in Entry, Runnable(e)
      PROVE  Paced(e)
  <2>1. entry_next[e] = 0 /\ entry_period[e] \in Nat \ {0}
    BY <1>1, <1>3, EntryForm, EntryTypes DEF Runnable
  <2>2. \A x : SentSince(e, x) = {} /\ Owes(e) = 0
    BY <1>1 DEF SentSince, Owes
  <2>3. \A x : Load(e, x) = 0
    BY <1>1, <2>2, FS_EmptySet DEF Load
  <2>4. 0 * entry_period[e] = 0
    BY <2>1
  <2> QED
    BY <1>1, <2>1, <2>3, <2>4 DEF Paced
<1> QED
  BY <1>2, <1>3 DEF RateInv

LEMMA RateStep ==
  LimitBelowIntervals /\ IInv /\ ItemsCurrent /\ RateInv /\ [Next]_vars => RateInv'
<1> SUFFICES ASSUME LimitBelowIntervals, IInv, ItemsCurrent, RateInv, [Next]_vars
             PROVE  RateInv'
  OBVIOUS
<1>1. TypeOK /\ TypeOK' /\ QueueInv
  BY TypeStep DEF IInv, RateInv
<1>2. [D!Next]_(D!vars) /\ entry_period' = entry_period
  BY <1>1, StepSimulated, PeriodsStay
<1>3. QueueInv' /\ \A e \in Entry : Runnable(e)' <=> Runnable(e)
  BY <1>1, <1>2, QueueInvStep
<1>4. ASSUME NEW e \in Entry, Runnable(e)
      PROVE  Paced(e)'
  <2>1. Paced(e)
    BY <1>4 DEF RateInv
  <2>2. CASE D!Tick
    BY <1>1, <1>4, <2>1, <2>2, PacedTick
  <2>3. CASE D!Next /\ ~D!Tick
    <3>1. clock' = clock
      BY <2>3 DEF D!Next, D!Claim, D!Publish, D!Refuse, D!GiveBack, D!Lose
    <3> QED
      BY <1>1, <1>2, <1>3, <1>4, <2>1, <2>3, <3>1, PacedStep
  <2>4. CASE UNCHANGED D!vars
    BY <2>1, <2>4 DEF D!vars, Paced, Load, SentSince, Owes
  <2> QED
    BY <1>2, <2>2, <2>3, <2>4
<1> QED
  BY <1>3, <1>4 DEF RateInv

\* While no sweep outlives the shortest interval, a schedule gets a message for
\* each interval that has passed and one for each fault, and no more, however
\* many sweeps of sweep_due_monitors overlap on it and reset their claims.
THEOREM RatesAreBounded ==
  ASSUME LimitBelowIntervals
  PROVE  Spec => []RateBounded
<1>1. ASSUME IInv, RateInv, NEW m \in Mons, NEW kind \in CheckType,
             IntervalOf(monitors[m], kind) # NULL
      PROVE  Cardinality(Published(m, kind))
               <= 1 + (clock \div IntervalOf(monitors[m], kind)) + faults
  <2> DEFINE e == <<kind, m>>
             i == entry_period[e]
             p == Cardinality(SentSince(e, 0))
             q == clock \div i
             l == Load(e, 0)
  <2>1. TypeOK /\ QueueInv /\ e \in Entry /\ clock \in Nat /\ i = IntervalOf(monitors[m], kind)
    BY <1>1, Reading DEF IInv, RateInv, TypeOK, Entry
  <2>2. Published(m, kind) = SentSince(e, 0)
    <3>1. \A msg \in queue : msg.eta \in Nat
      BY <2>1 DEF TypeOK, Message
    <3> QED
      BY <3>1 DEF Published, SentSince
  <2>3. p \in Nat /\ faults \in Nat /\ l \in Int /\ l >= p - faults
    BY <2>1, LoadType DEF Load
  <2>4. i \in Nat \ {0}
    BY <1>1, <2>1, EntryTypes
  <2> HIDE DEF e, i
  <2>5. q \in Nat /\ clock < (q + 1) * i
    BY <2>1, <2>4, Quotient
  <2>6. CASE Runnable(e)
    <3>1. entry_next[e] \in Nat /\ entry_next[e] <= clock + i /\ l * i <= entry_next[e]
      BY <1>1, <2>1, <2>6, EntryTypes DEF RateInv, Paced, Runnable, i
    <3> HIDE DEF l, q, p
    <3>2. /\ (q + 1) * i \in Int /\ l * i \in Int
          /\ ((q + 1) + 1) * i = (q + 1) * i + i /\ q + 1 \in Int
      BY <2>3, <2>4, <2>5, Products
    <3>3. l * i < ((q + 1) + 1) * i
      BY <2>1, <2>4, <2>5, <3>1, <3>2
    <3>4. l < (q + 1) + 1
      BY <2>3, <2>4, <2>5, <3>3, Products
    <3>5. p <= 1 + q + faults
      BY <2>3, <2>5, <3>4
    <3> QED
      BY <2>1, <2>2, <3>5 DEF p, q
  <2>7. CASE ~Runnable(e)
    <3>1. SentSince(e, 0) = {}
      BY <2>1, <2>7 DEF QueueInv, SentSince
    <3>2. p = 0
      BY <3>1, FS_EmptySet
    <3> QED
      BY <2>1, <2>2, <2>3, <2>5, <3>2
  <2> QED
    BY <2>6, <2>7
<1>2. IInv /\ RateInv => RateBounded
  BY <1>1 DEF RateBounded
<1>3. Init => ItemsCurrent
  BY DEF Init, ItemsCurrent, IdleSweep
<1>4. IInv /\ ItemsCurrent /\ RateInv /\ [Next]_vars => RateInv'
  BY RateStep
<1>5. IInv /\ ItemsCurrent /\ [Next]_vars => IInv' /\ ItemsCurrent'
  BY IInvStep, ItemsCurrentStep
<1> QED
  BY <1>2, <1>3, <1>4, <1>5, IInvInit, RateInit, PTL DEF Spec

\* While no sweep outlives the shortest interval, the expiry apply_async sets
\* leaves at most two live messages of a schedule in the broker, and one more
\* for each fault, if no worker consumes any.
THEOREM BacklogIsBounded ==
  ASSUME LimitBelowIntervals
  PROVE  Spec => []BacklogBounded
<1>1. ASSUME IInv, RateInv, NEW m \in Mons, NEW kind \in CheckType
      PROVE  Cardinality(Unexpired(m, kind)) <= 2 + faults
  <2> DEFINE e == <<kind, m>>
             i == entry_period[e]
             live == Unexpired(m, kind)
             x == IF clock >= i THEN clock - i ELSE 0
             p == Cardinality(SentSince(e, x))
             l == Load(e, x)
  <2>1. TypeOK /\ QueueInv /\ e \in Entry /\ clock \in Nat /\ faults \in Nat
    BY <1>1 DEF IInv, RateInv, TypeOK, Entry
  <2>2. \A msg \in live : msg \in queue /\ msg.kind = e[1] /\ msg.mon = e[2]
                          /\ (msg.expires = NULL \/ ~(msg.expires < clock))
    BY DEF Unexpired, Expired
  <2> HIDE DEF e, i, live
  <2>3. CASE Runnable(e)
    <3>1. i \in Nat \ {0} /\ entry_next[e] \in Nat /\ Paced(e)
      BY <1>1, <2>1, <2>3, EntryTypes DEF Runnable, RateInv, i
    <3>2. x \in Nat /\ x <= clock /\ x \in 0 .. clock
      BY <2>1, <3>1
    <3>3. live \subseteq SentSince(e, x)
      <4>1. \A msg \in live : msg.eta \in Nat /\ msg.expires = msg.eta + i
        BY <2>1, <2>2 DEF QueueInv, TypeOK, Message, i
      <4>2. \A msg \in live : msg.eta + i >= clock
        BY <2>1, <2>2, <3>1, <4>1, NullAssumption
      <4>3. \A msg \in live : msg.eta >= x
        BY <2>1, <3>1, <4>1, <4>2
      <4> HIDE DEF x
      <4> QED
        BY <2>2, <4>3 DEF SentSince
    <3>4. p \in Nat /\ l \in Int /\ l >= p - faults /\ IsFiniteSet(SentSince(e, x))
      BY <2>1, <3>2, LoadType DEF Load
    <3>5. Cardinality(live) <= p /\ Cardinality(live) \in Nat
      BY <3>3, <3>4, FS_Subset, FS_CardinalityType
    <3>6. l <= 2
      <4>1. /\ entry_next[e] <= clock + i
            /\ Load(e, 0) * i <= entry_next[e]
            /\ l <= 0 \/ l * i < entry_next[e] - x + i
        BY <3>1, <3>2 DEF Paced, i
      <4>2. l <= 0 \/ l * i < i + i + i
        <5>1. CASE clock >= i
          <6>1. l * i \in Int /\ x = clock - i
            BY <3>1, <3>4, <5>1, Products
          <6> HIDE DEF x, l
          <6> QED
            BY <2>1, <3>1, <4>1, <5>1, <6>1
        <5>2. CASE ~(clock >= i)
          <6>1. l * i \in Int /\ l * i <= entry_next[e]
            BY <3>1, <3>4, <4>1, <5>2, Products
          <6> QED
            BY <2>1, <3>1, <4>1, <5>2, <6>1
        <5> QED
          BY <5>1, <5>2
      <4>3. 3 * i = i + i + i /\ 3 \in Int
        BY <3>1
      <4> HIDE DEF l
      <4>4. l * i < 3 * i => l < 3
        BY <3>1, <3>4, <4>3, Products
      <4> QED
        BY <3>4, <4>2, <4>3, <4>4
    <3> HIDE DEF p, l
    <3> QED
      BY <2>1, <3>4, <3>5, <3>6 DEF live
  <2>4. CASE ~Runnable(e)
    <3>1. live = {}
      BY <2>1, <2>2, <2>4 DEF QueueInv
    <3> QED
      BY <2>1, <3>1, FS_EmptySet DEF live
  <2> QED
    BY <2>3, <2>4
<1>2. IInv /\ RateInv => BacklogBounded
  BY <1>1 DEF BacklogBounded
<1>3. Init => ItemsCurrent
  BY DEF Init, ItemsCurrent, IdleSweep
<1>4. IInv /\ ItemsCurrent /\ RateInv /\ [Next]_vars => RateInv'
  BY RateStep
<1>5. IInv /\ ItemsCurrent /\ [Next]_vars => IInv' /\ ItemsCurrent'
  BY IInvStep, ItemsCurrentStep
<1> QED
  BY <1>2, <1>3, <1>4, <1>5, IInvInit, RateInit, PTL DEF Spec
=============================================================================
