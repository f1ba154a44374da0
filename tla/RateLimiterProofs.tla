-------------------------- MODULE RateLimiterProofs --------------------------
(***************************************************************************)
(* Proofs about RateLimiter, for any number of handlers, any limit and     *)
(* any window.                                                             *)
(***************************************************************************)
EXTENDS RateLimiter, FiniteSetTheorems, TLAPS

LEMMA NullIsNothingElse ==
  /\ NULL \notin Nat
  /\ \A c \in Counter : c # NULL
BY LimiterAssumption DEF Counter

\* What INCR and EXPIRE leave is a counter.
LEMMA IncrementedType ==
  ASSUME TypeOK
  PROVE  Incremented \in Counter
<1>1. CASE counter = NULL
  BY <1>1, LimiterAssumption DEF Incremented, Counter
<1>2. CASE counter # NULL
  <2>1. counter \in Counter
    BY <1>2 DEF TypeOK
  <2> QED BY <1>2, <2>1, LimiterAssumption DEF Incremented, Counter
<1> QED BY <1>1, <1>2

LEMMA ExpiringType ==
  ASSUME TypeOK
  PROVE  /\ Expiring \in Counter \cup {NULL}
         /\ Expiring # NULL => Expiring.ttl = window_seconds
<1>1. CASE counter = NULL
  BY <1>1 DEF Expiring
<1>2. CASE counter # NULL
  <2>1. counter \in Counter
    BY <1>2 DEF TypeOK
  <2> QED BY <1>2, <2>1, LimiterAssumption DEF Expiring, Counter
<1> QED BY <1>1, <1>2

\* The answers of TTL, and what they say of the counter.
LEMMA TtlAnswers ==
  ASSUME NEW c \in Counter, NEW ttl \in Ttl(c)
  PROVE  /\ ttl \in -1 .. window_seconds
         /\ ttl >= 0 => c.ttl \in 1 .. window_seconds /\ c.ttl <= ttl + 1
<1>1. CASE c.ttl = NULL
  BY <1>1, LimiterAssumption DEF Ttl
<1>2. CASE c.ttl # NULL
  <2>1. c.ttl \in 1 .. window_seconds
    BY <1>2 DEF Counter
  <2> QED BY <1>2, <2>1, LimiterAssumption DEF Ttl
<1> QED BY <1>1, <1>2

LEMMA RetryAfterType ==
  ASSUME NEW ttl \in -1 .. window_seconds
  PROVE  retry_after(ttl) \in 1 .. window_seconds /\ retry_after(ttl) >= ttl
BY LimiterAssumption DEF retry_after

-----------------------------------------------------------------------------
(* The end of hit: it keeps the types, and a 429 it decides on is true. *)

TrueWhenSent(r) ==
  req'[r].pc = "refused" =>
    \/ counter' = NULL
    \/ counter'.ttl # NULL /\ counter'.ttl <= req'[r].retry_after + 1

LEMMA DecideIsSound ==
  ASSUME TypeOK, NEW r \in Requests, NEW count, NEW ttl \in -1 .. window_seconds, NEW age,
         Decide(r, count, ttl, age), counter' \in Counter \cup {NULL},
         counter' # NULL => counter'.ttl \in 1 .. window_seconds /\ counter'.ttl <= ttl + 1
  PROVE  /\ TypeOK'
         /\ TrueWhenSent(r)
         /\ \A q \in Requests \ {r} : req'[q] = req[q]
<1>1. CASE /\ req' = [req EXCEPT ![r] = Idle]
           /\ admitted' = IF age \in Ages THEN [admitted EXCEPT ![age] = @ + 1] ELSE admitted
           /\ UNCHANGED refusing
  <2>1. admitted' \in [Ages -> Nat]
    BY <1>1 DEF TypeOK
  <2>2. req'[r].pc = "idle"
    BY <1>1 DEF TypeOK, Idle
  <2> QED BY <1>1, <2>1, <2>2 DEF TypeOK, TrueWhenSent
<1>2. CASE /\ req' = [req EXCEPT ![r] = [pc |-> "refused", retry_after |-> retry_after(ttl)]]
           /\ refusing' = (counter' # NULL)
           /\ UNCHANGED admitted
  <2>1. retry_after(ttl) \in 1 .. window_seconds /\ retry_after(ttl) >= ttl
    BY RetryAfterType
  <2>2. req'[r] = [pc |-> "refused", retry_after |-> retry_after(ttl)]
    BY <1>2 DEF TypeOK
  <2>3. req' \in [Requests -> {Idle}
       \cup [pc : {"expire"}, count : 1 .. (limit + 1), age : 0 .. window_seconds]
       \cup [pc : {"refused"}, retry_after : 1 .. window_seconds]]
    BY <1>2, <2>1 DEF TypeOK
  <2>4. refusing' \in BOOLEAN
    BY <1>2
  <2>5. TypeOK'
    BY <1>2, <2>3, <2>4 DEF TypeOK
  <2>6. ASSUME counter' # NULL
        PROVE  counter'.ttl # NULL /\ counter'.ttl <= req'[r].retry_after + 1
    <3>1. req'[r].retry_after = retry_after(ttl)
      BY <2>2
    <3>2. counter'.ttl \in 1 .. window_seconds /\ counter'.ttl <= ttl + 1
      BY <2>6
    <3> QED BY <2>1, <3>1, <3>2, LimiterAssumption
  <2>7. \A q \in Requests \ {r} : req'[q] = req[q]
    BY <1>2 DEF TypeOK
  <2> QED BY <2>5, <2>6, <2>7 DEF TrueWhenSent
<1> QED BY <1>1, <1>2 DEF Decide

\* A handler that is not the one refused: its step and those of the others.
LEMMA OthersStay ==
  ASSUME NEW r \in Requests, \A q \in Requests \ {r} : req'[q] = req[q], TrueWhenSent(r)
  PROVE  \A q \in Requests :
           req[q].pc # "refused" /\ req'[q].pc = "refused" =>
             \/ counter' = NULL
             \/ counter'.ttl # NULL /\ counter'.ttl <= req'[q].retry_after + 1
BY DEF TrueWhenSent

-----------------------------------------------------------------------------

LEMMA TypeInit ==
  ASSUME Init
  PROVE  TypeOK
<1>1. counter \in Counter \cup {NULL} /\ refusing \in BOOLEAN
  BY DEF Init
<1>2. admitted \in [Ages -> Nat]
  BY DEF Init
<1>3. req \in [Requests -> {Idle}
       \cup [pc : {"expire"}, count : 1 .. (limit + 1), age : 0 .. window_seconds]
       \cup [pc : {"refused"}, retry_after : 1 .. window_seconds]]
  BY DEF Init
<1> QED BY <1>1, <1>2, <1>3 DEF TypeOK

Sound ==
  /\ TypeOK'
  /\ \A r \in Requests :
       req[r].pc # "refused" /\ req'[r].pc = "refused" =>
         \/ counter' = NULL
         \/ counter'.ttl # NULL /\ counter'.ttl <= req'[r].retry_after + 1

LEMMA StepIsSound ==
  ASSUME TypeOK, [Next]_vars
  PROVE  Sound
<1>1. CASE UNCHANGED vars
  BY <1>1 DEF vars, Sound, TypeOK
<1>2. CASE Tick
  <2>1. counter' \in Counter \cup {NULL}
    <3>1. CASE counter = NULL \/ counter.ttl = NULL
      BY <1>2, <3>1 DEF Tick, TypeOK
    <3>2. CASE counter # NULL /\ counter.ttl # NULL
      <4>1. counter \in Counter /\ counter.ttl \in 1 .. window_seconds
        BY <3>2 DEF TypeOK, Counter
      <4> QED BY <1>2, <3>2, <4>1, LimiterAssumption DEF Tick, Counter
    <3> QED BY <3>1, <3>2
  <2>2. admitted' \in [Ages -> Nat]
    BY <1>2, LimiterAssumption DEF Tick, TypeOK, Ages
  <2>3. ASSUME NEW r \in Requests
        PROVE  /\ req'[r] \in {Idle}
                    \cup [pc : {"expire"}, count : 1 .. (limit + 1), age : 0 .. window_seconds]
                    \cup [pc : {"refused"}, retry_after : 1 .. window_seconds]
               /\ req'[r].pc = req[r].pc
    <3>1. CASE req[r].pc = "expire" /\ req[r].age < window_seconds
      <4>1. req[r] \in [pc : {"expire"}, count : 1 .. (limit + 1), age : 0 .. window_seconds]
        BY <3>1 DEF TypeOK, Idle
      <4>2. req'[r] = [req[r] EXCEPT !.age = @ + 1]
        BY <1>2, <3>1 DEF Tick
      <4> QED BY <3>1, <4>1, <4>2, LimiterAssumption
    <3>2. CASE ~(req[r].pc = "expire" /\ req[r].age < window_seconds)
      BY <1>2, <3>2 DEF Tick, TypeOK
    <3> QED BY <3>1, <3>2
  <2>4. refusing' \in BOOLEAN
    BY <1>2 DEF Tick
  <2>5. req' \in [Requests -> {Idle}
          \cup [pc : {"expire"}, count : 1 .. (limit + 1), age : 0 .. window_seconds]
          \cup [pc : {"refused"}, retry_after : 1 .. window_seconds]]
    BY <1>2, <2>3 DEF Tick
  <2>6. TypeOK'
    BY <2>1, <2>2, <2>4, <2>5 DEF TypeOK
  <2> QED BY <2>3, <2>6 DEF Sound
<1>3. ASSUME NEW r \in Requests,
             Hit(r) \/ Expire(r) \/ HitFails(r) \/ ExpireFails(r) \/ Refuse(r)
      PROVE  Sound
  <2>1. CASE Hit(r)
    <3>1. Incremented \in Counter
      BY IncrementedType
    <3>2. counter' = Incremented /\ counter' # NULL
      BY <2>1, <3>1, NullIsNothingElse DEF Hit
    <3>3. PICK ttl \in Ttl(Incremented) :
             \/ /\ NeedsExpire(Incremented.count, ttl)
                /\ req' = [req EXCEPT ![r] =
                             [pc |-> "expire", count |-> Incremented.count, age |-> 0]]
                /\ UNCHANGED <<admitted, refusing>>
             \/ /\ ~NeedsExpire(Incremented.count, ttl)
                /\ Decide(r, Incremented.count, ttl, 0)
      BY <2>1 DEF Hit
    <3>4. ttl \in -1 .. window_seconds
      BY <3>1, TtlAnswers
    <3>5. CASE NeedsExpire(Incremented.count, ttl)
      <4>1. /\ req' = [req EXCEPT ![r] =
                         [pc |-> "expire", count |-> Incremented.count, age |-> 0]]
            /\ UNCHANGED <<admitted, refusing>>
        BY <3>3, <3>5
      <4>2. [pc |-> "expire", count |-> Incremented.count, age |-> 0]
              \in [pc : {"expire"}, count : 1 .. (limit + 1), age : 0 .. window_seconds]
        BY <3>1, LimiterAssumption DEF Counter
      <4>3. TypeOK'
        BY <3>1, <3>2, <4>1, <4>2 DEF TypeOK
      <4>4. req'[r].pc = "expire"
        BY <4>1 DEF TypeOK
      <4>5. \A q \in Requests \ {r} : req'[q] = req[q]
        BY <4>1 DEF TypeOK
      <4> QED BY <4>3, <4>4, <4>5 DEF Sound
    <3>6. CASE ~NeedsExpire(Incremented.count, ttl)
      <4>1. ttl >= 0
        BY <3>4, <3>6 DEF NeedsExpire
      <4>2. counter'.ttl \in 1 .. window_seconds /\ counter'.ttl <= ttl + 1
        BY <3>1, <3>2, <4>1, TtlAnswers
      <4>3. Decide(r, Incremented.count, ttl, 0)
        BY <3>3, <3>6
      <4> QED BY <3>1, <3>2, <3>4, <4>2, <4>3, DecideIsSound, OthersStay DEF Sound
    <3> QED BY <3>5, <3>6
  <2>2. CASE Expire(r)
    <3>1. counter' = Expiring /\ Decide(r, req[r].count, window_seconds, req[r].age)
      BY <2>2 DEF Expire, TtlSet
    <3>2. /\ counter' \in Counter \cup {NULL}
          /\ counter' # NULL => counter'.ttl = window_seconds
      BY <3>1, ExpiringType
    <3>3. counter' # NULL =>
            counter'.ttl \in 1 .. window_seconds /\ counter'.ttl <= window_seconds + 1
      BY <3>2, LimiterAssumption
    <3>4. window_seconds \in -1 .. window_seconds
      BY LimiterAssumption
    <3> QED BY <3>1, <3>2, <3>3, <3>4, DecideIsSound, OthersStay DEF Sound
  <2>3. CASE HitFails(r)
    <3>1. Incremented \in Counter
      BY IncrementedType
    <3> QED BY <2>3, <3>1 DEF HitFails, Sound, TypeOK
  <2>4. CASE ExpireFails(r) \/ Refuse(r)
    <3>1. counter' \in Counter \cup {NULL}
      BY <2>4, ExpiringType DEF ExpireFails, Refuse, TypeOK
    <3>2. req' = [req EXCEPT ![r] = Idle] /\ UNCHANGED <<admitted, refusing>>
      BY <2>4 DEF ExpireFails, Refuse
    <3>3. TypeOK'
      BY <3>1, <3>2 DEF TypeOK
    <3>4. req'[r].pc = "idle" /\ \A q \in Requests \ {r} : req'[q] = req[q]
      BY <3>2 DEF TypeOK, Idle
    <3> QED BY <3>3, <3>4 DEF Sound
  <2> QED BY <1>3, <2>1, <2>2, <2>3, <2>4
<1> QED BY <1>1, <1>2, <1>3 DEF Next

\* Every handler of the limiter, and the counter, keeps its type.
THEOREM TypeCorrect == Spec => []TypeOK
<1>1. TypeOK /\ [Next]_vars => TypeOK'
  BY StepIsSound DEF Sound
<1> QED BY <1>1, TypeInit, PTL DEF Spec

\* A 429 is never sent for a counter without an expiry (the repair of ttl < 0),
\* nor with a Retry-After that ends before the counter does.
THEOREM RetryAfterIsHonest == Spec => RetryAfterIsTrue
<1>1. TypeOK /\ [Next]_vars =>
        [\A r \in Requests :
           req[r].pc # "refused" /\ req'[r].pc = "refused" =>
             \/ counter' = NULL
             \/ counter'.ttl # NULL /\ counter'.ttl <= req'[r].retry_after + 1]_vars
  BY StepIsSound DEF Sound
<1> QED BY <1>1, TypeCorrect, PTL DEF Spec, RetryAfterIsTrue
-----------------------------------------------------------------------------
(* Twice the limit.  A counter admits at most its count, and never more     *)
(* than the limit; with an expiry of ttl, its hits are those younger than   *)
(* window_seconds - ttl, and when it ends they are all of the window.       *)

\* Handlers whose hit is admitted once their EXPIRE returns.
Undecided(seconds) ==
  {r \in Requests : req[r].pc = "expire" /\ req[r].count <= limit /\ req[r].age < seconds}

Weight(seconds) == Cardinality(Admitted(seconds)) + Cardinality(Undecided(seconds))

\* What the counter has admitted, or was asked by hits that failed.
Spent == IF counter.count <= limit THEN counter.count ELSE limit

WindowInv ==
  IF counter = NULL THEN Weight(window_seconds) <= limit
  ELSE /\ Weight(window_seconds) <= limit + Spent
       /\ \A seconds \in 0 .. window_seconds :
            counter.ttl = window_seconds - seconds => Weight(seconds) <= Spent

LEMMA HitsOf ==
  ASSUME NEW seconds, NEW hit
  PROVE  hit \in Admitted(seconds) <=>
           \E age \in Ages : \E n \in 1 .. admitted[age] : age < seconds /\ hit = <<age, n>>
BY DEF Admitted

LEMMA FiniteWeight ==
  ASSUME TypeOK, NEW seconds
  PROVE  /\ IsFiniteSet(Admitted(seconds)) /\ IsFiniteSet(Undecided(seconds))
         /\ Cardinality(Admitted(seconds)) \in Nat /\ Cardinality(Undecided(seconds)) \in Nat
<1> DEFINE young == {age \in Ages : age < seconds}
           hits(age) == {age} \X (1 .. admitted[age])
           parts == {hits(age) : age \in young}
           part == [age \in young |-> hits(age)]
<1>1. IsFiniteSet(young)
  <2>1. IsFiniteSet(Ages)
    BY LimiterAssumption, FS_Interval DEF Ages
  <2> QED BY <2>1, FS_Subset
<1>2. IsFiniteSet(parts)
  <2>1. part \in Surjection(young, parts)
    BY DEF Surjection
  <2> HIDE DEF young, parts, part
  <2> QED BY <1>1, <2>1, FS_Surjection
<1>3. ASSUME NEW age \in young
      PROVE  IsFiniteSet(hits(age))
  <2>1. admitted[age] \in Nat
    BY DEF TypeOK
  <2>2. IsFiniteSet({age})
    BY FS_Singleton
  <2>3. IsFiniteSet(1 .. admitted[age])
    BY <2>1, FS_Interval
  <2> QED BY <2>2, <2>3, FS_Product
<1>4. IsFiniteSet(Admitted(seconds))
  <2>1. \A T \in parts : IsFiniteSet(T)
    BY <1>3
  <2>2. Admitted(seconds) = UNION parts
    BY DEF Admitted
  <2> HIDE DEF parts
  <2> QED BY <1>2, <2>1, <2>2, FS_UNION
<1>5. IsFiniteSet(Undecided(seconds))
  BY LimiterAssumption, FS_Subset DEF Undecided
<1> QED BY <1>4, <1>5, FS_CardinalityType

\* The handlers other than r, and r itself, before and after r moves.
LEMMA OneDecides ==
  ASSUME NEW r \in Requests, \A q \in Requests \ {r} : req'[q] = req[q], NEW seconds
  PROVE  /\ Cardinality(Undecided(seconds)) \in Nat /\ Cardinality(Undecided(seconds)') \in Nat
         /\ Cardinality(Undecided(seconds)') + (IF r \in Undecided(seconds) THEN 1 ELSE 0) =
              Cardinality(Undecided(seconds)) + (IF r \in Undecided(seconds)' THEN 1 ELSE 0)
<1> DEFINE others == Undecided(seconds) \ {r}
           now == Undecided(seconds)
           next == Undecided(seconds)'
<1>1. now \ {r} = others /\ next \ {r} = others
  BY DEF Undecided
<1>2. IsFiniteSet(now) /\ r \notin others
  BY LimiterAssumption, FS_Subset DEF Undecided
<1>3. /\ now = IF r \in now THEN others \cup {r} ELSE others
      /\ next = IF r \in next THEN others \cup {r} ELSE others
  BY <1>1
<1> HIDE DEF now, next, others
<1>4. IsFiniteSet(others) /\ Cardinality(others) \in Nat
  BY <1>1, <1>2, FS_RemoveElement, FS_CardinalityType
<1>5. /\ Cardinality(now) = Cardinality(others) + (IF r \in now THEN 1 ELSE 0)
      /\ Cardinality(next) = Cardinality(others) + (IF r \in next THEN 1 ELSE 0)
  BY <1>2, <1>3, <1>4, FS_AddElement
<1>6. /\ Cardinality(now) \in Nat /\ Cardinality(next) \in Nat
      /\ Cardinality(next) + (IF r \in now THEN 1 ELSE 0) =
           Cardinality(now) + (IF r \in next THEN 1 ELSE 0)
  BY <1>4, <1>5
<1> QED BY <1>6 DEF now, next

\* A hit admitted at an age is one hit more of the windows that reach that age.
LEMMA OneAdmitted ==
  ASSUME TypeOK, NEW age \in Ages, admitted' = [admitted EXCEPT ![age] = @ + 1], NEW seconds
  PROVE  Cardinality(Admitted(seconds)') =
           IF age < seconds THEN Cardinality(Admitted(seconds)) + 1
                            ELSE Cardinality(Admitted(seconds))
<1> DEFINE last == <<age, admitted[age] + 1>>
           now == Admitted(seconds)
           next == Admitted(seconds)'
<1>1. /\ \A a \in Ages : admitted[a] \in Nat
      /\ \A a \in Ages \ {age} : admitted'[a] = admitted[a]
      /\ admitted'[age] = admitted[age] + 1
  BY DEF TypeOK
<1>2. \A hit : hit \in next <=>
         \E a \in Ages : \E n \in 1 .. admitted'[a] : a < seconds /\ hit = <<a, n>>
  BY DEF Admitted
<1>3. last \notin now
  <2>1. \A n \in 1 .. admitted[age] : n # admitted[age] + 1
    BY <1>1
  <2> QED BY <2>1, HitsOf
<1>4. \A a \in Ages : \A n : n \in 1 .. admitted'[a] <=>
         n \in 1 .. admitted[a] \/ (a = age /\ n = admitted[age] + 1)
  <2> SUFFICES ASSUME NEW a \in Ages, NEW n
               PROVE  n \in 1 .. admitted'[a] <=>
                        n \in 1 .. admitted[a] \/ (a = age /\ n = admitted[age] + 1)
    OBVIOUS
  <2>1. CASE a = age
    BY <1>1, <2>1
  <2>2. CASE a # age
    BY <1>1, <2>2
  <2> QED BY <2>1, <2>2
<1>5. \A hit : hit \in next <=> hit \in now \/ (age < seconds /\ hit = last)
  BY <1>2, <1>4, HitsOf
<1>6. next = IF age < seconds THEN now \cup {last} ELSE now
  BY <1>5
<1>7. IsFiniteSet(now)
  BY FiniteWeight
<1> HIDE DEF now, next, last
<1>8. Cardinality(now \cup {last}) = Cardinality(now) + 1
  BY <1>3, <1>7, FS_AddElement
<1>9. Cardinality(next) = IF age < seconds THEN Cardinality(now) + 1 ELSE Cardinality(now)
  BY <1>6, <1>8
<1> QED BY <1>9 DEF now, next

LEMMA OlderHits ==
  ASSUME Tick, NEW age \in Nat, age + 1 \in Ages
  PROVE  admitted'[age + 1] = admitted[age]
<1>1. admitted' = [a \in Ages |-> IF a = 0 THEN 0 ELSE admitted[a - 1]]
  BY DEF Tick
<1>2. admitted'[age + 1] = admitted[age + 1 - 1]
  BY <1>1
<1>3. age + 1 - 1 = age
  OBVIOUS
<1> QED BY <1>2, <1>3

\* The seconds that pass take every hit one age further.
LEMMA HitsAge ==
  ASSUME TypeOK, Tick, NEW seconds \in Nat, seconds < window_seconds
  PROVE  /\ Cardinality(Admitted(seconds + 1)') <= Cardinality(Admitted(seconds))
         /\ Cardinality(Undecided(seconds + 1)') <= Cardinality(Undecided(seconds))
         /\ Cardinality(Admitted(seconds + 1)') \in Nat
         /\ Cardinality(Undecided(seconds + 1)') \in Nat
<1> DEFINE now == Admitted(seconds)
           next == Admitted(seconds + 1)'
           older == [hit \in now |-> <<hit[1] + 1, hit[2]>>]
<1>1. \A hit \in next : \E old \in now : hit = older[old]
  <2> SUFFICES ASSUME NEW hit \in next
               PROVE  \E old \in now : hit = older[old]
    OBVIOUS
  <2>1. PICK age \in Ages : \E n \in 1 .. admitted'[age] : age < seconds + 1 /\ hit = <<age, n>>
    BY DEF Admitted
  <2>2. PICK n \in 1 .. admitted'[age] : age < seconds + 1 /\ hit = <<age, n>>
    BY <2>1
  <2>3. age # 0 /\ admitted'[age] = admitted[age - 1]
    BY <2>2 DEF Tick, Ages
  <2>4. age - 1 \in Ages /\ age - 1 < seconds /\ n \in 1 .. admitted[age - 1]
    BY <2>2, <2>3, LimiterAssumption DEF Ages
  <2>5. <<age - 1, n>> \in now
    BY <2>4, HitsOf
  <2>6. older[<<age - 1, n>>] = <<age, n>>
    BY <2>4, <2>5 DEF Ages
  <2> QED BY <2>2, <2>5, <2>6
<1>2. \A old \in now : older[old] \in next
  <2> SUFFICES ASSUME NEW old \in now
               PROVE  older[old] \in next
    OBVIOUS
  <2>1. PICK age \in Ages : \E n \in 1 .. admitted[age] : age < seconds /\ old = <<age, n>>
    BY HitsOf
  <2>2. PICK n \in 1 .. admitted[age] : age < seconds /\ old = <<age, n>>
    BY <2>1
  <2>3. older[old] = <<age + 1, n>>
    BY <2>2
  <2>4. /\ age + 1 \in Ages /\ age + 1 < seconds + 1 /\ age + 1 # 0
        /\ age \in Nat
    <3> HIDE DEF older, now, next
    <3> QED BY <2>2, LimiterAssumption DEF Ages
  <2>5. admitted'[age + 1] = admitted[age]
    BY <2>4, OlderHits
  <2> HIDE DEF older
  <2> QED BY <2>2, <2>3, <2>4, <2>5 DEF Admitted
<1>3. older \in Surjection(now, next)
  BY <1>1, <1>2 DEF Surjection
<1>4. IsFiniteSet(now)
  BY FiniteWeight
<1>5. Cardinality(next) <= Cardinality(now) /\ Cardinality(next) \in Nat
  <2> HIDE DEF now, next, older
  <2> QED BY <1>3, <1>4, FS_Surjection, FS_CardinalityType
<1> DEFINE waited == Undecided(seconds)
           waiting == Undecided(seconds + 1)'
<1>6. waiting \subseteq waited
  <2> SUFFICES ASSUME NEW r \in waiting
               PROVE  r \in waited
    OBVIOUS
  <2>1. /\ r \in Requests /\ req'[r].pc = "expire" /\ req'[r].count <= limit
        /\ req'[r].age < seconds + 1
        /\ req'[r] = IF req[r].pc = "expire" /\ req[r].age < window_seconds
                     THEN [req[r] EXCEPT !.age = @ + 1] ELSE req[r]
    BY DEF Undecided, Tick
  <2>2. req[r].pc = "expire"
    BY <2>1
  <2>3. req[r] \in [pc : {"expire"}, count : 1 .. (limit + 1), age : 0 .. window_seconds]
    BY <2>1, <2>2 DEF TypeOK, Idle
  <2>4. CASE req[r].age < window_seconds
    <3>1. req'[r].count = req[r].count /\ req'[r].age = req[r].age + 1
      BY <2>1, <2>2, <2>3, <2>4
    <3> QED BY <2>1, <2>2, <2>3, <3>1 DEF Undecided
  <2>5. CASE ~(req[r].age < window_seconds)
    BY <2>1, <2>3, <2>5, LimiterAssumption
  <2> QED BY <2>4, <2>5
<1>7. IsFiniteSet(waited)
  BY FiniteWeight
<1>8. Cardinality(waiting) <= Cardinality(waited) /\ Cardinality(waiting) \in Nat
  <2> HIDE DEF waiting, waited
  <2> QED BY <1>6, <1>7, FS_Subset, FS_CardinalityType
<1> QED BY <1>5, <1>8

\* What the end of a hit adds, for a handler that counted or not before it.
LEMMA DecideWeight ==
  ASSUME TypeOK, NEW r \in Requests, NEW count \in Nat, NEW ttl, NEW age \in Nat,
         Decide(r, count, ttl, age), NEW seconds \in Nat, seconds <= window_seconds
  PROVE  /\ Cardinality(Admitted(seconds)') =
              IF count <= limit /\ age < seconds THEN Cardinality(Admitted(seconds)) + 1
                                                 ELSE Cardinality(Admitted(seconds))
         /\ r \notin Undecided(seconds)'
         /\ \A q \in Requests \ {r} : req'[q] = req[q]
<1>1. CASE /\ UnderLimit(count)
           /\ req' = [req EXCEPT ![r] = Idle]
           /\ admitted' = IF age \in Ages THEN [admitted EXCEPT ![age] = @ + 1] ELSE admitted
  <2>1. req'[r].pc = "idle" /\ \A q \in Requests \ {r} : req'[q] = req[q]
    BY <1>1 DEF TypeOK, Idle
  <2>2. age < seconds => age \in Ages
    BY LimiterAssumption DEF Ages
  <2>3. CASE age \in Ages
    BY <1>1, <2>1, <2>3, OneAdmitted DEF UnderLimit, Undecided
  <2>4. CASE age \notin Ages
    BY <1>1, <2>1, <2>2, <2>4 DEF UnderLimit, Undecided, Admitted
  <2> QED BY <2>3, <2>4
<1>2. CASE /\ ~UnderLimit(count)
           /\ req' = [req EXCEPT ![r] = [pc |-> "refused", retry_after |-> retry_after(ttl)]]
           /\ UNCHANGED admitted
  <2>1. req'[r].pc = "refused" /\ \A q \in Requests \ {r} : req'[q] = req[q]
    BY <1>2 DEF TypeOK
  <2> QED BY <1>2, <2>1 DEF UnderLimit, Undecided, Admitted
<1> QED BY <1>1, <1>2 DEF Decide

LEMMA WeightType ==
  ASSUME TypeOK, NEW seconds
  PROVE  Weight(seconds) \in Nat
BY FiniteWeight DEF Weight

LEMMA HandlerType ==
  ASSUME TypeOK, NEW r \in Requests, req[r].pc = "expire"
  PROVE  req[r].count \in 1 .. (limit + 1) /\ req[r].age \in 0 .. window_seconds
<1>1. req[r] \in [pc : {"expire"}, count : 1 .. (limit + 1), age : 0 .. window_seconds]
  BY DEF TypeOK, Idle
<1> QED BY <1>1

\* No hit is younger than it is: a counter that has its whole window left has none.
LEMMA NothingIsNew ==
  ASSUME TypeOK
  PROVE  Weight(0) = 0
<1>1. Admitted(0) = {}
  <2>1. \A age \in Ages : ~(age < 0)
    BY LimiterAssumption DEF Ages
  <2> QED BY <2>1, HitsOf
<1>2. Undecided(0) = {}
  <2>1. \A r \in Requests : req[r].pc = "expire" => ~(req[r].age < 0)
    BY HandlerType, LimiterAssumption
  <2> QED BY <2>1 DEF Undecided
<1> QED BY <1>1, <1>2, FS_EmptySet DEF Weight

LEMMA HitWeight ==
  ASSUME TypeOK, TypeOK', NEW r \in Requests, Hit(r), NEW seconds \in Nat,
         seconds <= window_seconds
  PROVE  Weight(seconds)' <= Weight(seconds) + (IF Incremented.count <= limit THEN 1 ELSE 0)
<1>1. Incremented \in Counter
  BY IncrementedType
<1>2. Incremented.count \in Nat
  BY <1>1 DEF Counter
<1>3. PICK ttl \in Ttl(Incremented) :
         \/ /\ req' = [req EXCEPT ![r] =
                         [pc |-> "expire", count |-> Incremented.count, age |-> 0]]
            /\ UNCHANGED <<admitted, refusing>>
         \/ Decide(r, Incremented.count, ttl, 0)
  BY DEF Hit
<1>4. r \notin Undecided(seconds)
  BY DEF Hit, Undecided
<1>5. Cardinality(Admitted(seconds)) \in Nat /\ Cardinality(Undecided(seconds)) \in Nat
  BY FiniteWeight
<1>6. CASE /\ req' = [req EXCEPT ![r] =
                        [pc |-> "expire", count |-> Incremented.count, age |-> 0]]
           /\ UNCHANGED <<admitted, refusing>>
  <2>1. /\ req'[r] = [pc |-> "expire", count |-> Incremented.count, age |-> 0]
        /\ \A q \in Requests \ {r} : req'[q] = req[q]
    BY <1>6 DEF TypeOK
  <2>2. r \in Undecided(seconds)' => Incremented.count <= limit
    BY <2>1 DEF Undecided
  <2>3. Admitted(seconds)' = Admitted(seconds)
    BY <1>6 DEF Admitted
  <2>4. Cardinality(Undecided(seconds)') <=
          Cardinality(Undecided(seconds)) + (IF Incremented.count <= limit THEN 1 ELSE 0)
    BY <1>4, <2>1, <2>2, OneDecides
  <2>5. Cardinality(Undecided(seconds)') \in Nat
    BY <2>1, OneDecides
  <2> QED BY <1>5, <2>3, <2>4, <2>5 DEF Weight
<1>7. CASE Decide(r, Incremented.count, ttl, 0)
  <2>1. /\ Cardinality(Admitted(seconds)') <=
             Cardinality(Admitted(seconds)) + (IF Incremented.count <= limit THEN 1 ELSE 0)
        /\ r \notin Undecided(seconds)'
        /\ \A q \in Requests \ {r} : req'[q] = req[q]
    BY <1>2, <1>5, <1>7, DecideWeight
  <2>2. Cardinality(Undecided(seconds)') = Cardinality(Undecided(seconds))
    BY <1>4, <2>1, OneDecides
  <2>3. Cardinality(Admitted(seconds)') \in Nat
    BY <1>2, <1>5, <1>7, DecideWeight
  <2> QED BY <1>5, <2>1, <2>2, <2>3 DEF Weight
<1> QED BY <1>3, <1>6, <1>7

\* A hit that goes on after EXPIRE was of the weight before.
LEMMA ExpireWeight ==
  ASSUME TypeOK, NEW r \in Requests, Expire(r), NEW seconds \in Nat, seconds <= window_seconds
  PROVE  Weight(seconds)' <= Weight(seconds)
<1>1. req[r].pc = "expire" /\ Decide(r, req[r].count, TtlSet, req[r].age)
  BY DEF Expire
<1>2. req[r].count \in Nat /\ req[r].age \in Nat
  BY <1>1, HandlerType, LimiterAssumption
<1>3. /\ Cardinality(Admitted(seconds)') =
            IF req[r].count <= limit /\ req[r].age < seconds
            THEN Cardinality(Admitted(seconds)) + 1 ELSE Cardinality(Admitted(seconds))
      /\ r \notin Undecided(seconds)'
      /\ \A q \in Requests \ {r} : req'[q] = req[q]
  BY <1>1, <1>2, DecideWeight
<1>4. r \in Undecided(seconds) <=> req[r].count <= limit /\ req[r].age < seconds
  BY <1>1 DEF Undecided
<1>5. Cardinality(Undecided(seconds)) \in Nat /\ Cardinality(Undecided(seconds)') \in Nat
  BY <1>3, OneDecides
<1>6. Cardinality(Undecided(seconds)') + (IF r \in Undecided(seconds) THEN 1 ELSE 0) =
        Cardinality(Undecided(seconds)) + (IF r \in Undecided(seconds)' THEN 1 ELSE 0)
  BY <1>3, OneDecides
<1>7. Cardinality(Admitted(seconds)) \in Nat
  BY FiniteWeight
<1> QED BY <1>3, <1>4, <1>5, <1>6, <1>7 DEF Weight

\* The other steps of a handler admit nothing.
LEMMA FailureWeight ==
  ASSUME TypeOK, NEW r \in Requests, HitFails(r) \/ ExpireFails(r) \/ Refuse(r),
         NEW seconds \in Nat
  PROVE  Weight(seconds)' <= Weight(seconds)
<1>1. Admitted(seconds)' = Admitted(seconds)
  BY DEF HitFails, ExpireFails, Refuse, Admitted
<1>2. CASE HitFails(r)
  <2>1. Undecided(seconds)' = Undecided(seconds)
    BY <1>2 DEF HitFails, Undecided
  <2> QED BY <1>1, <2>1, WeightType DEF Weight
<1>3. CASE ExpireFails(r) \/ Refuse(r)
  <2>1. req'[r].pc = "idle" /\ \A q \in Requests \ {r} : req'[q] = req[q]
    BY <1>3 DEF ExpireFails, Refuse, TypeOK, Idle
  <2>2. r \notin Undecided(seconds)'
    BY <2>1 DEF Undecided
  <2>3. Cardinality(Undecided(seconds)') <= Cardinality(Undecided(seconds))
    BY <2>1, <2>2, OneDecides
  <2>4. /\ Cardinality(Admitted(seconds)) \in Nat /\ Cardinality(Undecided(seconds)) \in Nat
        /\ Cardinality(Undecided(seconds)') \in Nat
    BY <2>1, FiniteWeight, OneDecides
  <2> QED BY <1>1, <2>3, <2>4 DEF Weight
<1> QED BY <1>2, <1>3

\* A longer window has the hits of a shorter one.
LEMMA LongerWindow ==
  ASSUME TypeOK, NEW shorter \in Nat, NEW longer \in Nat, shorter <= longer
  PROVE  Weight(shorter) <= Weight(longer)
<1>1. Admitted(shorter) \subseteq Admitted(longer)
  <2>1. \A age \in Ages : age < shorter => age < longer
    BY LimiterAssumption DEF Ages
  <2> QED BY <2>1, HitsOf DEF Admitted
<1>2. Undecided(shorter) \subseteq Undecided(longer)
  <2>1. \A r \in Requests : req[r].pc = "expire" /\ req[r].age < shorter => req[r].age < longer
    BY HandlerType, LimiterAssumption
  <2> QED BY <2>1 DEF Undecided
<1>3. /\ Cardinality(Admitted(shorter)) <= Cardinality(Admitted(longer))
      /\ Cardinality(Undecided(shorter)) <= Cardinality(Undecided(longer))
  BY <1>1, <1>2, FiniteWeight, FS_Subset
<1>4. /\ Cardinality(Admitted(shorter)) \in Nat /\ Cardinality(Admitted(longer)) \in Nat
      /\ Cardinality(Undecided(shorter)) \in Nat /\ Cardinality(Undecided(longer)) \in Nat
  BY FiniteWeight
<1> QED BY <1>3, <1>4 DEF Weight

LEMMA TickWeight ==
  ASSUME TypeOK, TypeOK', Tick, NEW seconds \in Nat, seconds < window_seconds
  PROVE  Weight(seconds + 1)' <= Weight(seconds)
<1>1. /\ Cardinality(Admitted(seconds + 1)') <= Cardinality(Admitted(seconds))
      /\ Cardinality(Undecided(seconds + 1)') <= Cardinality(Undecided(seconds))
      /\ Cardinality(Admitted(seconds + 1)') \in Nat
      /\ Cardinality(Undecided(seconds + 1)') \in Nat
  BY HitsAge
<1>2. Cardinality(Admitted(seconds)) \in Nat /\ Cardinality(Undecided(seconds)) \in Nat
  BY FiniteWeight
<1> QED BY <1>1, <1>2 DEF Weight

LEMMA WeightTypeNext == TypeOK' => \A seconds : Weight(seconds)' \in Nat
<1> DEFINE Typed == \A seconds : Weight(seconds) \in Nat
<1>1. TypeOK => Typed
  BY WeightType
<1>2. TypeOK' => Typed'
  <2> HIDE DEF Typed
  <2> QED BY <1>1, PTL
<1> QED BY <1>2

LEMMA SpentType ==
  ASSUME counter \in Counter
  PROVE  Spent \in 1 .. limit
BY LimiterAssumption DEF Spent, Counter

LEMMA WindowInit ==
  ASSUME Init
  PROVE  WindowInv
<1>1. Admitted(window_seconds) = {}
  <2>1. \A age \in Ages : 1 .. admitted[age] = {}
    BY DEF Init
  <2> QED BY <2>1, HitsOf
<1>2. Undecided(window_seconds) = {}
  BY DEF Init, Undecided, Idle
<1> QED BY <1>1, <1>2, FS_EmptySet, LimiterAssumption DEF Init, WindowInv, Weight

LEMMA WindowTick ==
  ASSUME TypeOK, TypeOK', WindowInv, Tick
  PROVE  WindowInv'
<1>1. \A seconds : Weight(seconds) \in Nat /\ Weight(seconds)' \in Nat
  BY WeightType, WeightTypeNext
<1>2. window_seconds - 1 \in Nat /\ window_seconds - 1 < window_seconds
      /\ window_seconds - 1 + 1 = window_seconds
  BY LimiterAssumption
<1>3. /\ Weight(window_seconds)' <= Weight(window_seconds - 1)
      /\ Weight(window_seconds - 1) <= Weight(window_seconds)
  BY <1>2, TickWeight, LongerWindow, LimiterAssumption
<1>4. CASE counter = NULL
  <2>1. counter' = NULL /\ Weight(window_seconds) <= limit
    BY <1>4 DEF Tick, WindowInv
  <2> QED BY <1>1, <1>3, <2>1, LimiterAssumption DEF WindowInv
<1>5. CASE counter # NULL
  <2>1. counter \in Counter
    BY <1>5 DEF TypeOK
  <2>2. Spent \in 1 .. limit
    BY <2>1, SpentType
  <2>3. /\ Weight(window_seconds) <= limit + Spent
        /\ \A seconds \in 0 .. window_seconds :
             counter.ttl = window_seconds - seconds => Weight(seconds) <= Spent
    BY <1>5 DEF WindowInv
  <2>4. Weight(window_seconds)' <= limit + Spent
    BY <1>1, <1>3, <2>2, <2>3, LimiterAssumption
  <2>5. CASE counter.ttl = NULL
    <3>1. counter' = counter
      BY <2>5 DEF Tick
    <3>2. Spent' = Spent
      BY <3>1 DEF Spent
    <3>3. \A seconds \in 0 .. window_seconds : counter'.ttl # window_seconds - seconds
      BY <2>5, <3>1, LimiterAssumption
    <3> QED BY <1>5, <2>4, <3>1, <3>2, <3>3 DEF WindowInv
  <2>6. CASE counter.ttl = 1
    <3>1. counter' = NULL
      BY <1>5, <2>6, LimiterAssumption DEF Tick
    <3>2. Weight(window_seconds - 1) <= Spent
      BY <1>2, <2>3, <2>6, LimiterAssumption
    <3>3. Weight(window_seconds)' <= limit
      BY <1>1, <1>3, <2>2, <3>2, LimiterAssumption
    <3> QED BY <3>1, <3>3 DEF WindowInv
  <2>7. CASE counter.ttl \in 2 .. window_seconds
    <3>1. counter' = [counter EXCEPT !.ttl = @ - 1]
      BY <1>5, <2>7, LimiterAssumption DEF Tick
    <3>2. counter'.count = counter.count /\ counter'.ttl = counter.ttl - 1
      BY <2>1, <3>1 DEF Counter
    <3>3. counter' # NULL
      BY <2>1, <2>7, <3>1, LimiterAssumption DEF Counter
    <3>4. Spent' = Spent
      BY <3>2 DEF Spent
    <3>5. ASSUME NEW seconds \in 0 .. window_seconds, counter'.ttl = window_seconds - seconds
          PROVE  Weight(seconds)' <= Spent
      <4> DEFINE before == seconds - 1
      <4>1. /\ before \in 0 .. window_seconds /\ before \in Nat /\ before < window_seconds
            /\ before + 1 = seconds /\ counter.ttl = window_seconds - before
        BY <2>7, <3>2, <3>5, LimiterAssumption
      <4> HIDE DEF before
      <4>2. Weight(before) <= Spent
        BY <2>3, <4>1
      <4>3. Weight(before + 1)' <= Weight(before)
        BY <4>1, TickWeight
      <4>4. Weight(seconds)' <= Weight(before)
        BY <4>1, <4>3
      <4> QED BY <1>1, <2>2, <4>2, <4>4
    <3> QED BY <2>4, <3>3, <3>4, <3>5 DEF WindowInv
  <2> QED BY <2>1, <2>5, <2>6, <2>7 DEF Counter
<1> QED BY <1>4, <1>5

\* A hit the counter counts, whether it comes to an end here or not.
LEMMA WindowHit ==
  ASSUME TypeOK, TypeOK', WindowInv, counter' = Incremented,
         \A seconds \in 0 .. window_seconds :
           Weight(seconds)' <= Weight(seconds) + (IF Incremented.count <= limit THEN 1 ELSE 0)
  PROVE  WindowInv'
<1>1. \A seconds : Weight(seconds) \in Nat /\ Weight(seconds)' \in Nat
  BY WeightType, WeightTypeNext
<1>2. window_seconds \in 0 .. window_seconds
  BY LimiterAssumption
<1>3. Incremented \in Counter /\ counter' # NULL
  BY IncrementedType, NullIsNothingElse
<1>4. CASE counter = NULL
  <2>1. counter' = [count |-> 1, ttl |-> NULL]
    BY <1>4 DEF Incremented
  <2>2. Spent' = 1
    BY <2>1, LimiterAssumption DEF Spent
  <2>3. Weight(window_seconds)' <= limit + 1
    BY <1>1, <1>2, <1>4, <2>1, LimiterAssumption DEF WindowInv
  <2>4. \A seconds \in 0 .. window_seconds : counter'.ttl # window_seconds - seconds
    BY <2>1, LimiterAssumption
  <2> QED BY <1>3, <2>2, <2>3, <2>4 DEF WindowInv
<1>5. CASE counter # NULL
  <2>1. counter \in Counter
    BY <1>5 DEF TypeOK
  <2>2. /\ counter'.ttl = counter.ttl
        /\ counter'.count = IF counter.count > limit THEN counter.count ELSE counter.count + 1
    BY <1>5, <2>1 DEF Incremented, Counter
  <2>3. counter.count \in 1 .. (limit + 1) /\ counter'.count = Incremented.count
    BY <2>1 DEF Counter
  <2>4. Spent' = Spent + (IF Incremented.count <= limit THEN 1 ELSE 0)
    BY <2>2, <2>3, LimiterAssumption DEF Spent
  <2>5. Spent \in 1 .. limit
    BY <2>1, SpentType
  <2>6. /\ Weight(window_seconds) <= limit + Spent
        /\ \A seconds \in 0 .. window_seconds :
             counter.ttl = window_seconds - seconds => Weight(seconds) <= Spent
    BY <1>5 DEF WindowInv
  <2>7. Weight(window_seconds)' <= limit + Spent'
    BY <1>1, <1>2, <2>4, <2>5, <2>6, LimiterAssumption
  <2>8. \A seconds \in 0 .. window_seconds :
          counter'.ttl = window_seconds - seconds => Weight(seconds)' <= Spent'
    BY <1>1, <2>2, <2>4, <2>5, <2>6
  <2> QED BY <1>3, <2>7, <2>8 DEF WindowInv
<1> QED BY <1>4, <1>5

\* A step that admits nothing more, and sets the expiry anew or leaves it.
LEMMA WindowStays ==
  ASSUME TypeOK, TypeOK', WindowInv, counter' \in {counter, Expiring},
         \A seconds \in 0 .. window_seconds : Weight(seconds)' <= Weight(seconds)
  PROVE  WindowInv'
<1>1. \A seconds : Weight(seconds) \in Nat /\ Weight(seconds)' \in Nat
  BY WeightType, WeightTypeNext
<1>2. window_seconds \in 0 .. window_seconds /\ 0 \in 0 .. window_seconds
  BY LimiterAssumption
<1>3. CASE counter = NULL
  <2>1. counter' = NULL
    BY <1>3 DEF Expiring
  <2>2. Weight(window_seconds)' <= limit
    BY <1>1, <1>2, <1>3, LimiterAssumption DEF WindowInv
  <2> QED BY <2>1, <2>2 DEF WindowInv
<1>4. CASE counter # NULL
  <2>1. counter \in Counter
    BY <1>4 DEF TypeOK
  <2>2. Spent \in 1 .. limit
    BY <2>1, SpentType
  <2>3. /\ Weight(window_seconds) <= limit + Spent
        /\ \A seconds \in 0 .. window_seconds :
             counter.ttl = window_seconds - seconds => Weight(seconds) <= Spent
    BY <1>4 DEF WindowInv
  <2>4. Weight(window_seconds)' <= limit + Spent
    BY <1>1, <1>2, <2>2, <2>3, LimiterAssumption
  <2>5. CASE counter' = counter
    <3>1. Spent' = Spent
      BY <2>5 DEF Spent
    <3>2. \A seconds \in 0 .. window_seconds :
            counter'.ttl = window_seconds - seconds => Weight(seconds)' <= Spent
      BY <1>1, <2>2, <2>3, <2>5
    <3> QED BY <1>4, <2>4, <2>5, <3>1, <3>2 DEF WindowInv
  <2>6. CASE counter' = Expiring
    <3>1. counter' = [counter EXCEPT !.ttl = window_seconds]
      BY <1>4, <2>6 DEF Expiring
    <3>2. counter'.count = counter.count /\ counter'.ttl = window_seconds
      BY <2>1, <3>1 DEF Counter
    <3>3. counter' # NULL
      BY <2>1, <3>1, LimiterAssumption DEF Counter
    <3>4. Spent' = Spent
      BY <3>2 DEF Spent
    <3>5. Weight(0)' <= Spent
      BY <1>1, <1>2, <2>2, NothingIsNew
    <3>6. \A seconds \in 0 .. window_seconds :
            counter'.ttl = window_seconds - seconds => seconds = 0
      BY <3>2, LimiterAssumption
    <3> QED BY <2>4, <3>3, <3>4, <3>5, <3>6 DEF WindowInv
  <2> QED BY <2>5, <2>6
<1> QED BY <1>3, <1>4

LEMMA WindowIsInductive ==
  ASSUME TypeOK, TypeOK', WindowInv, [Next]_vars
  PROVE  WindowInv'
<1>1. CASE UNCHANGED vars
  BY <1>1 DEF vars, WindowInv, Weight, Admitted, Undecided, Spent
<1>2. CASE Tick
  BY <1>2, WindowTick
<1>3. ASSUME NEW r \in Requests,
             Hit(r) \/ Expire(r) \/ HitFails(r) \/ ExpireFails(r) \/ Refuse(r)
      PROVE  WindowInv'
  <2>1. \A seconds \in 0 .. window_seconds : seconds \in Nat /\ seconds <= window_seconds
    BY LimiterAssumption
  <2>2. \A seconds : Weight(seconds) \in Nat /\ Weight(seconds)' \in Nat
    BY WeightType, WeightTypeNext
  <2>3. CASE Hit(r)
    <3>1. \A seconds \in 0 .. window_seconds :
            Weight(seconds)' <= Weight(seconds) + (IF Incremented.count <= limit THEN 1 ELSE 0)
      BY <2>1, <2>3, HitWeight
    <3>2. counter' = Incremented
      BY <2>3 DEF Hit
    <3> QED BY <3>1, <3>2, WindowHit
  <2>4. CASE Expire(r)
    <3>1. \A seconds \in 0 .. window_seconds : Weight(seconds)' <= Weight(seconds)
      BY <2>1, <2>4, ExpireWeight
    <3>2. counter' = Expiring
      BY <2>4 DEF Expire
    <3> QED BY <3>1, <3>2, WindowStays
  <2>5. CASE HitFails(r)
    <3>1. \A seconds \in 0 .. window_seconds :
            Weight(seconds)' <= Weight(seconds) + (IF Incremented.count <= limit THEN 1 ELSE 0)
      <4>1. \A seconds \in 0 .. window_seconds : Weight(seconds)' <= Weight(seconds)
        BY <2>1, <2>5, FailureWeight
      <4> QED BY <2>2, <4>1
    <3>2. counter' = Incremented
      BY <2>5 DEF HitFails
    <3> QED BY <3>1, <3>2, WindowHit
  <2>6. CASE ExpireFails(r) \/ Refuse(r)
    <3>1. \A seconds \in 0 .. window_seconds : Weight(seconds)' <= Weight(seconds)
      BY <2>1, <2>6, FailureWeight
    <3>2. counter' \in {counter, Expiring}
      BY <2>6 DEF ExpireFails, Refuse
    <3> QED BY <3>1, <3>2, WindowStays
  <2> QED BY <1>3, <2>3, <2>4, <2>5, <2>6
<1> QED BY <1>1, <1>2, <1>3 DEF Next

\* Whatever interleaves and fails, the hits of a window that a count admitted are
\* those of the counter and of the one before it: twice the limit at most.
THEOREM TwiceTheLimitAtMost == Spec => []AtMostTwiceTheLimit
<1>1. Init => TypeOK /\ WindowInv
  BY TypeInit, WindowInit
<1>2. TypeOK /\ WindowInv /\ [Next]_vars => (TypeOK /\ WindowInv)'
  BY StepIsSound, WindowIsInductive DEF Sound
<1>3. TypeOK /\ WindowInv => AtMostTwiceTheLimit
  <2> SUFFICES ASSUME TypeOK, WindowInv
               PROVE  AtMostTwiceTheLimit
    OBVIOUS
  <2>1. Weight(window_seconds) <= 2 * limit
    <3>1. CASE counter = NULL
      BY <3>1, WeightType, LimiterAssumption DEF WindowInv
    <3>2. CASE counter # NULL
      <4>1. Spent \in 1 .. limit
        BY <3>2, SpentType DEF TypeOK
      <4> QED BY <3>2, <4>1, WeightType, LimiterAssumption DEF WindowInv
    <3> QED BY <3>1, <3>2
  <2>2. Cardinality(Admitted(window_seconds)) \in Nat
        /\ Cardinality(Undecided(window_seconds)) \in Nat
    BY FiniteWeight
  <2> QED BY <2>1, <2>2, LimiterAssumption DEF Weight, AtMostTwiceTheLimit
<1> QED BY <1>1, <1>2, <1>3, PTL DEF Spec
=============================================================================
