----------------------------- MODULE RateLimiter -----------------------------
(***************************************************************************)
(* rate_limit_write with RedisRateLimiter (app/ratelimit.py): before each  *)
(* write handler, the hits of the client's key are counted in Redis and    *)
(* those past the limit of the window answered 429.                        *)
(*                                                                         *)
(* INCR and TTL are one transaction, EXPIRE is a second call: another hit, *)
(* a failure or the end of the counter may come between them.  The keys    *)
(* are independent, and this is one of them.  Times are relative, so the   *)
(* clock needs no bound.                                                   *)
(***************************************************************************)
EXTENDS Integers, FiniteSets

CONSTANTS
  NULL,
  Requests,         \* handlers that may be in progress for the key
  limit,            \* rate_limit_writes_per_minute
  window_seconds

ASSUME LimiterAssumption ==
  /\ IsFiniteSet(Requests)
  /\ limit \in Nat \ {0} /\ window_seconds \in Nat \ {0}
  /\ NULL \notin Nat \cup [count : Nat, ttl : Nat \cup {NULL}]

VARIABLES
  counter,  \* the key rl:<key> in Redis: its count and the seconds it has left
  req,      \* each handler between its calls
  admitted, \* history: hits of the last seconds a count admitted, by their age
  refusing  \* history: the counter has answered a 429

vars == <<counter, req, admitted, refusing>>

Idle == [pc |-> "idle"]
Ages == 0 .. (window_seconds - 1)

Counter == [count : 1 .. (limit + 1), ttl : 1 .. window_seconds \cup {NULL}]

Init ==
  /\ counter = NULL
  /\ req = [r \in Requests |-> Idle]
  /\ admitted = [age \in Ages |-> 0]
  /\ refusing = FALSE

\* INCR creates the key without an expiry.  Counts past the limit are all alike.
Incremented ==
  IF counter = NULL THEN [count |-> 1, ttl |-> NULL]
  ELSE [counter EXCEPT !.count = IF @ > limit THEN @ ELSE @ + 1]

\* EXPIRE does nothing to a key that is gone.
Expiring == IF counter = NULL THEN NULL ELSE [counter EXCEPT !.ttl = window_seconds]

\* Mutant: one hit more is let through.
UnderLimitOffByOne(count) == count <= limit + 1

UnderLimit(count) == count <= limit

\* Mutant: the TTL is passed on as it is.
RetryAfterIsTtl(ttl) == ttl

retry_after(ttl) == IF ttl < 1 THEN 1 ELSE ttl

\* The end of hit: on to the handler, or 429 with Retry-After.
Decide(r, count, ttl, age) ==
  \/ /\ UnderLimit(count)
     /\ req' = [req EXCEPT ![r] = Idle]
     /\ admitted' = IF age \in Ages THEN [admitted EXCEPT ![age] = @ + 1] ELSE admitted
     /\ UNCHANGED refusing
  \/ /\ ~UnderLimit(count)
     /\ req' = [req EXCEPT ![r] = [pc |-> "refused", retry_after |-> retry_after(ttl)]]
     /\ refusing' = (counter' # NULL)
     /\ UNCHANGED admitted

\* Mutant: only the hit that creates the key sets its expiry.
NeedsExpireWhenNew(count, ttl) == count = 1

\* The key is new, or was left without an expiry.
NeedsExpire(count, ttl) == ttl < 0

\* TTL answers in whole seconds, rounded: what is left of the last may be none.
Ttl(c) == IF c.ttl = NULL THEN {-1} ELSE {c.ttl - 1, c.ttl}

\* The transaction of INCR and TTL.
Hit(r) ==
  /\ req[r].pc = "idle"
  /\ counter' = Incremented
  /\ \E ttl \in Ttl(Incremented) :
       \/ /\ NeedsExpire(Incremented.count, ttl)
          /\ req' = [req EXCEPT ![r] = [pc |-> "expire", count |-> Incremented.count, age |-> 0]]
          /\ UNCHANGED <<admitted, refusing>>
       \/ /\ ~NeedsExpire(Incremented.count, ttl)
          /\ Decide(r, Incremented.count, ttl, 0)

\* Mutant: the handler goes on with the TTL it read, of a key without one.
TtlRead == -1

\* ttl = window_seconds
TtlSet == window_seconds

Expire(r) ==
  /\ req[r].pc = "expire"
  /\ counter' = Expiring
  /\ Decide(r, req[r].count, TtlSet, req[r].age)

\* The transaction raises, done in Redis or not: the hit fails open, uncounted.
HitFails(r) ==
  /\ req[r].pc = "idle"
  /\ counter' = Incremented
  /\ UNCHANGED <<req, admitted, refusing>>

\* EXPIRE raises, done or not, or the process dies before it.
ExpireFails(r) ==
  /\ req[r].pc = "expire"
  /\ counter' \in {counter, Expiring}
  /\ req' = [req EXCEPT ![r] = Idle]
  /\ UNCHANGED <<admitted, refusing>>

\* The client has its 429.
Refuse(r) ==
  /\ req[r].pc = "refused"
  /\ req' = [req EXCEPT ![r] = Idle]
  /\ UNCHANGED <<counter, admitted, refusing>>

\* A second passes; Redis drops the key when its time is over.
Tick ==
  /\ counter' = IF counter = NULL \/ counter.ttl = NULL THEN counter
                ELSE IF counter.ttl = 1 THEN NULL ELSE [counter EXCEPT !.ttl = @ - 1]
  /\ refusing' = (refusing /\ counter' # NULL)
  /\ admitted' = [age \in Ages |-> IF age = 0 THEN 0 ELSE admitted[age - 1]]
  /\ req' = [r \in Requests |->
               IF req[r].pc = "expire" /\ req[r].age < window_seconds
               THEN [req[r] EXCEPT !.age = @ + 1] ELSE req[r]]

Next == \/ Tick
        \/ \E r \in Requests : \/ Hit(r) \/ Expire(r) \/ HitFails(r) \/ ExpireFails(r)
                               \/ Refuse(r)

Spec == Init /\ [][Next]_vars

\* Time passes.  No client need come back and no call to Redis need succeed.
FairSpec == Spec /\ WF_vars(Tick)

-----------------------------------------------------------------------------
(* Properties *)

TypeOK ==
  /\ counter \in Counter \cup {NULL}
  /\ admitted \in [Ages -> Nat]
  /\ refusing \in BOOLEAN
  /\ req \in [Requests -> {Idle}
       \cup [pc : {"expire"}, count : 1 .. (limit + 1), age : 0 .. window_seconds]
       \cup [pc : {"refused"}, retry_after : 1 .. window_seconds]]

\* However hits, late expiries and failures of Redis interleave, the hits of any
\* window that a count admitted are those of two counters at most; what fails
\* open comes on top.
Admitted(seconds) ==  \* the hits younger than that, those of one age numbered
  UNION {{age} \X (1 .. admitted[age]) : age \in {age \in Ages : age < seconds}}
AtMostTwiceTheLimit == Cardinality(Admitted(window_seconds)) <= 2 * limit

\* A 429 is true when it is sent: the counter that refused has an expiry, and
\* ends within the Retry-After the client is given, rounded up by a second.
RetryAfterIsTrue ==
  [][\A r \in Requests :
       req[r].pc # "refused" /\ req'[r].pc = "refused" =>
         \/ counter' = NULL
         \/ counter'.ttl # NULL /\ counter'.ttl <= req'[r].retry_after + 1]_vars

\* Nobody is refused for good: a counter that has refused comes to an end,
\* though an EXPIRE failed before and others come late.
RefusalEnds == refusing ~> ~refusing
=============================================================================
