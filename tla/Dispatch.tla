------------------------------ MODULE Dispatch ------------------------------
(***************************************************************************)
(* What the sweep promises, without sweeps, batches or locks: an entry is  *)
(* one schedule of one monitor.  When its time has come it is claimed by   *)
(* moving that time into the future, and from then on it is owed one       *)
(* message, until the message is published, the claim is given back or a   *)
(* failure loses it.  Nobody claims what is owed.                          *)
(***************************************************************************)
EXTENDS MonitorModel

CONSTANT Mons

VARIABLES
  clock,
  period,  \* the interval of each entry, NULL for one that cannot run
  next,    \* when each entry runs next, NULL for one that is off
  owed,    \* entries claimed and not yet published
  lost,    \* entries whose claim a failure took
  queue, sent,
  faults

vars == <<clock, period, next, owed, lost, queue, sent, faults>>

Entry == CheckType \X Mons

Init ==
  /\ clock = 0 /\ sent = 0 /\ faults = 0
  /\ period \in [Entry -> Intervals \cup {NULL}]
  /\ next \in [Entry -> {0, NULL}]
  /\ owed = {} /\ lost = {} /\ queue = {}

\* The time of every entry outside E stays.
OthersKeep(E) == \A e \in Entry \ E : next'[e] = next[e]

\* The next run is in the future, a period or more after the one that has come.
Claim(E) ==
  /\ E \cap owed = {}
  /\ \A e \in E : /\ period[e] # NULL /\ next[e] # NULL /\ next[e] <= clock
                  /\ next'[e] \in clock + 1 .. clock + period[e]
                  /\ next'[e] >= next[e] + period[e]
  /\ OthersKeep(E)
  /\ owed' = owed \cup E /\ lost' = lost \ E
  /\ UNCHANGED <<clock, period, queue, sent, faults>>

Deliver(e) ==
  /\ queue' = queue \cup {NewMessage(sent, e[1], e[2], clock, clock + period[e])}
  /\ sent' = sent + 1

Publish(e) ==
  /\ Deliver(e)
  /\ owed' = owed \ {e}
  /\ UNCHANGED <<clock, period, next, lost, faults>>

\* A publish fails, or seems to: the entry is still owed.
Refuse(e) ==
  /\ Deliver(e) \/ UNCHANGED <<queue, sent>>
  /\ faults' = faults + 1
  /\ UNCHANGED <<clock, period, next, owed, lost>>

\* The entry is due again, and the claim's period is all it gets back.
GiveBack(E) ==
  /\ \A e \in E : next'[e] \in 0 .. clock /\ next'[e] = next[e] - period[e]
  /\ OthersKeep(E)
  /\ owed' = owed \ E
  /\ UNCHANGED <<clock, period, lost, queue, sent, faults>>

Lose(E) ==
  /\ owed' = owed \ E /\ lost' = lost \cup E
  /\ faults' = faults + 1
  /\ UNCHANGED <<clock, period, next, queue, sent>>

\* A claim is settled before the run it moved the entry to comes.
Tick ==
  /\ \A e \in owed : clock + 1 < next[e]
  /\ clock' = clock + 1
  /\ UNCHANGED <<period, next, owed, lost, queue, sent, faults>>

Next == \/ Tick
        \/ \E E \in SUBSET (Entry \ owed) : Claim(E)
        \/ \E e \in owed : Publish(e) \/ Refuse(e)
        \/ \E E \in SUBSET owed : GiveBack(E) \/ Lose(E)

Spec == Init /\ [][Next]_vars
=============================================================================
