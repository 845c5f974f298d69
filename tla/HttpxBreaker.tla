---------------------------- MODULE HttpxBreaker ----------------------------
(***************************************************************************)
(* The circuit breaker of internal/httpx/client.go, shared by every        *)
(* goroutine that calls Client.Do.                                         *)
(*                                                                         *)
(* RecordSuccess and RecordFailure hold the write lock from end to end and *)
(* are one step each.  Allow is not: a caller that finds the breaker open  *)
(* and its reset timeout over gives up the read lock, takes the write      *)
(* lock, gives that up and takes the read lock again, so two windows are   *)
(* open to the other callers.  at[c] is how far caller c has got:          *)
(*                                                                         *)
(*   "out"       not using the breaker                                     *)
(*   "expired"   after the RUnlock, before the Lock; seen[c] is its `now`  *)
(*   "promoted"  after the Unlock, before the second RLock                 *)
(*   "denied"    Allow returned false                                      *)
(*   "in"        Allow returned true; the request may be recorded          *)
(*                                                                         *)
(* Time is a clock of MaxClock ticks; MaxFailures bounds the counter.      *)
(* Config.CircuitWindow is stored in cb.window and never read: failures    *)
(* are not forgotten with time, and it is not a parameter here.            *)
(***************************************************************************)
EXTENDS Integers

CONSTANTS Callers,            \* goroutines inside Client.Do
          FailureThreshold,   \* Config.FailureThreshold
          ResetTimeout,       \* Config.ResetTimeout, in clock ticks
          MaxClock,           \* bound of the model: the clock's last tick
          MaxFailures         \* bound of the model: failures recorded in a row

ASSUME ThresholdAssumption == FailureThreshold \in Nat \ {0}
ASSUME TimeoutAssumption == ResetTimeout \in Nat
ASSUME BoundAssumption == MaxClock \in Nat /\ MaxFailures \in Nat

VARIABLES
  state,        \* cb.state
  failures,     \* cb.failures
  lastFailure,  \* cb.lastFailure, 0 before the first failure
  now,          \* the clock time.Now() reads
  at, seen

breakerVars == <<state, failures, lastFailure, now, at, seen>>

States == {"closed", "open", "half-open"}
Places == {"out", "expired", "promoted", "denied", "in"}

TypeOK ==
  /\ state \in States
  /\ failures \in Nat
  /\ lastFailure \in 0..MaxClock
  /\ now \in 0..MaxClock
  /\ at \in [Callers -> Places]
  /\ seen \in [Callers -> 0..MaxClock]

Init ==
  /\ state = "closed" /\ failures = 0 /\ lastFailure = 0
  /\ now = 0
  /\ at = [c \in Callers |-> "out"]
  /\ seen = [c \in Callers |-> 0]

MoveTo(c, place) == at' = [at EXCEPT ![c] = place]

Cooled(t) == t - lastFailure >= ResetTimeout

-----------------------------------------------------------------------------
(* Allow, the paths that keep the read lock to the end. *)
AllowPass(c) ==
  /\ at[c] = "out" /\ state \in {"closed", "half-open"}
  /\ MoveTo(c, "in")
  /\ UNCHANGED <<state, failures, lastFailure, now, seen>>

AllowDeny(c) ==
  /\ at[c] = "out" /\ state = "open" /\ ~ Cooled(now)
  /\ MoveTo(c, "denied")
  /\ UNCHANGED <<state, failures, lastFailure, now, seen>>

(* Allow, the slow path: open and cooled, so the read lock is dropped. *)
AllowExpired(c) ==
  /\ at[c] = "out" /\ state = "open" /\ Cooled(now)
  /\ MoveTo(c, "expired")
  /\ seen' = [seen EXCEPT ![c] = now]
  /\ UNCHANGED <<state, failures, lastFailure, now>>

OnlyStillOpen(c) == state = "open"    \* fault: the time is not looked at again
PromoteBlindly(c) == TRUE             \* fault: nothing is looked at again

(* Under the write lock the condition is looked at again, with the `now`   *)
(* that was read before the locks changed hands.                           *)
StillExpired(c) == state = "open" /\ Cooled(seen[c])

AllowPromote(c) ==
  /\ at[c] = "expired"
  /\ state' = IF StillExpired(c) THEN "half-open" ELSE state
  /\ MoveTo(c, "promoted")
  /\ UNCHANGED <<failures, lastFailure, now, seen>>

PromotedIsAllowed(c) == TRUE          \* fault: `return true` after the promotion

(* The value Allow returns on the slow path is read under a third lock. *)
Reread(c) == state = "half-open"

AllowReread(c) ==
  /\ at[c] = "promoted"
  /\ MoveTo(c, IF Reread(c) THEN "in" ELSE "denied")
  /\ UNCHANGED <<state, failures, lastFailure, now, seen>>

-----------------------------------------------------------------------------
RecordSuccess(c) ==
  /\ at[c] = "in"
  /\ IF state = "half-open"
       THEN state' = "closed" /\ failures' = 0
       ELSE UNCHANGED <<state, failures>>
  /\ MoveTo(c, "out")
  /\ UNCHANGED <<lastFailure, now, seen>>

TripsLate == failures + 1 > FailureThreshold          \* fault: > for >=
Trips == failures + 1 >= FailureThreshold

ReopeningTime == now + ResetTimeout   \* fault: stores the end of the cool-down
FailureTime == now

(* The call either goes on to another attempt ("in") or returns ("out"). *)
RecordFailure(c, next) ==
  /\ at[c] = "in" /\ failures < MaxFailures
  /\ failures' = failures + 1
  /\ lastFailure' = FailureTime
  /\ state' = IF Trips THEN "open" ELSE state
  /\ MoveTo(c, next)
  /\ UNCHANGED <<now, seen>>

(* The call returns without recording: denied, HTTP 401, a cancelled wait. *)
Leave(c) ==
  /\ at[c] \in {"denied", "in"}
  /\ MoveTo(c, "out")
  /\ UNCHANGED <<state, failures, lastFailure, now, seen>>

Tick ==
  /\ now < MaxClock
  /\ now' = now + 1
  /\ UNCHANGED <<state, failures, lastFailure, at, seen>>

Step(c) ==
  \/ AllowPass(c) \/ AllowDeny(c)
  \/ AllowExpired(c) \/ AllowPromote(c) \/ AllowReread(c)
  \/ RecordSuccess(c)
  \/ \E next \in {"in", "out"} : RecordFailure(c, next)
  \/ Leave(c)

Next == Tick \/ \E c \in Callers : Step(c)

Spec == Init /\ [][Next]_breakerVars

-----------------------------------------------------------------------------
(* The count and the state never disagree, whatever the callers interleave: *)
(* the breaker is closed exactly while fewer than FailureThreshold failures *)
(* are on record.  RecordFailure keeps counting while open, RecordSuccess   *)
(* forgets the count only where it closes the breaker, and Allow moves the  *)
(* state without touching the count.                                        *)
CountMatchesState == (state = "closed") <=> (failures < FailureThreshold)

(* Requests are probed only after a full cool-down.  The slow path of Allow *)
(* decides on a `now` read two locks earlier, and a request admitted before *)
(* the breaker opened may fail in the window: half-open must still imply    *)
(* that ResetTimeout has passed since the LATEST failure.                   *)
HalfOpenIsCooled == state = "half-open" => Cooled(now)

(* No call is let through while the breaker is open and cooling, not even   *)
(* one that was on the slow path when a late failure reopened the breaker.  *)
NoAdmissionWhileCooling ==
  [][\A c \in Callers :
       at[c] # "in" /\ at'[c] = "in" => state = "closed" \/ Cooled(now)]_breakerVars

(* The breaker implements its contract: trip, probe after the cool-down,    *)
(* recover, and no other change of state (never open to closed).            *)
Contract == INSTANCE BreakerContract WITH
  phase     <- state,
  coolUntil <- IF state = "closed" THEN 0 ELSE lastFailure + ResetTimeout

ImplementsContract == Contract!Spec
==============================================================================
