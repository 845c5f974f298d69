--------------------------- MODULE BreakerContract ---------------------------
(***************************************************************************)
(* What internal/httpx/client.go promises of its circuit breaker, with no  *)
(* caller, no lock and no failure count: a closed breaker may trip, an     *)
(* open one may be probed only once its cool-down is over, a probed one    *)
(* recovers or trips again.  The cool-down of a breaker that is not closed *)
(* ends at coolUntil; a closed breaker has none.                           *)
(***************************************************************************)
EXTENDS Integers

CONSTANTS ResetTimeout      \* Config.ResetTimeout, in clock ticks

VARIABLES phase, coolUntil, now

contractVars == <<phase, coolUntil, now>>

NoCoolDown == 0

Init == phase = "closed" /\ coolUntil = NoCoolDown /\ now \in Nat

(* The breaker opens, or a late failure of an open breaker restarts the    *)
(* cool-down.  Either way a full ResetTimeout has to pass from now.        *)
Trip ==
  /\ phase' = "open"
  /\ coolUntil' = now + ResetTimeout
  /\ UNCHANGED now

Probe ==
  /\ phase = "open" /\ now >= coolUntil
  /\ phase' = "half-open"
  /\ UNCHANGED <<coolUntil, now>>

Recover ==
  /\ phase = "half-open"
  /\ phase' = "closed" /\ coolUntil' = NoCoolDown
  /\ UNCHANGED now

Pass ==
  /\ now' = now + 1
  /\ UNCHANGED <<phase, coolUntil>>

Next == Trip \/ Probe \/ Recover \/ Pass

Spec == Init /\ [][Next]_contractVars
==============================================================================
