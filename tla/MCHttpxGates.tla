---------------------------- MODULE MCHttpxGates ----------------------------
(* The two gates of Client.Do, each under its own interleavings: `subject`  *)
(* says which is exercised.  The breaker has three callers, one to open it, *)
(* one on the slow path of Allow and one that fails in its windows; the     *)
(* limiter has two, one asleep while the other refills, and three sleeps in *)
(* a row fit before MaxTicks.                                               *)
EXTENDS HttpxBreaker, HttpxLimiter

CONSTANTS c1, c2, c3, Subjects

MCCallers == {c1, c2, c3}
MCWaiters == {c1, c2}
MCOneWaiter == {c1}

VARIABLE subject

GatesInit == subject \in Subjects /\ Init /\ LimiterInit

BreakerNext == subject = "breaker" /\ Next /\ UNCHANGED <<subject, limiterVars>>
BucketNext == subject = "limiter" /\ LimiterNext /\ UNCHANGED <<subject, breakerVars>>

GatesSpec == GatesInit /\ [][BreakerNext \/ BucketNext]_<<subject, breakerVars, limiterVars>>
==============================================================================
