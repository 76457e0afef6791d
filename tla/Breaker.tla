------------------------------- MODULE Breaker -------------------------------
(***************************************************************************)
(* ManagedCircuitBreaker over an opossum breaker, as a value and the       *)
(* operators that change it.  The breaker counts the calls of its rolling  *)
(* window; a failure that leaves more than half of Volume or more calls    *)
(* failed opens it, for Reset ticks of the clock; then it lets one call    *)
(* probe, and the next success closes it, the next failure opens it again. *)
(* Volume is volumeThreshold and Reset resetTimeout, in ticks.             *)
(***************************************************************************)
EXTENDS Naturals

CONSTANTS Volume, Reset

ASSUME BreakerAssumption == Volume \in Nat \ {0} /\ Reset \in Nat \ {0}

Breaker == [state : {"closed", "open", "half", "probing"},
            fires : Nat, failures : Nat, timer : 0 .. Reset]

\* create: registered closed, its statistics empty.
Closed == [state |-> "closed", fires |-> 0, failures |-> 0, timer |-> 0]

\* breaker.fire runs the call; otherwise the fallback answers the sentinel.
Admits(b) == b.state \in {"closed", "half"}

\* Every call counts as fired, the rejected too; one call probes a half-open breaker.
Fired(b) ==
  [b EXCEPT !.fires = @ + 1, !.state = IF @ = "half" THEN "probing" ELSE @]

\* A call that succeeds closes a breaker that is being probed.
Succeeded(b) ==
  IF b.state \in {"half", "probing"} THEN [b EXCEPT !.state = "closed"] ELSE b

\* A call that fails or times out.
Failed(b) ==
  LET f     == b.failures + 1
      Trips == \/ b.state \in {"half", "probing"}
               \/ b.state = "closed" /\ b.fires >= Volume /\ 2 * f > b.fires
  IN  IF Trips THEN [b EXCEPT !.failures = f, !.state = "open", !.timer = Reset]
      ELSE [b EXCEPT !.failures = f]

\* A tick of the clock: the reset timer of an open breaker ends in half-open.
Ticked(b) ==
  IF b.state # "open" THEN b
  ELSE [b EXCEPT !.timer = @ - 1, !.state = IF b.timer = 1 THEN "half" ELSE "open"]

\* The window rolls past the calls it has counted.
Rolled(b) == [b EXCEPT !.fires = 0, !.failures = 0]
=============================================================================
