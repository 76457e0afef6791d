---------------------------- MODULE SingleFlight ----------------------------
(***************************************************************************)
(* What request coalescing promises, without caches, maps or awaits:       *)
(* whoever asks for a place where somebody is at work has no work to do,   *)
(* and is told the same answer at the same moment as everybody who asks    *)
(* for that place.  Nobody is left asking for a place where nobody works.  *)
(***************************************************************************)
CONSTANTS Caller, Place, Answer

VARIABLES
  asks,  \* asks[c]: the place that caller c asks for: {} or {p}
  lead,  \* the callers that are at work for the place they ask for
  told   \* told[c]: the answer that c has and has not returned yet: {} or {a}

flight == <<asks, lead, told>>

Init ==
  /\ asks = [c \in Caller |-> {}]
  /\ lead = {}
  /\ told = [c \in Caller |-> {}]

Free(c) == asks[c] = {} /\ told[c] = {}

\* Somebody is at work for p.
Busy(p) == \E d \in lead : asks[d] = {p}

\* c asks for p, and goes to work if nobody is at work for it.
Ask(c, p) ==
  /\ Free(c)
  /\ asks' = [asks EXCEPT ![c] = {p}]
  /\ lead' = IF Busy(p) THEN lead ELSE lead \cup {c}
  /\ UNCHANGED told

\* c has an answer at once.
Hit(c, a) ==
  /\ Free(c)
  /\ told' = [told EXCEPT ![c] = {a}]
  /\ UNCHANGED <<asks, lead>>

\* The work of c ends, well or not: all who ask for its place are told.
Land(c, a) ==
  /\ c \in lead
  /\ asks' = [d \in Caller |-> IF asks[d] = asks[c] THEN {} ELSE asks[d]]
  /\ told' = [d \in Caller |-> IF asks[d] = asks[c] THEN {a} ELSE told[d]]
  /\ lead' = lead \ {c}

Return(c) ==
  /\ told[c] # {}
  /\ told' = [told EXCEPT ![c] = {}]
  /\ UNCHANGED <<asks, lead>>

\* The callers C die with their process, and with all who ask for the same places.
Die(C) ==
  /\ \A c \in C, d \in Caller : asks[c] # {} /\ asks[d] = asks[c] => d \in C
  /\ asks' = [c \in Caller |-> IF c \in C THEN {} ELSE asks[c]]
  /\ told' = [c \in Caller |-> IF c \in C THEN {} ELSE told[c]]
  /\ lead' = lead \ C

Next ==
  \/ \E c \in Caller :
       \/ \E p \in Place : Ask(c, p)
       \/ \E a \in Answer : Hit(c, a) \/ Land(c, a)
       \/ Return(c)
  \/ \E C \in SUBSET Caller : Die(C)

Spec == Init /\ [][Next]_flight

=============================================================================
