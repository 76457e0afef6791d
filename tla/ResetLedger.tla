----------------------------- MODULE ResetLedger -----------------------------
(***************************************************************************)
(* What a password-reset token promises, without Redis: it is issued once, *)
(* bound to one user, spent by at most one request, and a password is only *)
(* ever written by the request that spent a token, for the token's user.   *)
(* A token that was spent, revoked or expired never comes back.            *)
(***************************************************************************)
CONSTANTS User, Token, None

VARIABLES
  status,  \* status[t]: where token t is in its life
  holder,  \* holder[t]: the user t was issued for
  setBy    \* setBy[u]: the token that wrote u's password last

ledger == <<status, holder, setBy>>

Status == {"unissued", "live", "spent", "applied", "dead"}

Init ==
  /\ status = [t \in Token |-> "unissued"]
  /\ holder = [t \in Token |-> None]
  /\ setBy = [u \in User |-> None]

Move(t, from, to) == status[t] = from /\ status' = [status EXCEPT ![t] = to]

Issue(t, u) ==
  /\ Move(t, "unissued", "live")
  /\ holder' = [holder EXCEPT ![t] = u]
  /\ UNCHANGED setBy

\* Revoked by its own user's next request, or expired.
Kill(t) == Move(t, "live", "dead") /\ UNCHANGED <<holder, setBy>>

Spend(t) == Move(t, "live", "spent") /\ UNCHANGED <<holder, setBy>>

\* The request that spent t died before it wrote the password.
Waste(t) == Move(t, "spent", "dead") /\ UNCHANGED <<holder, setBy>>

Apply(t) ==
  /\ Move(t, "spent", "applied")
  /\ setBy' = [setBy EXCEPT ![holder[t]] = t]
  /\ UNCHANGED holder

Next == \E t \in Token :
  \/ \E u \in User : Issue(t, u)
  \/ Kill(t) \/ Spend(t) \/ Waste(t) \/ Apply(t)

Spec == Init /\ [][Next]_ledger

=============================================================================
