------------------------------- MODULE Outbox -------------------------------
(***************************************************************************)
(* What a caller of EmailService may rely on, without queues, workers and  *)
(* breakers.  A call hands in the mails of its recipients at once.  It is  *)
(* answered when all of them are kept and refused when one was lost; a     *)
(* mail that is kept survives the process and ends once: given up, or      *)
(* delivered if it reached the server.  A refusal takes nothing back: what *)
(* was kept will be sent.                                                  *)
(***************************************************************************)
CONSTANTS
  Letter, Mail,
  MailsOf(_),  \* MailsOf(l): the mails that call l hands in
  Awaited      \* the calls that wait until their mails are kept

VARIABLES
  call,  \* call[l]: "no", "adding", "answered", "refused"
  mail,  \* mail[m]: "none", "offered", "lost", "kept", "delivered", "given up"
  reached \* the mails that reached the server

outbox == <<call, mail, reached>>

Init ==
  /\ call = [l \in Letter |-> "no"]
  /\ mail = [m \in Mail |-> "none"]
  /\ reached = {}

HandIn(l) ==
  /\ call[l] = "no"
  /\ \A m \in MailsOf(l) : mail[m] = "none"
  /\ call' = [call EXCEPT ![l] = IF l \in Awaited THEN "adding" ELSE "answered"]
  /\ mail' = [m \in Mail |-> IF m \in MailsOf(l) THEN "offered" ELSE mail[m]]
  /\ UNCHANGED reached

Keep(m) ==
  /\ mail[m] = "offered"
  /\ mail' = [mail EXCEPT ![m] = "kept"]
  /\ UNCHANGED <<call, reached>>

Lose(m) ==
  /\ mail[m] = "offered"
  /\ mail' = [mail EXCEPT ![m] = "lost"]
  /\ UNCHANGED <<call, reached>>

Answer(l) ==
  /\ call[l] = "adding"
  /\ \A m \in MailsOf(l) : mail[m] \in {"kept", "delivered", "given up"}
  /\ call' = [call EXCEPT ![l] = "answered"]
  /\ UNCHANGED <<mail, reached>>

Reject(l) ==
  /\ call[l] = "adding"
  /\ \E m \in MailsOf(l) : mail[m] = "lost"
  /\ call' = [call EXCEPT ![l] = "refused"]
  /\ UNCHANGED <<mail, reached>>

Arrive(m) ==
  /\ mail[m] = "kept"
  /\ reached' = reached \cup {m}
  /\ UNCHANGED <<call, mail>>

\* A mail ends only if it was kept, and only once.  One that is given up may arrive yet.
Deliver(m) ==
  /\ mail[m] = "kept"
  /\ m \in reached
  /\ mail' = [mail EXCEPT ![m] = "delivered"]
  /\ UNCHANGED <<call, reached>>

GiveUp(m) ==
  /\ mail[m] = "kept"
  /\ mail' = [mail EXCEPT ![m] = "given up"]
  /\ reached' \in {reached, reached \cup {m}}
  /\ UNCHANGED call

\* The process dies: who waited has no answer, and what was offered is lost.  Mails
\* on their way may arrive.
Die ==
  /\ call' = [l \in Letter |-> IF call[l] = "adding" THEN "refused" ELSE call[l]]
  /\ mail' = [m \in Mail |-> IF mail[m] = "offered" THEN "lost" ELSE mail[m]]
  /\ \E M \in SUBSET {m \in Mail : mail[m] = "kept"} : reached' = reached \cup M

Next ==
  \/ \E l \in Letter : HandIn(l) \/ Answer(l) \/ Reject(l)
  \/ \E m \in Mail : Keep(m) \/ Lose(m) \/ Arrive(m) \/ Deliver(m) \/ GiveUp(m)
  \/ Die

Spec == Init /\ [][Next]_outbox

=============================================================================
