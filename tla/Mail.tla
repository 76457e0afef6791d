-------------------------------- MODULE Mail --------------------------------
(***************************************************************************)
(* Mail delivery: EmailService puts jobs on two BullMQ queues, one worker  *)
(* per queue takes them, and both workers send through one SmtpClient and  *)
(* its circuit breaker.  A letter is one call of sendAuthEmail (one job,   *)
(* not awaited by AuthService) or of sendEmail/sendBulkEmail (one job per  *)
(* recipient, awaited).  The breaker gives a slow send up, the server does *)
(* not: it may accept the mail later.  A worker that dies holds its jobs   *)
(* until BullMQ finds them stalled.  One Node process, restarted by Docker. *)
(***************************************************************************)
EXTENDS Breaker, FiniteSets

CONSTANTS
  Job,          \* one mail to one recipient
  Letter,       \* calls of the facade
  JobsOf(_),    \* JobsOf(l): the jobs of letter l
  Auth,         \* letters of the auth queue; the others go on the general one
  Concurrency(_), \* jobs the worker of a queue ("auth", "general") runs at once
  MaxAttempts,  \* AUTH_EMAIL_MAX_ATTEMPTS, EMAIL_MAX_ATTEMPTS
  Delay(_),     \* Delay(n): ticks before the retry that follows attempt n
  MaxCrashes,   \* bound: crashes of the process
  MaxStops      \* bound: graceful restarts

\* Every job belongs to one letter at most: each call adds jobs of its own.
ASSUME MailAssumption ==
  /\ MaxAttempts \in Nat \ {0}
  /\ \A n \in 1 .. MaxAttempts : Delay(n) \in Nat \ {0}
  /\ MaxCrashes \in Nat /\ MaxStops \in Nat
  /\ \A l \in Letter : JobsOf(l) \subseteq Job
  /\ \A l, m \in Letter : l # m => JobsOf(l) \cap JobsOf(m) = {}

VARIABLES
  asked,   \* asked[l]: the call of letter l
  job,     \* job[j]
  copies,  \* copies[j]: times the server accepted the mail of j, or is going to
  brk,     \* the breaker `smtp'
  up,      \* FALSE while the process shuts down
  crashes, stops,
  fate     \* fate[j] (history): the worst end of a send of j so far

vars == <<asked, job, copies, brk, up, crashes, stops, fate>>

QueueOf(j) == IF \E l \in Auth : j \in JobsOf(l) THEN "auth" ELSE "general"

JobState ==
  [at : {"none", "adding", "lost", "waiting", "delayed", "active", "completed", "failed"},
   attempts : 0 .. MaxAttempts,
   wait : Nat,
   sending : {"no", "sent", "accepted"},
   stalls : 0 .. 1]

NoJob == [at |-> "none", attempts |-> 0, wait |-> 0, sending |-> "no", stalls |-> 0]

TypeOK ==
  /\ asked \in [Letter -> {"no", "adding", "answered", "refused"}]
  /\ job \in [Job -> JobState]
  /\ \A j \in Job : job[j].sending # "no" => job[j].at = "active"
  /\ copies \in [Job -> Nat]
  /\ brk \in Breaker
  /\ up \in BOOLEAN
  /\ crashes \in 0 .. MaxCrashes
  /\ stops \in 0 .. MaxStops
  /\ fate \in [Job -> {"none", "refused", "unknown"}]

Init ==
  /\ asked = [l \in Letter |-> "no"]
  /\ job = [j \in Job |-> NoJob]
  /\ copies = [j \in Job |-> 0]
  /\ brk = Closed
  /\ up = TRUE
  /\ crashes = 0
  /\ stops = 0
  /\ fate = [j \in Job |-> "none"]

(***************************************************************************)
(* The facade                                                              *)
(***************************************************************************)
\* The adds of all recipients start together.  AuthService does not wait for its own.
Ask(l) ==
  /\ asked[l] = "no"
  /\ asked' = [asked EXCEPT ![l] = IF l \in Auth THEN "answered" ELSE "adding"]
  /\ job' = [j \in Job |-> IF j \in JobsOf(l) THEN [job[j] EXCEPT !.at = "adding"]
                           ELSE job[j]]
  /\ UNCHANGED <<copies, brk, up, crashes, stops, fate>>

Add(j) ==
  /\ job[j].at = "adding"
  /\ job' = [job EXCEPT ![j].at = "waiting"]
  /\ UNCHANGED <<asked, copies, brk, up, crashes, stops, fate>>

\* Redis refuses the job.
AddFails(j) ==
  /\ job[j].at = "adding"
  /\ job' = [job EXCEPT ![j].at = "lost"]
  /\ UNCHANGED <<asked, copies, brk, up, crashes, stops, fate>>

\* Mutant: the call resolves with the first job that is added (Promise.any).
AnyAdded(l) == \E j \in JobsOf(l) : job[j].at \notin {"none", "adding", "lost"}

\* Promise.all rejects with the first refusal and resolves when every job is added.
AllAdded(l) == \A j \in JobsOf(l) : job[j].at \notin {"none", "adding", "lost"}
AnyLost(l) == \E j \in JobsOf(l) : job[j].at = "lost"

Reply(l) ==
  /\ asked[l] = "adding"
  /\ \/ AllAdded(l) /\ asked' = [asked EXCEPT ![l] = "answered"]
     \/ AnyLost(l) /\ asked' = [asked EXCEPT ![l] = "refused"]
  /\ UNCHANGED <<job, copies, brk, up, crashes, stops, fate>>

(***************************************************************************)
(* The workers                                                             *)
(***************************************************************************)
\* Mutant: the attempts are compared before the one that failed is counted.
RetriedOnceMore(r) ==
  LET n == r.attempts + 1
  IN  IF r.attempts < MaxAttempts
      THEN [r EXCEPT !.at = "delayed", !.attempts = n, !.wait = Delay(n), !.sending = "no"]
      ELSE [r EXCEPT !.at = "failed", !.attempts = n, !.sending = "no"]

\* BullMQ: an attempt that throws is retried after a delay until the attempts are used up.
Retried(r) ==
  LET n == r.attempts + 1
  IN  IF n < MaxAttempts
      THEN [r EXCEPT !.at = "delayed", !.attempts = n, !.wait = Delay(n), !.sending = "no"]
      ELSE [r EXCEPT !.at = "failed", !.attempts = n, !.sending = "no"]

\* The jobs whose handlers a worker runs: one that is found stalled takes no slot.
Running(q) == {j \in Job : job[j].sending # "no" /\ QueueOf(j) = q}

\* Jobs whose mail is on its way to the server.
Sent == {j \in Job : job[j].sending = "sent"}

\* The worker takes a waiting job and its handler calls sendMail.
Take(j) ==
  /\ up
  /\ job[j].at = "waiting"
  /\ Cardinality(Running(QueueOf(j))) < Concurrency(QueueOf(j))
  /\ brk' = Fired(brk)
  /\ job' = [job EXCEPT ![j] = IF Admits(brk)
                               THEN [@ EXCEPT !.at = "active", !.sending = "sent"]
                               ELSE Retried(@)]
  /\ UNCHANGED <<asked, copies, up, crashes, stops, fate>>

\* The server accepts the mail; its answer is on its way.
Accept(j) ==
  /\ job[j].sending = "sent"
  /\ job' = [job EXCEPT ![j].sending = "accepted"]
  /\ copies' = [copies EXCEPT ![j] = @ + 1]
  /\ UNCHANGED <<asked, brk, up, crashes, stops, fate>>

\* sendMail resolves and the handler ends.
Complete(j) ==
  /\ job[j].sending = "accepted"
  /\ brk' = Succeeded(brk)
  /\ job' = [job EXCEPT ![j].at = "completed", ![j].sending = "no"]
  /\ UNCHANGED <<asked, copies, up, crashes, stops, fate>>

\* Mutant: fire returns the sentinel, and the handler ends as if the mail were sent.
Swallowed(r) == [r EXCEPT !.at = "completed", !.sending = "no"]

\* fire: the fallback turned the failure into the sentinel, and the sentinel is thrown.
Thrown(r) == Retried(r)

\* The server refuses the mail, or the connection fails.
Refuse(j) ==
  /\ job[j].sending = "sent"
  /\ brk' = Failed(brk)
  /\ job' = [job EXCEPT ![j] = Thrown(@)]
  /\ fate' = [fate EXCEPT ![j] = IF @ = "none" THEN "refused" ELSE @]
  /\ UNCHANGED <<asked, copies, up, crashes, stops>>

\* A send that is abandoned before the server answers: it may accept the mail all the same.
Abandoned(sent) ==
  {[j \in Job |-> IF j \in took THEN copies[j] + 1 ELSE copies[j]] : took \in SUBSET sent}

\* The breaker's timeout: the send is given up, not cancelled.
TimeOut(j) ==
  /\ job[j].sending # "no"
  /\ brk' = Failed(brk)
  /\ job' = [job EXCEPT ![j] = Retried(@)]
  /\ copies' \in Abandoned({j} \cap Sent)
  /\ fate' = [fate EXCEPT ![j] = "unknown"]
  /\ UNCHANGED <<asked, up, crashes, stops>>

\* BullMQ finds a job whose worker is gone: once it is queued again, then it fails.
Stalled(j) ==
  /\ up
  /\ job[j].at = "active" /\ job[j].sending = "no"
  /\ job' = [job EXCEPT ![j] = IF @.stalls = 0 THEN [@ EXCEPT !.at = "waiting", !.stalls = 1]
                               ELSE [@ EXCEPT !.at = "failed"]]
  /\ UNCHANGED <<asked, copies, brk, up, crashes, stops, fate>>

\* A tick of the clock: the delays and the breaker's timer; the window may roll.
Tick ==
  /\ \/ \E j \in Job : job[j].at = "delayed"
     \/ brk.state = "open"
  /\ job' = [j \in Job |->
               IF job[j].at # "delayed" THEN job[j]
               ELSE [job[j] EXCEPT !.wait = @ - 1,
                                   !.at = IF job[j].wait = 1 THEN "waiting" ELSE "delayed"]]
  /\ brk' \in {Ticked(brk), Rolled(Ticked(brk))}
  /\ UNCHANGED <<asked, copies, up, crashes, stops, fate>>

(***************************************************************************)
(* Shutdown and crash                                                      *)
(***************************************************************************)
\* SIGTERM: worker.close() takes no more jobs.
Stop ==
  /\ up
  /\ stops < MaxStops
  /\ up' = FALSE
  /\ stops' = stops + 1
  /\ UNCHANGED <<asked, job, copies, brk, crashes, fate>>

\* Mutant: the process ends without waiting for the jobs that are being processed.
Undrained == TRUE

\* Mutant: the process waits for the whole queue, which nobody empties any more.
DrainedQueue == \A j \in Job : job[j].at \notin {"waiting", "active"}

\* worker.close() waits for the jobs that are being processed.
Drained == \A j \in Job : job[j].sending = "no"

\* The worker of a job that is being sent is gone.
Orphaned(j) == [job[j] EXCEPT !.sending = "no"]

\* Workers, requests and queue.close() are done: Docker starts a new process.
Restart ==
  /\ ~up
  /\ Drained
  /\ \A j \in Job : job[j].at # "adding"
  /\ \A l \in Letter : asked[l] # "adding"
  /\ up' = TRUE
  /\ brk' = Closed
  /\ job' = [j \in Job |-> Orphaned(j)]
  /\ UNCHANGED <<asked, copies, crashes, stops, fate>>

\* The process dies between any two steps.
Crash ==
  /\ crashes < MaxCrashes
  /\ crashes' = crashes + 1
  /\ up' = TRUE
  /\ brk' = Closed
  /\ job' = [j \in Job |-> IF job[j].at = "adding" THEN [job[j] EXCEPT !.at = "lost"]
                           ELSE Orphaned(j)]
  /\ asked' = [l \in Letter |-> IF asked[l] = "adding" THEN "refused" ELSE asked[l]]
  /\ copies' \in Abandoned(Sent)
  /\ fate' = [j \in Job |-> IF job[j].sending # "no" THEN "unknown" ELSE fate[j]]
  /\ UNCHANGED stops

Answers(j) == Accept(j) \/ Complete(j) \/ Refuse(j) \/ TimeOut(j)

Next ==
  \/ \E l \in Letter : Ask(l) \/ Reply(l)
  \/ \E j \in Job :
       Add(j) \/ AddFails(j) \/ Take(j) \/ Answers(j) \/ Stalled(j)
  \/ Tick \/ Stop \/ Restart \/ Crash

Spec == Init /\ [][Next]_vars

\* Redis and the server answer (where the server does not, the breaker's timeout does), the
\* workers poll their queues, the clock goes on, and a process that stopped is restarted.
Fairness ==
  /\ \A l \in Letter : WF_vars(Reply(l))
  /\ \A j \in Job :
       /\ WF_vars(Add(j) \/ AddFails(j))
       /\ WF_vars(Take(j))
       /\ WF_vars(Answers(j))
       /\ WF_vars(Stalled(j))
  /\ WF_vars(Tick)
  /\ WF_vars(Restart)

FairSpec == Spec /\ Fairness

(***************************************************************************)
(* Properties                                                              *)
(***************************************************************************)
\* A job that completed was accepted by the server at least once: ManagedCircuitBreaker.fire
\* never lets the fallback's value pass for a sent mail.  (Part of KeepsItsPromise.)
CompletedWasAccepted ==
  \A j \in Job : job[j].at = "completed" => copies[j] > 0

\* A recipient gets the same mail twice only if a send was given up by the breaker's timeout
\* or died with the process: neither a retry after a refusal nor a graceful restart doubles it.
DuplicatesNeedDoubt ==
  \A j \in Job : copies[j] > 1 => fate[j] = "unknown"

\* The policy of attempts in the job options, in spite of deaths of the process: a recipient
\* gets no more copies than the job has attempts, but for one more if the process died, since
\* BullMQ queues a stalled job again; and no job fails for good with attempts left unless the
\* process died twice during its sends.  A graceful restart costs neither, as worker.close()
\* waits for the handlers.
AttemptsAreKept ==
  \A j \in Job :
    /\ copies[j] <= MaxAttempts + (IF crashes = 0 THEN 0 ELSE 1)
    /\ job[j].at = "failed" => job[j].attempts = MaxAttempts \/ crashes >= 2

\* Where a mail is whose job is at at, as a caller of EmailService knows it.
Whereabouts(at) ==
  CASE at = "adding"    -> "offered"
    [] at = "completed" -> "delivered"
    [] at = "failed"    -> "given up"
    [] at \in {"waiting", "delayed", "active"} -> "kept"
    [] OTHER -> at

Promised == INSTANCE Outbox WITH
  Mail <- Job, MailsOf <- JobsOf, Awaited <- Letter \ Auth,
  call <- asked, mail <- [j \in Job |-> Whereabouts(job[j].at)],
  reached <- {j \in Job : copies[j] > 0}

\* The queues keep what EmailService promises: sendEmail and sendBulkEmail resolve only when
\* every recipient has a job; no crash, restart, stall or retry loses a job that Redis has,
\* takes back one that ended or revives one that was refused; and only a mail that the server
\* took is delivered, as the fallback of the breaker never passes for a sent mail.
KeepsItsPromise == Promised!Spec

\* Every job that is queued ends: it is delivered or it fails for good, whatever the
\* server, the breaker and the restarts do.
EveryJobEnds ==
  \A j \in Job : job[j].at = "waiting" ~> job[j].at \in {"completed", "failed"}

\* What auth-email.processor.ts:10 promises: an auth mail fails for good only if one of its
\* own sends reached the server and failed.
AuthFailsOnItsOwn ==
  \A l \in Auth : \A j \in JobsOf(l) : job[j].at = "failed" => fate[j] # "none"
=============================================================================
