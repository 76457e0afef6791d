----------------------------- MODULE MailProofs -----------------------------
(***************************************************************************)
(* Proofs about Mail, for any number of letters, jobs and attempts, any    *)
(* delays and concurrency, and any bound on crashes and restarts.          *)
(*                                                                         *)
(* What a job is, how often the server took its mail and what became of    *)
(* its sends hang together job by job: a mail the server took is the       *)
(* answer of a send that still runs, the reason the job completed, or a    *)
(* send that nobody saw the end of.  A second invariant counts the tries   *)
(* of a job against the deaths of the process; the last section maps the   *)
(* steps of the queues to those of Outbox.                                 *)
(***************************************************************************)
EXTENDS Mail, TLAPS

Alive == {"none", "adding", "lost", "waiting", "delayed", "active"}

\* A job r whose mail the server took n times and whose sends ended as f says.
Sound(r, n, f) ==
  /\ r \in JobState /\ n \in Nat /\ f \in {"none", "refused", "unknown"}
  /\ r.sending # "no" => r.at = "active"
  /\ r.at \in Alive => r.attempts < MaxAttempts
  /\ r.at = "delayed" => r.wait > 0
  /\ r.sending = "accepted" \/ r.at = "completed" => n > 0
  /\ f # "unknown" /\ n > 0 => n = 1 /\ (r.sending = "accepted" \/ r.at = "completed")

\* An open breaker has a timer that runs.
Works(b) == b \in Breaker /\ (b.state = "open" => b.timer > 0)

\* Nothing has happened to the jobs of a call that nobody made.
AskedInv == \A l \in Letter : asked[l] = "no" => \A j \in JobsOf(l) : job[j].at = "none"

IInv ==
  /\ asked \in [Letter -> {"no", "adding", "answered", "refused"}]
  /\ job \in [Job -> JobState]
  /\ copies \in [Job -> Nat]
  /\ fate \in [Job -> {"none", "refused", "unknown"}]
  /\ \A j \in Job : Sound(job[j], copies[j], fate[j])
  /\ AskedInv
  /\ Works(brk)
  /\ up \in BOOLEAN
  /\ crashes \in 0 .. MaxCrashes
  /\ stops \in 0 .. MaxStops
-----------------------------------------------------------------------------
(* The breaker *)

\* A breaker that works still works after whatever is done to it.
LEMMA BreakerWorks ==
  ASSUME NEW b, Works(b)
  PROVE  /\ Works(Fired(b)) /\ Works(Succeeded(b)) /\ Works(Failed(b))
         /\ Works(Ticked(b)) /\ Works(Rolled(b)) /\ Works(Closed)
<1> USE BreakerAssumption DEF Works, Breaker
<1>1. Works(Fired(b))
  <2>1. b.fires + 1 \in Nat
    OBVIOUS
  <2>2. /\ Fired(b) \in Breaker
        /\ Fired(b).timer = b.timer
        /\ Fired(b).state = "open" => b.state = "open"
    BY <2>1 DEF Fired
  <2> QED
    BY <2>2
<1>2. Works(Succeeded(b))
  BY DEF Succeeded
<1>3. Works(Failed(b))
  <2>1. PICK f \in Nat : f = b.failures + 1
    OBVIOUS
  <2>2. \/ Failed(b) = [state |-> "open", fires |-> b.fires, failures |-> f, timer |-> Reset]
        \/ Failed(b) = [state |-> b.state, fires |-> b.fires, failures |-> f, timer |-> b.timer]
    BY <2>1 DEF Failed
  <2> QED
    BY <2>2
<1>4. Works(Ticked(b))
  <2>1. CASE b.state = "open"
    <3>1. b.timer - 1 \in 0 .. Reset /\ (b.timer # 1 => b.timer - 1 > 0)
      BY <2>1
    <3> QED
      BY <2>1, <3>1 DEF Ticked
  <2>2. CASE b.state # "open"
    BY <2>2 DEF Ticked
  <2> QED
    BY <2>1, <2>2
<1>5. Works(Rolled(b))
  <2>1. Rolled(b) \in Breaker /\ Rolled(b).timer = b.timer /\ Rolled(b).state = b.state
    BY DEF Rolled
  <2> QED
    BY <2>1
<1>6. Works(Closed)
  BY DEF Closed
<1> QED
  BY <1>1, <1>2, <1>3, <1>4, <1>5, <1>6
-----------------------------------------------------------------------------
(* A job *)

\* A send that ends without the server's yes uses an attempt up.
LEMMA RetriedIsSound ==
  ASSUME NEW r, NEW n, NEW f, NEW g, Sound(r, n, f), r.at \in Alive,
         g = f \/ g = "unknown" \/ (f # "unknown" /\ g = "refused"),
         r.sending = "accepted" => g = "unknown"
  PROVE  /\ Sound(Retried(r), n, g)
         /\ Retried(r).at \in {"delayed", "failed"}
<1> DEFINE m == r.attempts + 1
           d == [r EXCEPT !.at = "delayed", !.attempts = m, !.wait = Delay(m), !.sending = "no"]
           e == [r EXCEPT !.at = "failed", !.attempts = m, !.sending = "no"]
<1>1. m \in 1 .. MaxAttempts /\ m \in 0 .. MaxAttempts /\ Delay(m) \in Nat \ {0}
  BY MailAssumption DEF Sound, JobState, Alive
<1>2. Retried(r) = IF m < MaxAttempts THEN d ELSE e
  BY DEF Retried
<1>3. CASE m < MaxAttempts
  <2>1. PICK w \in Nat \ {0} : w = Delay(m)
    BY <1>1
  <2>2. /\ d.at = "delayed" /\ d.attempts = m /\ d.wait = w /\ d.sending = "no"
        /\ d \in JobState
    BY <1>1, <2>1 DEF Sound, JobState
  <2> HIDE DEF d, m
  <2>3. w > 0
    OBVIOUS
  <2> QED
    BY <1>2, <1>3, <2>2, <2>3 DEF Sound, Alive
<1>4. CASE ~(m < MaxAttempts)
  <2>1. e \in JobState /\ e.at = "failed" /\ e.sending = "no"
    BY <1>1 DEF Sound, JobState
  <2> HIDE DEF e, m
  <2> QED
    BY <1>2, <1>4, <2>1 DEF Sound, Alive
<1> QED
  BY <1>3, <1>4

\* The process of a send is gone: if it was on its way, nobody knows what became of it.
LEMMA OrphanIsSound ==
  ASSUME NEW j \in Job, NEW n \in Nat, NEW f, Sound(job[j], copies[j], fate[j]),
         job[j].sending = "no" => n = copies[j] /\ f = fate[j],
         job[j].sending # "no" => f = "unknown"
  PROVE  /\ Sound(Orphaned(j), n, f)
         /\ Orphaned(j).at = job[j].at
<1> DEFINE o == Orphaned(j)
<1>1. /\ o \in JobState /\ o.sending = "no" /\ o.at = job[j].at
      /\ o.attempts = job[j].attempts /\ o.wait = job[j].wait
  BY DEF Orphaned, Sound, JobState
<1> HIDE DEF o
<1>2. Sound(o, n, f)
  BY <1>1 DEF Sound, Alive
<1> QED
  BY <1>1, <1>2 DEF o

\* Sends that are given up may be accepted all the same; nothing else is.
LEMMA AbandonedCopies ==
  ASSUME copies \in [Job -> Nat], NEW S \in SUBSET Job, copies' \in Abandoned(S)
  PROVE  /\ copies' \in [Job -> Nat]
         /\ \A j \in Job : copies'[j] >= copies[j]
         /\ \A j \in Job \ S : copies'[j] = copies[j]
<1>1. PICK took \in SUBSET S :
        copies' = [j \in Job |-> IF j \in took THEN copies[j] + 1 ELSE copies[j]]
  BY DEF Abandoned
<1> QED
  BY <1>1
-----------------------------------------------------------------------------
(* The steps *)

\* A step after which every job is sound and no call is unmade.
LEMMA Moves ==
  ASSUME IInv,
         job' \in [Job -> JobState], copies' \in [Job -> Nat],
         fate' \in [Job -> {"none", "refused", "unknown"}],
         \A j \in Job : Sound(job'[j], copies'[j], fate'[j]),
         \A j \in Job : job[j].at = "none" => job'[j].at = "none",
         asked' \in [Letter -> {"no", "adding", "answered", "refused"}],
         \A l \in Letter : asked'[l] = "no" => asked[l] = "no",
         Works(brk'), up' \in BOOLEAN, crashes' \in 0 .. MaxCrashes, stops' \in 0 .. MaxStops
  PROVE  IInv'
<1>1. AskedInv'
  BY MailAssumption DEF AskedInv, IInv
<1> QED
  BY <1>1 DEF IInv

\* A step that writes one job, its copies and its fate.
LEMMA OneJob ==
  ASSUME IInv, NEW j \in Job, NEW r, r.at # "none", job[j].at # "none",
         Sound(r, copies'[j], fate'[j]),
         job' = [job EXCEPT ![j] = r],
         copies' \in [Job -> Nat], \A k \in Job \ {j} : copies'[k] = copies[k],
         fate' \in [Job -> {"none", "refused", "unknown"}],
         \A k \in Job \ {j} : fate'[k] = fate[k],
         Works(brk'), UNCHANGED <<asked, up, crashes, stops>>
  PROVE  IInv'
<1>1. r \in JobState
  BY DEF Sound
<1>2. job' \in [Job -> JobState] /\ job'[j] = r /\ \A k \in Job \ {j} : job'[k] = job[k]
  BY <1>1 DEF IInv
<1>3. \A k \in Job : Sound(job'[k], copies'[k], fate'[k])
  BY <1>2 DEF IInv
<1> QED
  BY <1>2, <1>3, Moves DEF IInv

\* A step that leaves the copies and the fates of all jobs alone.
LEMMA Keeps ==
  ASSUME IInv, NEW j \in Job, NEW r, Sound(r, copies[j], fate[j]), r.at # "none",
         job[j].at # "none", job' = [job EXCEPT ![j] = r],
         Works(brk'), UNCHANGED <<asked, copies, fate, up, crashes, stops>>
  PROVE  IInv'
BY OneJob DEF IInv
-----------------------------------------------------------------------------
(* The facade *)

\* A call whose jobs nobody has touched asks for them.
LEMMA AskStep ==
  ASSUME IInv, NEW l \in Letter, Ask(l)
  PROVE  IInv'
<1>1. /\ asked' \in [Letter -> {"no", "adding", "answered", "refused"}]
      /\ asked'[l] # "no" /\ \A m \in Letter \ {l} : asked'[m] = asked[m]
  BY DEF Ask, IInv
<1>2. \A j \in JobsOf(l) : j \in Job /\ job[j].at = "none"
  BY MailAssumption DEF Ask, IInv, AskedInv
<1>3. ASSUME NEW j \in JobsOf(l)
      PROVE  Sound([job[j] EXCEPT !.at = "adding"], copies[j], fate[j])
  <2> DEFINE a == [job[j] EXCEPT !.at = "adding"]
  <2>1. job[j] \in JobState /\ Sound(job[j], copies[j], fate[j]) /\ job[j].at = "none"
    BY <1>2 DEF IInv
  <2>2. /\ a \in JobState /\ a.at = "adding" /\ a.sending = job[j].sending
        /\ a.attempts = job[j].attempts
    BY <2>1 DEF JobState
  <2> HIDE DEF a
  <2>3. Sound(a, copies[j], fate[j])
    BY <2>1, <2>2 DEF Sound, Alive
  <2> QED
    BY <2>3 DEF a
<1>4. \A j \in Job : Sound(job'[j], copies[j], fate[j]) /\ (j \notin JobsOf(l) => job'[j] = job[j])
  BY <1>3 DEF Ask, IInv
<1>5. job' \in [Job -> JobState]
  BY <1>4 DEF Ask, Sound
<1>6. AskedInv'
  BY <1>1, <1>4, MailAssumption DEF AskedInv, IInv
<1> QED
  BY <1>1, <1>4, <1>5, <1>6 DEF Ask, IInv

\* Redis takes a job or refuses it.
LEMMA AddStep ==
  ASSUME IInv, NEW j \in Job, Add(j) \/ AddFails(j)
  PROVE  IInv'
<1> DEFINE a == [job[j] EXCEPT !.at = "waiting"]
           b == [job[j] EXCEPT !.at = "lost"]
<1>1. /\ job[j] \in JobState /\ Sound(job[j], copies[j], fate[j]) /\ job[j].at = "adding"
      /\ job' = [job EXCEPT ![j] = a] \/ job' = [job EXCEPT ![j] = b]
      /\ UNCHANGED <<asked, copies, brk, up, crashes, stops, fate>>
  BY DEF Add, AddFails, IInv
<1>2. /\ a \in JobState /\ a.at = "waiting" /\ a.sending = job[j].sending
      /\ a.attempts = job[j].attempts
      /\ b \in JobState /\ b.at = "lost" /\ b.sending = job[j].sending
      /\ b.attempts = job[j].attempts
  BY <1>1 DEF JobState
<1> HIDE DEF a, b
<1>3. Sound(a, copies[j], fate[j]) /\ Sound(b, copies[j], fate[j])
  BY <1>1, <1>2 DEF Sound, Alive
<1> QED
  BY <1>1, <1>2, <1>3, Keeps DEF IInv

\* The call is answered.
LEMMA ReplyStep ==
  ASSUME IInv, NEW l \in Letter, Reply(l)
  PROVE  IInv'
<1>1. /\ asked' \in [Letter -> {"no", "adding", "answered", "refused"}]
      /\ \A m \in Letter : asked'[m] = "no" => asked[m] = "no"
  BY DEF Reply, IInv
<1> QED
  BY <1>1, Moves DEF Reply, IInv
-----------------------------------------------------------------------------
(* The workers *)

\* A worker takes a job: its mail goes out, or the open breaker fails the attempt.
LEMMA TakeStep ==
  ASSUME IInv, NEW j \in Job, Take(j)
  PROVE  IInv'
<1> DEFINE a == [job[j] EXCEPT !.at = "active", !.sending = "sent"]
           b == Retried(job[j])
<1>1. /\ job[j] \in JobState /\ Sound(job[j], copies[j], fate[j]) /\ job[j].at = "waiting"
      /\ job' = [job EXCEPT ![j] = a] \/ job' = [job EXCEPT ![j] = b]
      /\ UNCHANGED <<asked, copies, up, crashes, stops, fate>>
  BY DEF Take, IInv
<1>2. Works(brk')
  BY BreakerWorks DEF Take, IInv
<1>3. /\ a \in JobState /\ a.at = "active" /\ a.sending = "sent"
      /\ a.attempts = job[j].attempts
  BY <1>1 DEF JobState
<1>4. Sound(b, copies[j], fate[j]) /\ b.at # "none"
  BY <1>1, RetriedIsSound DEF Sound, Alive
<1> HIDE DEF a, b
<1>5. Sound(a, copies[j], fate[j])
  BY <1>1, <1>3 DEF Sound, Alive
<1> QED
  BY <1>1, <1>2, <1>3, <1>4, <1>5, Keeps

\* The server takes a mail that is on its way: nobody knows of an earlier copy that
\* is not in doubt.
LEMMA AcceptStep ==
  ASSUME IInv, NEW j \in Job, Accept(j)
  PROVE  IInv'
<1> DEFINE a == [job[j] EXCEPT !.sending = "accepted"]
           n == copies[j] + 1
<1>1. /\ job[j] \in JobState /\ Sound(job[j], copies[j], fate[j]) /\ job[j].sending = "sent"
      /\ job[j].at = "active"
      /\ job' = [job EXCEPT ![j] = a] /\ copies' = [copies EXCEPT ![j] = n]
      /\ UNCHANGED <<asked, brk, up, crashes, stops, fate>>
  BY DEF Accept, IInv, Sound
<1>2. /\ a \in JobState /\ a.at = "active" /\ a.sending = "accepted"
      /\ a.attempts = job[j].attempts
  BY <1>1 DEF JobState
<1>3. n \in Nat /\ n > 0 /\ (fate[j] # "unknown" => n = 1)
  BY <1>1 DEF Sound
<1> HIDE DEF a, n
<1>4. Sound(a, n, fate[j])
  BY <1>1, <1>2, <1>3 DEF Sound, Alive
<1>5. copies' \in [Job -> Nat] /\ copies'[j] = n /\ \A k \in Job \ {j} : copies'[k] = copies[k]
  BY <1>1, <1>3 DEF IInv
<1> QED
  BY <1>1, <1>2, <1>4, <1>5, OneJob DEF IInv

\* The answer of the server ends the job.
LEMMA CompleteStep ==
  ASSUME IInv, NEW j \in Job, Complete(j)
  PROVE  IInv'
<1> DEFINE a == [job[j] EXCEPT !.at = "completed", !.sending = "no"]
<1>1. /\ job[j] \in JobState /\ Sound(job[j], copies[j], fate[j])
      /\ job[j].sending = "accepted" /\ job[j].at = "active"
      /\ UNCHANGED <<asked, copies, up, crashes, stops, fate>>
  BY DEF Complete, IInv, Sound
<1>2. job' = [job EXCEPT ![j] = a]
  BY <1>1 DEF Complete, IInv
<1>3. Works(brk')
  BY BreakerWorks DEF Complete, IInv
<1>4. a \in JobState /\ a.at = "completed" /\ a.sending = "no"
  BY <1>1 DEF JobState
<1> HIDE DEF a
<1>5. Sound(a, copies[j], fate[j])
  BY <1>1, <1>4 DEF Sound, Alive
<1> QED
  BY <1>1, <1>2, <1>3, <1>4, <1>5, Keeps

\* The server refuses the mail: the attempt is used up and no copy is out.
LEMMA RefuseStep ==
  ASSUME IInv, NEW j \in Job, Refuse(j)
  PROVE  IInv'
<1> DEFINE b == Retried(job[j])
           f == IF fate[j] = "none" THEN "refused" ELSE fate[j]
<1>1. /\ Sound(job[j], copies[j], fate[j]) /\ job[j].sending = "sent" /\ job[j].at = "active"
      /\ job' = [job EXCEPT ![j] = b] /\ fate' = [fate EXCEPT ![j] = f]
      /\ UNCHANGED <<asked, copies, up, crashes, stops>>
  BY DEF Refuse, Thrown, IInv, Sound
<1>2. Works(brk')
  BY BreakerWorks DEF Refuse, IInv
<1>3. f = fate[j] \/ (fate[j] # "unknown" /\ f = "refused")
  OBVIOUS
<1> HIDE DEF f
<1>4. Sound(b, copies[j], f) /\ b.at # "none"
  BY <1>1, <1>3, RetriedIsSound DEF Alive
<1> HIDE DEF b
<1>5. /\ fate' \in [Job -> {"none", "refused", "unknown"}] /\ fate'[j] = f
      /\ \A k \in Job \ {j} : fate'[k] = fate[k]
  BY <1>1, <1>4 DEF IInv, Sound
<1> QED
  BY <1>1, <1>2, <1>4, <1>5, OneJob DEF IInv

\* The breaker gives a send up: from now on the mail is in doubt.
LEMMA TimeOutStep ==
  ASSUME IInv, NEW j \in Job, TimeOut(j)
  PROVE  IInv'
<1> DEFINE b == Retried(job[j])
           S == {j} \cap Sent
<1>1. /\ Sound(job[j], copies[j], fate[j]) /\ job[j].at = "active"
      /\ job' = [job EXCEPT ![j] = b] /\ fate' = [fate EXCEPT ![j] = "unknown"]
      /\ copies' \in Abandoned(S)
      /\ UNCHANGED <<asked, up, crashes, stops>>
  BY DEF TimeOut, IInv, Sound
<1>2. Works(brk')
  BY BreakerWorks DEF TimeOut, IInv
<1>3. S \in SUBSET Job
  BY DEF Sent
<1> HIDE DEF S
<1>4. /\ copies' \in [Job -> Nat] /\ copies'[j] >= copies[j]
  BY <1>1, <1>3, AbandonedCopies DEF IInv
<1>4a. \A k \in Job \ {j} : copies'[k] = copies[k]
  BY <1>1, <1>3, AbandonedCopies DEF IInv, S
<1>5. Sound(b, copies[j], "unknown") /\ b.at # "none"
  BY <1>1, RetriedIsSound DEF Alive
<1>6. b \in JobState /\ copies[j] \in Nat /\ copies'[j] \in Nat
  BY <1>4, <1>5 DEF Sound
<1> HIDE DEF b
<1>7. Sound(b, copies'[j], "unknown")
  BY <1>4, <1>5, <1>6 DEF Sound
<1>8. /\ fate' \in [Job -> {"none", "refused", "unknown"}] /\ fate'[j] = "unknown"
      /\ \A k \in Job \ {j} : fate'[k] = fate[k]
  BY <1>1 DEF IInv
<1> QED
  BY <1>1, <1>2, <1>4, <1>4a, <1>5, <1>7, <1>8, OneJob

\* A job whose worker is gone is queued again, or fails.
LEMMA StalledStep ==
  ASSUME IInv, NEW j \in Job, Stalled(j)
  PROVE  IInv'
<1> DEFINE a == [job[j] EXCEPT !.at = "waiting", !.stalls = 1]
           b == [job[j] EXCEPT !.at = "failed"]
<1>1. /\ job[j] \in JobState /\ Sound(job[j], copies[j], fate[j])
      /\ job[j].at = "active" /\ job[j].sending = "no"
      /\ job' = [job EXCEPT ![j] = a] \/ job' = [job EXCEPT ![j] = b]
      /\ UNCHANGED <<asked, copies, brk, up, crashes, stops, fate>>
  BY DEF Stalled, IInv
<1>2. /\ a \in JobState /\ a.at = "waiting" /\ a.sending = "no"
      /\ a.attempts = job[j].attempts
  <2>1. 1 \in 0 .. 1
    OBVIOUS
  <2> QED
    BY <1>1, <2>1 DEF JobState
<1>2b. b \in JobState /\ b.at = "failed" /\ b.sending = "no"
  BY <1>1 DEF JobState
<1> HIDE DEF a, b
<1>3. Sound(a, copies[j], fate[j]) /\ Sound(b, copies[j], fate[j])
  BY <1>1, <1>2, <1>2b DEF Sound, Alive
<1> QED
  BY <1>1, <1>2, <1>2b, <1>3, Keeps DEF IInv
-----------------------------------------------------------------------------
(* The clock, shutdown and crash *)

\* A delay that ends puts its job back among the waiting; all others run on.
LEMMA TickStep ==
  ASSUME IInv, Tick
  PROVE  IInv'
<1>1. Works(brk')
  <2>1. Works(Ticked(brk))
    BY BreakerWorks DEF IInv
  <2>2. Works(Rolled(Ticked(brk)))
    BY <2>1, BreakerWorks
  <2> QED
    BY <2>1, <2>2 DEF Tick
<1>2. ASSUME NEW j \in Job
      PROVE  /\ Sound(job'[j], copies[j], fate[j])
             /\ job[j].at = "none" => job'[j].at = "none"
  <2> DEFINE at == IF job[j].wait = 1 THEN "waiting" ELSE "delayed"
  <2>1. job[j] \in JobState /\ Sound(job[j], copies[j], fate[j])
    BY DEF IInv
  <2>2. CASE job[j].at # "delayed"
    <3>1. job'[j] = job[j]
      BY <2>2 DEF Tick
    <3> QED
      BY <2>1, <3>1
  <2>3. CASE job[j].at = "delayed"
    <3>1. job'[j] = [job[j] EXCEPT !.wait = job[j].wait - 1, !.at = at]
      BY <2>3 DEF Tick
    <3>2. PICK w \in Nat : w = job[j].wait - 1 /\ (job[j].wait # 1 => w > 0)
      BY <2>1, <2>3 DEF Sound, JobState
    <3> DEFINE a == [job[j] EXCEPT !.wait = w, !.at = at]
    <3>3. /\ a \in JobState /\ a.at = at /\ a.wait = w
          /\ a.sending = job[j].sending /\ a.attempts = job[j].attempts
      BY <2>1 DEF JobState
    <3>a. job'[j] = a
      BY <3>1, <3>2
    <3> HIDE DEF a
    <3>4. a.at \in {"waiting", "delayed"} /\ (a.at = "delayed" => a.wait > 0)
      BY <3>2, <3>3
    <3>5. Sound(a, copies[j], fate[j])
      BY <2>1, <2>3, <3>3, <3>4 DEF Sound, Alive
    <3> QED
      BY <2>3, <3>a, <3>5
  <2> QED
    BY <2>2, <2>3
<1>3. job' \in [Job -> JobState]
  BY <1>2 DEF Tick, Sound
<1> QED
  BY <1>1, <1>2, <1>3, Moves DEF Tick, IInv

\* The process stops taking jobs.
LEMMA StopStep ==
  ASSUME IInv, Stop
  PROVE  IInv'
<1>1. stops' \in 0 .. MaxStops
  BY MailAssumption DEF Stop, IInv
<1> QED
  BY <1>1, Moves DEF Stop, IInv

\* A graceful restart waits for the sends, so it puts none of them in doubt.
LEMMA RestartStep ==
  ASSUME IInv, Restart
  PROVE  IInv'
<1>1. ASSUME NEW j \in Job
      PROVE  /\ Sound(job'[j], copies[j], fate[j])
             /\ job[j].at = "none" => job'[j].at = "none"
  <2>1. job'[j] = Orphaned(j) /\ job[j].sending = "no"
    BY DEF Restart, Drained
  <2>2. Sound(job[j], copies[j], fate[j]) /\ copies[j] \in Nat
    BY DEF IInv
  <2> QED
    BY <2>1, <2>2, OrphanIsSound
<1>2. job' \in [Job -> JobState]
  BY <1>1 DEF Restart, Sound
<1>3. Works(brk')
  BY BreakerWorks DEF Restart, IInv
<1> QED
  BY <1>1, <1>2, <1>3, Moves DEF Restart, IInv

\* A crash loses the jobs that are being added and puts every send in doubt.
LEMMA CrashStep ==
  ASSUME IInv, Crash
  PROVE  IInv'
<1>1. /\ copies' \in [Job -> Nat]
      /\ \A j \in Job \ Sent : copies'[j] = copies[j]
  BY AbandonedCopies DEF Crash, Sent, IInv
<1>2. ASSUME NEW j \in Job
      PROVE  /\ Sound(job'[j], copies'[j], fate'[j])
             /\ job[j].at = "none" => job'[j].at = "none"
  <2> DEFINE a == [job[j] EXCEPT !.at = "lost"]
  <2>1. /\ job[j] \in JobState /\ Sound(job[j], copies[j], fate[j]) /\ copies'[j] \in Nat
        /\ fate'[j] = IF job[j].sending # "no" THEN "unknown" ELSE fate[j]
    BY <1>1 DEF IInv, Crash
  <2>2. job[j].sending = "no" => copies'[j] = copies[j]
    BY <1>1 DEF Sent
  <2>3. CASE job[j].at = "adding"
    <3>1. job'[j] = a
      BY <2>3 DEF Crash
    <3>2. /\ a \in JobState /\ a.at = "lost" /\ a.sending = job[j].sending
          /\ a.attempts = job[j].attempts
      BY <2>1 DEF JobState
    <3> HIDE DEF a
    <3>3. job[j].sending = "no"
      BY <2>1, <2>3 DEF Sound
    <3>4. Sound(a, copies[j], fate[j])
      BY <2>1, <2>3, <3>2 DEF Sound, Alive
    <3> QED
      BY <2>1, <2>2, <2>3, <3>1, <3>3, <3>4
  <2>4. CASE job[j].at # "adding"
    <3>1. job'[j] = Orphaned(j)
      BY <2>4 DEF Crash
    <3> QED
      BY <2>1, <2>2, <3>1, OrphanIsSound
  <2> QED
    BY <2>3, <2>4
<1>3. job' \in [Job -> JobState] /\ fate' \in [Job -> {"none", "refused", "unknown"}]
  BY <1>2 DEF Crash, Sound
<1>4. /\ asked' \in [Letter -> {"no", "adding", "answered", "refused"}]
      /\ \A l \in Letter : asked'[l] = "no" => asked[l] = "no"
  BY DEF Crash, IInv
<1>5. Works(brk') /\ up' \in BOOLEAN /\ stops' \in 0 .. MaxStops
  BY BreakerWorks DEF Crash, IInv
<1>6. crashes' \in 0 .. MaxCrashes
  BY MailAssumption DEF Crash, IInv
<1> QED
  BY <1>1, <1>2, <1>3, <1>4, <1>5, <1>6, Moves
-----------------------------------------------------------------------------
(* The theorems *)

\* Nothing has been sent yet.
LEMMA InitIsSound ==
  Init => IInv
<1> SUFFICES ASSUME Init PROVE IInv
  OBVIOUS
<1>1. NoJob \in JobState /\ NoJob.at = "none" /\ NoJob.sending = "no" /\ NoJob.attempts = 0
  BY MailAssumption DEF NoJob, JobState
<1>2. Sound(NoJob, 0, "none")
  BY <1>1, MailAssumption DEF Sound, Alive
<1>3. Works(Closed)
  BY BreakerAssumption DEF Works, Closed, Breaker
<1>4. AskedInv
  BY <1>1, MailAssumption DEF Init, AskedInv
<1>5. 0 \in 0 .. MaxCrashes /\ 0 \in 0 .. MaxStops
  BY MailAssumption
<1> QED
  BY <1>1, <1>2, <1>3, <1>4, <1>5 DEF Init, IInv

\* Every step keeps the jobs sound.
LEMMA NextIsSound ==
  IInv /\ [Next]_vars => IInv'
<1> SUFFICES ASSUME IInv, [Next]_vars PROVE IInv'
  OBVIOUS
<1>1. ASSUME NEW l \in Letter, Ask(l) \/ Reply(l) PROVE IInv'
  BY <1>1, AskStep, ReplyStep
<1>2. ASSUME NEW j \in Job,
             Add(j) \/ AddFails(j) \/ Take(j) \/ Answers(j) \/ Stalled(j)
      PROVE  IInv'
  BY <1>2, AddStep, TakeStep, AcceptStep, CompleteStep, RefuseStep, TimeOutStep,
     StalledStep DEF Answers
<1>3. Tick \/ Stop \/ Restart \/ Crash => IInv'
  BY TickStep, StopStep, RestartStep, CrashStep
<1>4. UNCHANGED vars => IInv'
  BY Moves DEF vars, IInv
<1> QED
  BY <1>1, <1>2, <1>3, <1>4 DEF Next

\* The jobs are sound in every reachable state.
THEOREM Inductive == Spec => []IInv
<1> QED
  BY InitIsSound, NextIsSound, PTL DEF Spec

\* The jobs, the breaker and the counters have their types, and only an active job sends,
\* for any delays and limits.
THEOREM TypeCorrect == Spec => []TypeOK
<1>1. IInv => TypeOK
  BY DEF IInv, TypeOK, Sound, Works
<1> QED
  BY <1>1, Inductive, PTL

\* CircuitBreakerService.fire never lets a failure pass for a sent mail: a job that
\* completed was accepted by the server, whatever the restarts did in between.
THEOREM Delivered == Spec => []CompletedWasAccepted
<1>1. IInv => CompletedWasAccepted
  BY DEF IInv, CompletedWasAccepted, Sound
<1> QED
  BY <1>1, Inductive, PTL

\* No retry after a refusal, no stalled job and no graceful restart sends a mail twice:
\* a second copy needs a send that was given up or died with the process.
THEOREM Undoubled == Spec => []DuplicatesNeedDoubt
<1>1. ASSUME IInv, NEW j \in Job, copies[j] > 1
      PROVE  fate[j] = "unknown"
  <2>1. Sound(job[j], copies[j], fate[j])
    BY <1>1 DEF IInv
  <2>2. copies[j] \in Nat
    BY <2>1 DEF Sound
  <2>3. copies[j] > 0 /\ copies[j] # 1
    BY <1>1, <2>2
  <2> QED
    BY <2>1, <2>3 DEF Sound
<1>2. IInv => DuplicatesNeedDoubt
  BY <1>1 DEF DuplicatesNeedDoubt
<1> QED
  BY <1>2, Inductive, PTL
-----------------------------------------------------------------------------
(* The tries of a job *)

\* How often a job was taken so far: each time ended with a throw, which used an attempt up,
\* or with the death of the worker, which BullMQ counts as a stall, or it is the last one.
Tries(r) ==
  r.attempts + r.stalls
    + (IF \/ r.at \in {"active", "completed"}
          \/ r.at = "failed" /\ r.attempts < MaxAttempts
       THEN 1 ELSE 0)

\* A job r whose mail the server took n times, after c deaths of the process.
Tried(r, n, c) ==
  /\ n + (IF r.sending = "sent" THEN 1 ELSE 0) <= Tries(r)
  /\ r.at = "completed" => r.attempts < MaxAttempts
  /\ r.stalls > 0 => c > 0
  /\ r.at = "active" /\ r.sending = "no" => c > r.stalls
  /\ r.at = "failed" /\ r.attempts < MaxAttempts => c > 1

TriesInv == \A j \in Job : Tried(job[j], copies[j], crashes)

\* A job that is waiting or at work has attempts left; one that throws uses one up.
LEMMA RetriedIsTried ==
  ASSUME NEW r, NEW n \in Nat, NEW c \in Nat, r \in JobState, r.attempts < MaxAttempts,
         n <= r.attempts + r.stalls + 1, r.stalls > 0 => c > 0
  PROVE  Tried(Retried(r), n, c)
<1> DEFINE m == r.attempts + 1
           d == [r EXCEPT !.at = "delayed", !.attempts = m, !.wait = Delay(m), !.sending = "no"]
           e == [r EXCEPT !.at = "failed", !.attempts = m, !.sending = "no"]
<1>1. /\ r.attempts \in Nat /\ r.stalls \in Nat /\ m \in Nat
      /\ m <= MaxAttempts /\ MaxAttempts \in Nat
  BY MailAssumption DEF JobState
<1>2. /\ d.at = "delayed" /\ d.attempts = m /\ d.sending = "no" /\ d.stalls = r.stalls
      /\ e.at = "failed" /\ e.attempts = m /\ e.sending = "no" /\ e.stalls = r.stalls
  BY DEF JobState
<1>3. Retried(r) = IF m < MaxAttempts THEN d ELSE e
  BY DEF Retried
<1>4. n <= m + r.stalls
  BY <1>1
<1> HIDE DEF m, d, e
<1>5. CASE m < MaxAttempts
  BY <1>1, <1>2, <1>3, <1>4, <1>5 DEF Tried, Tries
<1>6. CASE ~(m < MaxAttempts)
  BY <1>1, <1>2, <1>3, <1>4, <1>6 DEF Tried, Tries
<1> QED
  BY <1>5, <1>6

\* What is known of a job before a step.
LEMMA TriedNow ==
  ASSUME IInv, TriesInv, NEW j \in Job
  PROVE  /\ job[j] \in JobState /\ Sound(job[j], copies[j], fate[j])
         /\ Tried(job[j], copies[j], crashes)
         /\ job[j].attempts \in Nat /\ job[j].stalls \in 0 .. 1
         /\ copies[j] \in Nat /\ crashes \in Nat /\ MaxAttempts \in Nat
         /\ job[j].at \in Alive => job[j].attempts < MaxAttempts
         /\ job[j].sending # "no" => job[j].at = "active"
         /\ copies[j] <= Tries(job[j])
<1>1. /\ job[j] \in JobState /\ Sound(job[j], copies[j], fate[j])
      /\ Tried(job[j], copies[j], crashes)
  BY DEF IInv, TriesInv
<1>2. /\ job[j].attempts \in Nat /\ job[j].stalls \in 0 .. 1
      /\ copies[j] \in Nat /\ crashes \in Nat /\ MaxAttempts \in Nat
  BY <1>1, MailAssumption DEF JobState, Sound, IInv
<1>3. copies[j] <= Tries(job[j])
  BY <1>1, <1>2 DEF Tried, Tries
<1> QED
  BY <1>1, <1>2, <1>3 DEF Sound

\* A step that writes one job and its copies.
LEMMA TriesOne ==
  ASSUME IInv, TriesInv, NEW j \in Job, NEW r, job' = [job EXCEPT ![j] = r],
         Tried(r, copies'[j], crashes), \A k \in Job \ {j} : copies'[k] = copies[k],
         UNCHANGED crashes
  PROVE  TriesInv'
<1>1. job'[j] = r /\ \A k \in Job \ {j} : job'[k] = job[k]
  BY DEF IInv
<1> QED
  BY <1>1 DEF TriesInv

\* A job that no step of a worker concerns keeps its tries.
LEMMA Untried ==
  ASSUME IInv, TriesInv, NEW j \in Job, NEW r,
         r.at \in {"none", "adding", "lost", "waiting", "delayed"},
         job[j].at \in {"none", "adding", "lost", "waiting", "delayed"},
         r.sending = "no", r.attempts = job[j].attempts, r.stalls = job[j].stalls
  PROVE  Tried(r, copies[j], crashes)
BY TriedNow DEF Tried, Tries

\* The jobs of a call, and their adds.
LEMMA FacadeTries ==
  ASSUME IInv, TriesInv,
         \/ \E l \in Letter : Ask(l) \/ Reply(l)
         \/ \E j \in Job : Add(j) \/ AddFails(j)
  PROVE  TriesInv'
<1>1. ASSUME NEW l \in Letter, Ask(l) PROVE TriesInv'
  <2>1. ASSUME NEW j \in JobsOf(l)
        PROVE  Tried([job[j] EXCEPT !.at = "adding"], copies[j], crashes)
    <3>1. j \in Job /\ job[j].at = "none" /\ job[j] \in JobState /\ job[j].sending = "no"
      BY <1>1, MailAssumption, TriedNow DEF Ask, IInv, AskedInv
    <3> DEFINE a == [job[j] EXCEPT !.at = "adding"]
    <3>2. /\ a.at = "adding" /\ a.sending = "no" /\ a.attempts = job[j].attempts
          /\ a.stalls = job[j].stalls
      BY <3>1 DEF JobState
    <3> HIDE DEF a
    <3>3. Tried(a, copies[j], crashes)
      BY <3>1, <3>2, Untried
    <3> QED
      BY <3>3 DEF a
  <2> QED
    BY <1>1, <2>1 DEF Ask, TriesInv
<1>2. ASSUME NEW l \in Letter, Reply(l) PROVE TriesInv'
  BY <1>2 DEF Reply, TriesInv
<1>3. ASSUME NEW j \in Job, Add(j) \/ AddFails(j) PROVE TriesInv'
  <2> DEFINE a == [job[j] EXCEPT !.at = "waiting"]
             b == [job[j] EXCEPT !.at = "lost"]
  <2>1. /\ job[j] \in JobState /\ job[j].at = "adding" /\ job[j].sending = "no"
        /\ job' = [job EXCEPT ![j] = a] \/ job' = [job EXCEPT ![j] = b]
        /\ UNCHANGED <<copies, crashes>>
    BY <1>3, TriedNow DEF Add, AddFails
  <2>2. /\ a.at = "waiting" /\ a.sending = "no" /\ a.attempts = job[j].attempts
        /\ a.stalls = job[j].stalls
        /\ b.at = "lost" /\ b.sending = "no" /\ b.attempts = job[j].attempts
        /\ b.stalls = job[j].stalls
    BY <2>1 DEF JobState
  <2> HIDE DEF a, b
  <2>3. Tried(a, copies[j], crashes) /\ Tried(b, copies[j], crashes)
    BY <2>1, <2>2, Untried
  <2> QED
    BY <2>1, <2>3, TriesOne
<1> QED
  BY <1>1, <1>2, <1>3

\* Taking a job begins a try; with the breaker open the try ends at once.
LEMMA TakeTries ==
  ASSUME IInv, TriesInv, NEW j \in Job, Take(j)
  PROVE  TriesInv'
<1> DEFINE a == [job[j] EXCEPT !.at = "active", !.sending = "sent"]
           b == Retried(job[j])
<1>1. /\ job[j].at = "waiting" /\ UNCHANGED <<copies, crashes>>
      /\ job' = [job EXCEPT ![j] = a] \/ job' = [job EXCEPT ![j] = b]
  BY DEF Take
<1>2. /\ a.at = "active" /\ a.sending = "sent" /\ a.attempts = job[j].attempts
      /\ a.stalls = job[j].stalls
  BY TriedNow DEF JobState
<1>3. /\ job[j].attempts < MaxAttempts /\ copies[j] <= job[j].attempts + job[j].stalls
      /\ job[j].stalls > 0 => crashes > 0
  BY <1>1, TriedNow DEF Tries, Tried, Alive
<1>4. Tried(b, copies[j], crashes)
  BY <1>3, TriedNow, RetriedIsTried
<1> HIDE DEF a, b
<1>5. Tried(a, copies[j], crashes)
  BY <1>2, <1>3, TriedNow DEF Tried, Tries
<1> QED
  BY <1>1, <1>4, <1>5, TriesOne

\* The server takes a mail once per try.
LEMMA AcceptTries ==
  ASSUME IInv, TriesInv, NEW j \in Job, Accept(j)
  PROVE  TriesInv'
<1> DEFINE a == [job[j] EXCEPT !.sending = "accepted"]
<1>1. /\ job[j].sending = "sent" /\ job[j].at = "active" /\ UNCHANGED crashes
      /\ job' = [job EXCEPT ![j] = a]
      /\ copies'[j] = copies[j] + 1 /\ \A k \in Job \ {j} : copies'[k] = copies[k]
  BY TriedNow DEF Accept, IInv
<1>2. /\ a.at = "active" /\ a.sending = "accepted" /\ a.attempts = job[j].attempts
      /\ a.stalls = job[j].stalls
  BY <1>1, TriedNow DEF JobState
<1> HIDE DEF a
<1>3. Tried(a, copies[j] + 1, crashes)
  BY <1>1, <1>2, TriedNow DEF Tried, Tries
<1> QED
  BY <1>1, <1>3, TriesOne

\* The last try of a job ends with it.
LEMMA CompleteTries ==
  ASSUME IInv, TriesInv, NEW j \in Job, Complete(j)
  PROVE  TriesInv'
<1> DEFINE a == [job[j] EXCEPT !.at = "completed", !.sending = "no"]
<1>1. /\ job[j].sending = "accepted" /\ job[j].at = "active" /\ UNCHANGED <<copies, crashes>>
  BY TriedNow DEF Complete
<1>2. job' = [job EXCEPT ![j] = a]
  BY DEF Complete, IInv
<1>3. /\ a.at = "completed" /\ a.sending = "no" /\ a.attempts = job[j].attempts
      /\ a.stalls = job[j].stalls
  BY TriedNow DEF JobState
<1> HIDE DEF a
<1>4. Tried(a, copies[j], crashes)
  BY <1>1, <1>3, TriedNow DEF Tried, Tries, Alive
<1> QED
  BY <1>1, <1>2, <1>4, TriesOne

\* A try that throws, and one that the breaker gives up while the mail is on its way.
LEMMA ThrowTries ==
  ASSUME IInv, TriesInv, NEW j \in Job, Refuse(j) \/ TimeOut(j)
  PROVE  TriesInv'
<1>1. /\ job[j].sending # "no" /\ job[j].at = "active" /\ UNCHANGED crashes
      /\ job' = [job EXCEPT ![j] = Retried(job[j])]
  BY TriedNow DEF Refuse, TimeOut, Thrown
<1>2. /\ copies'[j] \in Nat /\ copies'[j] <= copies[j] + (IF job[j].sending = "sent" THEN 1 ELSE 0)
      /\ \A k \in Job \ {j} : copies'[k] = copies[k]
  <2>1. CASE Refuse(j)
    BY <2>1, TriedNow DEF Refuse
  <2>2. CASE TimeOut(j)
    <3>1. PICK took \in SUBSET ({j} \cap Sent) :
            copies' = [k \in Job |-> IF k \in took THEN copies[k] + 1 ELSE copies[k]]
      BY <2>2 DEF TimeOut, Abandoned
    <3> QED
      BY <3>1, TriedNow DEF Sent
  <2> QED
    BY <2>1, <2>2
<1>3. /\ job[j].attempts < MaxAttempts
      /\ copies'[j] <= job[j].attempts + job[j].stalls + 1
      /\ job[j].stalls > 0 => crashes > 0
  BY <1>1, <1>2, TriedNow DEF Tries, Tried, Alive
<1>4. Tried(Retried(job[j]), copies'[j], crashes)
  BY <1>2, <1>3, TriedNow, RetriedIsTried
<1> QED
  BY <1>1, <1>2, <1>4, TriesOne

\* A job whose worker died: once it waits again, then it has failed.
LEMMA StalledTries ==
  ASSUME IInv, TriesInv, NEW j \in Job, Stalled(j)
  PROVE  TriesInv'
<1> DEFINE a == [job[j] EXCEPT !.at = "waiting", !.stalls = 1]
           b == [job[j] EXCEPT !.at = "failed"]
<1>1. /\ job[j].at = "active" /\ job[j].sending = "no" /\ UNCHANGED <<copies, crashes>>
      /\ \/ job[j].stalls = 0 /\ job' = [job EXCEPT ![j] = a]
         \/ job[j].stalls # 0 /\ job' = [job EXCEPT ![j] = b]
  BY DEF Stalled
<1>2. /\ a.at = "waiting" /\ a.sending = "no" /\ a.attempts = job[j].attempts
      /\ a.stalls = 1
      /\ b.at = "failed" /\ b.sending = "no" /\ b.attempts = job[j].attempts
      /\ b.stalls = job[j].stalls
  BY <1>1, TriedNow DEF JobState
<1> HIDE DEF a, b
<1>3. /\ job[j].stalls = 0 => Tried(a, copies[j], crashes)
      /\ job[j].stalls # 0 => Tried(b, copies[j], crashes)
  BY <1>1, <1>2, TriedNow DEF Tried, Tries, Alive
<1> QED
  BY <1>1, <1>3, TriesOne

\* A delay that ends, and a graceful restart, which orphans nothing.
LEMMA QuietTries ==
  ASSUME IInv, TriesInv, Tick \/ Stop \/ Restart
  PROVE  TriesInv'
<1>1. UNCHANGED <<copies, crashes>>
  BY DEF Tick, Stop, Restart
<1>2. ASSUME NEW j \in Job PROVE Tried(job'[j], copies[j], crashes)
  <2> DEFINE at == IF job[j].wait = 1 THEN "waiting" ELSE "delayed"
             a == [job[j] EXCEPT !.wait = job[j].wait - 1, !.at = at]
             o == [job[j] EXCEPT !.sending = "no"]
  <2>1. CASE job'[j] = job[j]
    BY <2>1, TriedNow
  <2>2. CASE job[j].at = "delayed" /\ job'[j] = a
    <3>1. /\ a.at \in {"waiting", "delayed"} /\ a.sending = job[j].sending
          /\ a.attempts = job[j].attempts /\ a.stalls = job[j].stalls
      BY TriedNow DEF JobState
    <3> HIDE DEF a
    <3> QED
      BY <2>2, <3>1, Untried, TriedNow
  <2>3. CASE job[j].sending = "no" /\ job'[j] = o
    <3>1. o = job[j]
      BY <2>3, TriedNow DEF JobState
    <3> QED
      BY <2>3, <3>1, TriedNow
  <2> QED
    BY <2>1, <2>2, <2>3 DEF Tick, Stop, Restart, Drained, Orphaned
<1> QED
  BY <1>1, <1>2 DEF TriesInv

\* A death of the process: each send under way may reach the server, and will stall.
LEMMA CrashTries ==
  ASSUME IInv, TriesInv, Crash
  PROVE  TriesInv'
<1>1. PICK took \in SUBSET Sent :
        copies' = [k \in Job |-> IF k \in took THEN copies[k] + 1 ELSE copies[k]]
  BY DEF Crash, Abandoned
<1>2. ASSUME NEW j \in Job PROVE Tried(job'[j], copies'[j], crashes')
  <2> DEFINE a == [job[j] EXCEPT !.at = "lost"]
             o == [job[j] EXCEPT !.sending = "no"]
  <2>1. /\ copies'[j] \in Nat /\ crashes' = crashes + 1
        /\ copies'[j] <= copies[j] + (IF job[j].sending = "sent" THEN 1 ELSE 0)
    BY <1>1, TriedNow DEF Crash, Sent
  <2>2. /\ a.at = "lost" /\ a.sending = job[j].sending
        /\ a.attempts = job[j].attempts /\ a.stalls = job[j].stalls
        /\ o.at = job[j].at /\ o.sending = "no"
        /\ o.attempts = job[j].attempts /\ o.stalls = job[j].stalls
    BY TriedNow DEF JobState
  <2>3. \/ job[j].at = "adding" /\ job'[j] = a
        \/ job[j].at # "adding" /\ job'[j] = o
    BY DEF Crash, Orphaned
  <2> HIDE DEF a, o
  <2>4. job[j].at = "adding" => Tried(a, copies'[j], crashes')
    BY <2>1, <2>2, TriedNow DEF Tried, Tries, Alive
  <2>5. Tried(o, copies'[j], crashes')
    BY <2>1, <2>2, TriedNow DEF Tried, Tries, Alive
  <2> QED
    BY <2>3, <2>4, <2>5
<1> QED
  BY <1>2 DEF TriesInv

\* A death is counted against every job that it stalls.
THEOREM TriesInductive == Spec => [](IInv /\ TriesInv)
<1>1. Init => TriesInv
  <2>1. /\ NoJob.at = "none" /\ NoJob.sending = "no" /\ NoJob.attempts = 0
        /\ NoJob.stalls = 0
    BY DEF NoJob
  <2> QED
    BY <2>1 DEF Init, TriesInv, Tried, Tries
<1>2. IInv /\ TriesInv /\ [Next]_vars => TriesInv'
  <2> SUFFICES ASSUME IInv, TriesInv, [Next]_vars PROVE TriesInv'
    OBVIOUS
  <2>1. ASSUME NEW l \in Letter, Ask(l) \/ Reply(l) PROVE TriesInv'
    BY <2>1, FacadeTries
  <2>2. ASSUME NEW j \in Job,
               Add(j) \/ AddFails(j) \/ Take(j) \/ Answers(j) \/ Stalled(j)
        PROVE  TriesInv'
    BY <2>2, FacadeTries, TakeTries, AcceptTries, CompleteTries, ThrowTries, StalledTries
       DEF Answers
  <2>3. Tick \/ Stop \/ Restart \/ Crash => TriesInv'
    BY QuietTries, CrashTries
  <2>4. UNCHANGED vars => TriesInv'
    BY DEF vars, TriesInv
  <2> QED
    BY <2>1, <2>2, <2>3, <2>4 DEF Next
<1> QED
  BY <1>1, <1>2, InitIsSound, NextIsSound, PTL DEF Spec

\* The attempts that AUTH_JOB_OPTIONS and GENERAL_JOB_OPTIONS allow are what a job gets: the
\* process has to die for a recipient to get a copy more, and to die twice while it sends
\* for a job to get fewer; onModuleDestroy of the processors costs neither.
THEOREM AttemptsKept == Spec => []AttemptsAreKept
<1>1. ASSUME IInv, TriesInv, NEW j \in Job
      PROVE  copies[j] <= MaxAttempts + (IF crashes = 0 THEN 0 ELSE 1)
  <2>1. job[j].attempts <= MaxAttempts
    BY <1>1, TriedNow DEF JobState
  <2>2. Tries(job[j]) <= MaxAttempts + job[j].stalls
    BY <1>1, <2>1, TriedNow DEF Tried, Tries, Alive
  <2>3. job[j].stalls > 0 => crashes # 0
    BY <1>1, TriedNow DEF Tried
  <2>4. Tries(job[j]) \in Nat
    BY <1>1, TriedNow DEF Tries
  <2> QED
    BY <1>1, <2>2, <2>3, <2>4, TriedNow
<1>2. ASSUME IInv, TriesInv, NEW j \in Job, job[j].at = "failed"
      PROVE  job[j].attempts = MaxAttempts \/ crashes >= 2
  BY <1>2, TriedNow DEF Tried, JobState
<1>3. IInv /\ TriesInv => AttemptsAreKept
  BY <1>1, <1>2 DEF AttemptsAreKept
<1> QED
  BY <1>3, TriesInductive, PTL
-----------------------------------------------------------------------------
(* The queues implement Outbox *)

\* Every place of a job has its meaning to the caller.
LEMMA Places ==
  /\ Whereabouts("none") = "none" /\ Whereabouts("adding") = "offered"
  /\ Whereabouts("lost") = "lost" /\ Whereabouts("waiting") = "kept"
  /\ Whereabouts("delayed") = "kept" /\ Whereabouts("active") = "kept"
  /\ Whereabouts("completed") = "delivered" /\ Whereabouts("failed") = "given up"
BY DEF Whereabouts

\* The mails that reached the server.
Reached == {j \in Job : copies[j] > 0}

\* A step that leaves every mail where the caller believes it to be.
LEMMA Stays ==
  ASSUME UNCHANGED <<asked, copies>>,
         \A j \in Job : Whereabouts(job'[j].at) = Whereabouts(job[j].at)
  PROVE  UNCHANGED Promised!outbox
BY DEF Promised!outbox

\* A step of a worker, and of the server: the mail it sends may reach the server, and it may
\* end.
LEMMA WorkStep ==
  ASSUME IInv, NEW j \in Job, NEW r, job' = [job EXCEPT ![j] = r], UNCHANGED asked,
         Whereabouts(job[j].at) = "kept",
         Whereabouts(r.at) \in {"kept", "delivered", "given up"},
         Reached' = Reached \/ Reached' = Reached \cup {j},
         Whereabouts(r.at) = "delivered" => j \in Reached /\ Reached' = Reached
  PROVE  [Promised!Next]_Promised!outbox
<1> DEFINE W == [k \in Job |-> Whereabouts(job[k].at)]
<1>1. job'[j] = r /\ \A k \in Job \ {j} : job'[k] = job[k]
  BY DEF IInv
<1>2. W' = [W EXCEPT ![j] = Whereabouts(r.at)]
  <2>1. \A k \in Job : Whereabouts(job'[k].at)
                        = IF k = j THEN Whereabouts(r.at) ELSE Whereabouts(job[k].at)
    <3>1. Whereabouts(job'[j].at) = Whereabouts(r.at)
      BY <1>1
    <3>2. ASSUME NEW k \in Job, k # j
          PROVE  Whereabouts(job'[k].at) = Whereabouts(job[k].at)
      BY <1>1, <3>2
    <3> QED
      BY <3>1, <3>2
  <2> QED
    BY <2>1
<1>3. W[j] = "kept"
  OBVIOUS
<1>4. CASE Whereabouts(r.at) = "kept"
  <2>1. W' = W
    BY <1>2, <1>4
  <2>2. CASE Reached' = Reached
    BY <2>1, <2>2 DEF Promised!outbox, Reached
  <2>3. CASE Reached' = Reached \cup {j}
    <3>1. Promised!Arrive(j)
      BY <1>3, <2>1, <2>3 DEF Promised!Arrive, Reached
    <3> QED
      BY <3>1 DEF Promised!Next
  <2> QED
    BY <2>2, <2>3
<1>5. CASE Whereabouts(r.at) = "delivered"
  <2>1. Promised!Deliver(j)
    BY <1>2, <1>3, <1>5 DEF Promised!Deliver, Reached
  <2> QED
    BY <2>1 DEF Promised!Next
<1>6. CASE Whereabouts(r.at) = "given up"
  <2>1. Promised!GiveUp(j)
    BY <1>2, <1>3, <1>6 DEF Promised!GiveUp, Reached
  <2> QED
    BY <2>1 DEF Promised!Next
<1> QED
  BY <1>4, <1>5, <1>6

\* Promise.all over the adds: it starts with mails that nobody has handed in.
LEMMA HandInStep ==
  ASSUME IInv, NEW l \in Letter, Ask(l)
  PROVE  Promised!HandIn(l)
<1>1. /\ asked[l] = "no"
      /\ asked' = [asked EXCEPT ![l] = IF l \in Letter \ Auth THEN "adding" ELSE "answered"]
  BY DEF Ask
<1>2. \A j \in JobsOf(l) : j \in Job /\ job[j].at = "none"
  BY <1>1, MailAssumption DEF IInv, AskedInv
<1>3. \A j \in JobsOf(l) : [k \in Job |-> Whereabouts(job[k].at)][j] = "none"
  BY <1>2, Places
<1>4. ASSUME NEW j \in Job
      PROVE  Whereabouts(job'[j].at)
               = IF j \in JobsOf(l) THEN "offered" ELSE Whereabouts(job[j].at)
  <2>1. CASE j \in JobsOf(l)
    <3>1. job'[j].at = "adding"
      BY <2>1 DEF Ask, IInv, JobState
    <3> QED
      BY <2>1, <3>1, Places
  <2>2. CASE j \notin JobsOf(l)
    BY <2>2 DEF Ask
  <2> QED
    BY <2>1, <2>2
<1>5. [k \in Job |-> Whereabouts(job'[k].at)]
        = [k \in Job |-> IF k \in JobsOf(l) THEN "offered"
                          ELSE [i \in Job |-> Whereabouts(job[i].at)][k]]
  BY <1>4
<1> QED
  BY <1>1, <1>3, <1>5 DEF Ask, Promised!HandIn

\* Redis takes the job of one recipient, or refuses it.
LEMMA KeepStep ==
  ASSUME IInv, NEW j \in Job, Add(j) \/ AddFails(j)
  PROVE  Promised!Keep(j) \/ Promised!Lose(j)
<1> DEFINE W == [k \in Job |-> Whereabouts(job[k].at)]
<1>1. W[j] = "offered" /\ UNCHANGED <<asked, copies>>
  BY Places DEF Add, AddFails
<1>2. \A k \in Job \ {j} : job'[k] = job[k]
  BY DEF Add, AddFails, IInv
<1>3. CASE Add(j)
  <2>1. job'[j].at = "waiting"
    BY <1>3 DEF Add, IInv, JobState
  <2>2. [k \in Job |-> Whereabouts(job'[k].at)] = [W EXCEPT ![j] = "kept"]
    BY <1>2, <2>1, Places
  <2> QED
    BY <1>1, <2>2 DEF Promised!Keep
<1>4. CASE AddFails(j)
  <2>1. job'[j].at = "lost"
    BY <1>4 DEF AddFails, IInv, JobState
  <2>2. [k \in Job |-> Whereabouts(job'[k].at)] = [W EXCEPT ![j] = "lost"]
    BY <1>2, <2>1, Places
  <2> QED
    BY <1>1, <2>2 DEF Promised!Lose
<1> QED
  BY <1>3, <1>4

\* sendEmail resolves when all adds did, and rejects when one did.
LEMMA AnswerStep ==
  ASSUME IInv, NEW l \in Letter, Reply(l)
  PROVE  Promised!Answer(l) \/ Promised!Reject(l)
<1> DEFINE W == [k \in Job |-> Whereabouts(job[k].at)]
<1>1. W' = W /\ asked[l] = "adding" /\ UNCHANGED copies
  BY DEF Reply
<1>2. CASE AllAdded(l) /\ asked' = [asked EXCEPT ![l] = "answered"]
  <2>1. \A j \in JobsOf(l) :
          j \in Job /\ job[j].at \in {"waiting", "delayed", "active", "completed", "failed"}
    BY <1>2, MailAssumption DEF AllAdded, IInv, JobState
  <2>2. \A j \in JobsOf(l) : W[j] \in {"kept", "delivered", "given up"}
    BY <2>1, Places
  <2> QED
    BY <1>1, <1>2, <2>2 DEF Promised!Answer
<1>3. CASE AnyLost(l) /\ asked' = [asked EXCEPT ![l] = "refused"]
  <2>1. \E j \in JobsOf(l) : W[j] = "lost"
    BY <1>3, MailAssumption, Places DEF AnyLost
  <2> QED
    BY <1>1, <1>3, <2>1 DEF Promised!Reject
<1> QED
  BY <1>2, <1>3 DEF Reply

\* What the workers do with a job.
LEMMA WorkerStep ==
  ASSUME IInv, NEW j \in Job, Take(j) \/ Answers(j) \/ Stalled(j)
  PROVE  [Promised!Next]_Promised!outbox
<1>1. job[j] \in JobState /\ Sound(job[j], copies[j], fate[j])
  BY DEF IInv
<1>2. /\ job[j].at \in {"waiting", "active"} /\ Whereabouts(job[j].at) = "kept"
      /\ UNCHANGED asked
  BY <1>1, Places
     DEF Take, Answers, Accept, Complete, Refuse, TimeOut, Stalled, Sound
<1>3. PICK r : /\ job' = [job EXCEPT ![j] = r]
              /\ r.at \in {"waiting", "delayed", "active", "completed", "failed"}
  <2>1. Retried(job[j]).at \in {"delayed", "failed"}
    BY <1>1 DEF Retried, JobState
  <2>2. CASE Take(j)
    <3>1. [job[j] EXCEPT !.at = "active", !.sending = "sent"].at = "active"
      BY <1>1 DEF JobState
    <3> QED
      BY <2>1, <2>2, <3>1 DEF Take
  <2>3. CASE Accept(j)
    <3>1. [job[j] EXCEPT !.sending = "accepted"].at = job[j].at
      BY <1>1 DEF JobState
    <3> QED
      BY <1>2, <2>3, <3>1 DEF Accept
  <2>4. CASE Complete(j)
    <3>1. [job[j] EXCEPT !.at = "completed", !.sending = "no"].at = "completed"
      BY <1>1 DEF JobState
    <3>2. job' = [job EXCEPT ![j] = [job[j] EXCEPT !.at = "completed", !.sending = "no"]]
      BY <2>4 DEF Complete, IInv
    <3> QED
      BY <3>1, <3>2
  <2>5. CASE Refuse(j) \/ TimeOut(j)
    BY <2>1, <2>5 DEF Refuse, Thrown, TimeOut
  <2>6. CASE Stalled(j)
    <3>1. /\ [job[j] EXCEPT !.at = "waiting", !.stalls = 1].at = "waiting"
          /\ [job[j] EXCEPT !.at = "failed"].at = "failed"
      BY <1>1 DEF JobState
    <3> QED
      BY <2>6, <3>1 DEF Stalled
  <2> QED
    BY <2>2, <2>3, <2>4, <2>5, <2>6 DEF Answers
<1>4. Whereabouts(r.at) \in {"kept", "delivered", "given up"}
  BY <1>3, Places
<1>5. Reached' = Reached \/ Reached' = Reached \cup {j}
  <2>1. /\ \A k \in Job : copies[k] \in Nat
        /\ \A k \in Job \ {j} : copies'[k] = copies[k]
        /\ copies'[j] = copies[j] \/ copies'[j] = copies[j] + 1
    <3>1. \/ UNCHANGED copies
          \/ copies' = [copies EXCEPT ![j] = copies[j] + 1]
          \/ copies' \in Abandoned({j} \cap Sent)
      BY DEF Take, Answers, Accept, Complete, Refuse, TimeOut, Stalled
    <3>2. CASE copies' \in Abandoned({j} \cap Sent)
      BY <3>2 DEF Abandoned, Sent, IInv
    <3> QED
      BY <3>1, <3>2 DEF IInv
  <2>2. \A k \in Job \ {j} : k \in Reached' <=> k \in Reached
    BY <2>1 DEF Reached
  <2>3. j \in Reached => j \in Reached'
    BY <2>1 DEF Reached
  <2>4. Reached \subseteq Job /\ Reached' \subseteq Job
    BY DEF Reached
  <2> QED
    BY <2>2, <2>3, <2>4
<1>6. ASSUME Whereabouts(r.at) = "delivered"
      PROVE  j \in Reached /\ Reached' = Reached
  <2>1. r.at = "completed"
    BY <1>3, <1>6, Places
  <2>2. job'[j].at = "completed"
    BY <1>3, <2>1 DEF IInv
  <2>3. Complete(j)
    <3>1. job[j].at # "completed"
      BY <1>2
    <3>2. /\ [job[j] EXCEPT !.at = "active", !.sending = "sent"].at = "active"
          /\ [job[j] EXCEPT !.sending = "accepted"].at = job[j].at
          /\ [job[j] EXCEPT !.at = "waiting", !.stalls = 1].at = "waiting"
          /\ [job[j] EXCEPT !.at = "failed"].at = "failed"
          /\ Retried(job[j]).at \in {"delayed", "failed"}
      BY <1>1 DEF JobState, Retried
    <3>3. /\ Take(j) => job'[j].at \in {"active", "delayed", "failed"}
          /\ Accept(j) => job'[j].at = job[j].at
          /\ Refuse(j) \/ TimeOut(j) => job'[j].at \in {"delayed", "failed"}
          /\ Stalled(j) => job'[j].at \in {"waiting", "failed"}
      BY <3>2 DEF Take, Accept, Refuse, TimeOut, Thrown, Stalled, IInv
    <3> QED
      BY <2>2, <3>1, <3>3 DEF Answers
  <2>4. copies[j] > 0 /\ UNCHANGED copies
    BY <1>1, <2>3 DEF Complete, Sound
  <2> QED
    BY <2>4 DEF Reached
<1> QED
  BY <1>2, <1>3, <1>4, <1>5, <1>6, WorkStep

\* Time and graceful restarts are nothing to a caller.
LEMMA UnseenStep ==
  ASSUME IInv, Tick \/ Stop \/ Restart
  PROVE  UNCHANGED Promised!outbox
<1>1. ASSUME NEW j \in Job PROVE Whereabouts(job'[j].at) = Whereabouts(job[j].at)
  <2>1. job[j] \in JobState
    BY DEF IInv
  <2>2. CASE Tick
    <3>1. CASE job[j].at # "delayed"
      BY <2>2, <3>1 DEF Tick
    <3>2. CASE job[j].at = "delayed"
      <4>1. job'[j].at \in {"waiting", "delayed"}
        BY <2>1, <2>2, <3>2 DEF Tick, JobState
      <4> QED
        BY <3>2, <4>1, Places
    <3> QED
      BY <3>1, <3>2
  <2>3. CASE Stop
    BY <2>3 DEF Stop
  <2>4. CASE Restart
    BY <2>1, <2>4 DEF Restart, Orphaned, JobState
  <2> QED
    BY <2>2, <2>3, <2>4
<1> QED
  BY <1>1, Stays DEF Tick, Stop, Restart

\* A death of the process loses what Redis does not have yet.
LEMMA DieStep ==
  ASSUME IInv, Crash
  PROVE  Promised!Die
<1>1. ASSUME NEW j \in Job
      PROVE  Whereabouts(job'[j].at)
               = IF Whereabouts(job[j].at) = "offered" THEN "lost" ELSE Whereabouts(job[j].at)
  <2>1. job[j] \in JobState
    BY DEF IInv
  <2>2. CASE job[j].at = "adding"
    <3>1. job'[j].at = "lost"
      BY <2>1, <2>2 DEF Crash, JobState
    <3> QED
      BY <2>2, <3>1, Places
  <2>3. CASE job[j].at # "adding"
    <3>1. job'[j].at = job[j].at
      BY <2>1, <2>3 DEF Crash, Orphaned, JobState
    <3>2. Whereabouts(job[j].at) # "offered"
      BY <2>1, <2>3, Places DEF JobState
    <3> QED
      BY <3>1, <3>2
  <2> QED
    BY <2>2, <2>3
<1>2. [j \in Job |-> Whereabouts(job'[j].at)]
        = [j \in Job |-> IF [k \in Job |-> Whereabouts(job[k].at)][j] = "offered" THEN "lost"
                          ELSE [k \in Job |-> Whereabouts(job[k].at)][j]]
  BY <1>1
<1>3. \E M \in SUBSET {m \in Job : [k \in Job |-> Whereabouts(job[k].at)][m] = "kept"} :
        Reached' = Reached \cup M
  <2>1. PICK took \in SUBSET Sent :
          copies' = [k \in Job |-> IF k \in took THEN copies[k] + 1 ELSE copies[k]]
    BY DEF Crash, Abandoned
  <2>2. \A j \in took : j \in Job /\ Whereabouts(job[j].at) = "kept"
    BY Places DEF Sent, IInv, Sound
  <2>3. \A j \in Job : j \in Reached' <=> j \in Reached \/ j \in took
    BY <2>1 DEF Reached, IInv
  <2>4. Reached' = Reached \cup took
    BY <2>2, <2>3 DEF Reached
  <2> QED
    BY <2>2, <2>4
<1> QED
  BY <1>2, <1>3 DEF Crash, Promised!Die, Reached

\* EmailService keeps its promise: a call is answered when every recipient has a job, and a
\* mail that has one is delivered or given up once, whatever retries, stalls, restarts and
\* deaths of the process come in between.
THEOREM PromiseKept == Spec => KeepsItsPromise
<1>1. Init => Promised!Init
  <2> SUFFICES ASSUME Init PROVE Promised!Init
    OBVIOUS
  <2>1. \A j \in Job : Whereabouts(job[j].at) = "none"
    BY Places DEF Init, NoJob
  <2>2. [j \in Job |-> Whereabouts(job[j].at)] = [j \in Job |-> "none"]
    BY <2>1
  <2>3. {j \in Job : copies[j] > 0} = {}
    BY DEF Init
  <2> QED
    BY <2>2, <2>3 DEF Init, Promised!Init
<1>2. IInv /\ [Next]_vars => [Promised!Next]_Promised!outbox
  <2> SUFFICES ASSUME IInv, [Next]_vars PROVE [Promised!Next]_Promised!outbox
    OBVIOUS
  <2>1. ASSUME NEW l \in Letter, Ask(l) \/ Reply(l) PROVE Promised!Next
    BY <2>1, HandInStep, AnswerStep DEF Promised!Next
  <2>2. ASSUME NEW j \in Job, Add(j) \/ AddFails(j) PROVE Promised!Next
    BY <2>2, KeepStep DEF Promised!Next
  <2>3. ASSUME NEW j \in Job, Take(j) \/ Answers(j) \/ Stalled(j)
        PROVE  [Promised!Next]_Promised!outbox
    BY <2>3, WorkerStep
  <2>4. Tick \/ Stop \/ Restart => UNCHANGED Promised!outbox
    BY UnseenStep
  <2>5. Crash => Promised!Next
    BY DieStep DEF Promised!Next
  <2>6. UNCHANGED vars => UNCHANGED Promised!outbox
    BY DEF vars, Promised!outbox
  <2> QED
    BY <2>1, <2>2, <2>3, <2>4, <2>5, <2>6 DEF Next
<1> QED
  BY <1>1, <1>2, Inductive, PTL DEF Spec, KeepsItsPromise, Promised!Spec
=============================================================================
