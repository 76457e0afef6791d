------------------------ MODULE PasswordResetProofs ------------------------
(***************************************************************************)
(* Proofs about PasswordReset, for any number of users, requests, OTPs and *)
(* tokens: type correctness, UsedOtpIsClosed, that the flow implements     *)
(* ResetLedger, and the policy of one token for users in no race.          *)
(*                                                                         *)
(* The strengthening says which request owns what: a token that some       *)
(* request has consumed is in no forward key, has not been applied, and    *)
(* belongs to that request alone.  A second invariant follows one user's   *)
(* token, back-pointer and OTP through requests that come one at a time.   *)
(***************************************************************************)
EXTENDS PasswordReset, TLAPS

\* A request's place in its handler and what it carries there.
JobInv ==
  \A r \in Req :
    /\ job[r].pc = "idle" <=> job[r].flow = "none"
    /\ job[r].pc \in {"cleanup", "write"} <=> job[r].flow = "reset"
    /\ job[r].pc = "update" => job[r].flow = "forgot"
    /\ job[r].pc = "issue" => job[r].flow = "verify"
    /\ job[r].pc # "idle" => job[r].user \in User
    /\ job[r].pc = "del" => job[r].tok \in Token
    /\ job[r].flow = "verify" => job[r].otp \in mailed

\* The keys and columns only hold what was issued and mailed.
IssuedInv ==
  /\ \A t \in Token : fwd[t] # None => holder[t] = fwd[t] /\ t \notin applied
  /\ \A t \in Token : holder[t] # None => origin[t] \in mailed
  /\ \A t \in applied : holder[t] # None
  /\ \A u \in User : otp[u] \in mailed \cup {None}

\* A consumed token belongs to the one request that consumed it.
SpentInv ==
  \A r \in Req : job[r].flow = "reset" =>
    /\ job[r].tok \in Token
    /\ fwd[job[r].tok] = None
    /\ holder[job[r].tok] = job[r].user
    /\ job[r].tok \notin applied
    /\ \A q \in Req \ {r} : job[q].flow = "reset" => job[q].tok # job[r].tok

IInv == TypeOK /\ JobInv /\ IssuedInv /\ SpentInv /\ UsedOtpIsClosed

-----------------------------------------------------------------------------
(* IInv is inductive *)

\* Empty stores and idle requests satisfy IInv.
LEMMA InitIInv == Init => IInv
  BY ResetAssumption DEF Init, IInv, TypeOK, Job, NoJob, Flow, PC, JobInv, IssuedInv,
     SpentInv, UsedOtpIsClosed

\* The values a request's job takes are jobs, whatever label it moves to.
LEMMA JobUpdates ==
  ASSUME TypeOK, NEW r \in Req
  PROVE  /\ NoJob \in Job
         /\ \A l \in PC : [job[r] EXCEPT !.pc = l] \in Job
         /\ \A t \in Token : [job[r] EXCEPT !.pc = "del", !.tok = t] \in Job
         /\ \A j \in Job : [job EXCEPT ![r] = j] \in [Req -> Job]
<1>1. job[r] \in Job
  BY DEF TypeOK
<1>2. NoJob \in Job
  BY DEF Job, NoJob, Flow, PC
<1>3. \A l \in PC : [job[r] EXCEPT !.pc = l] \in Job
  BY <1>1 DEF Job
<1>4. \A t \in Token : [job[r] EXCEPT !.pc = "del", !.tok = t] \in Job
  BY <1>1 DEF Job, PC
<1> QED
  BY <1>2, <1>3, <1>4 DEF TypeOK

\* The other requests.
Others(r) == \A q \in Req \ {r} : job'[q] = job[q]

\* Request r goes on at label l with what it carries.
Moves(r, l) == /\ Others(r) /\ job'[r].pc = l /\ job'[r].flow = job[r].flow
               /\ job'[r].user = job[r].user /\ job'[r].otp = job[r].otp

\* Request r ends.
Ends(r) == Others(r) /\ job'[r] = NoJob

\* Every step preserves IInv.
THEOREM Inductive == IInv /\ [Next]_vars => IInv'
<1> SUFFICES ASSUME IInv, [Next]_vars PROVE IInv'
  OBVIOUS
<1> USE ResetAssumption DEF IInv
<1>1. ASSUME NEW r \in Req, NEW u \in User, ForgotPassword(r, u)
      PROVE  IInv'
  <2>1. /\ job[r].pc = "idle" /\ Others(r)
        /\ job'[r].flow = "forgot" /\ job'[r].pc = "get" /\ job'[r].user = u
        /\ UNCHANGED <<redis, row, history>>
    BY <1>1 DEF ForgotPassword, Begin, Others, TypeOK, Job, NoJob
  <2>2. TypeOK'
    <3>1. job' \in [Req -> Job]
      <4>1. [NoJob EXCEPT !.flow = "forgot", !.pc = "get", !.user = u] \in Job
        BY DEF NoJob, Job, Flow, PC, TypeOK
      <4>2. job' = [job EXCEPT ![r] = [NoJob EXCEPT !.flow = "forgot", !.pc = "get", !.user = u]]
        BY <1>1 DEF ForgotPassword, Begin
      <4> QED
        BY <4>1, <4>2, JobUpdates
    <3>2. raced' \subseteq User
      BY <1>1 DEF ForgotPassword, Begin, TypeOK, NoJob
    <3> QED
      BY <2>1, <3>1, <3>2 DEF TypeOK, redis, row, history
  <2>3. JobInv'
    BY <2>1 DEF JobInv, Others, TypeOK, redis, row, history
  <2>4. IssuedInv'
    BY <2>1 DEF IssuedInv, Others, TypeOK, JobInv, SpentInv, redis, row, history
  <2>5. SpentInv'
    BY <2>1 DEF SpentInv, Others, TypeOK, JobInv, IssuedInv, redis, row, history
  <2>6. UsedOtpIsClosed'
    BY <2>1 DEF UsedOtpIsClosed, Others, TypeOK, JobInv, IssuedInv, SpentInv, redis, row, history
  <2> QED
    BY <2>2, <2>3, <2>4, <2>5, <2>6
<1>2. ASSUME NEW r \in Req, NEW u \in User, VerifyOtp(r, u)
      PROVE  IInv'
  <2>1. /\ job[r].pc = "idle" /\ otp[u] # None /\ Others(r)
        /\ job'[r].flow = "verify" /\ job'[r].pc = "get" /\ job'[r].user = u /\ job'[r].otp = otp[u]
        /\ UNCHANGED <<redis, row, history>>
    BY <1>2 DEF VerifyOtp, Begin, Others, TypeOK, Job, NoJob
  <2>2. TypeOK'
    <3>1. job' \in [Req -> Job]
      <4>1. [NoJob EXCEPT !.flow = "verify", !.pc = "get", !.user = u, !.otp = otp[u]] \in Job
        BY DEF NoJob, Job, Flow, PC, TypeOK
      <4>2. job' = [job EXCEPT ![r] = [NoJob EXCEPT !.flow = "verify", !.pc = "get", !.user = u, !.otp = otp[u]]]
        BY <1>2 DEF VerifyOtp, Begin
      <4> QED
        BY <4>1, <4>2, JobUpdates
    <3>2. raced' \subseteq User
      BY <1>2 DEF VerifyOtp, Begin, TypeOK, NoJob
    <3> QED
      BY <2>1, <3>1, <3>2 DEF TypeOK, redis, row, history
  <2>3. JobInv'
    BY <2>1 DEF JobInv, Others, TypeOK, IssuedInv, redis, row, history
  <2>4. IssuedInv'
    BY <2>1 DEF IssuedInv, Others, TypeOK, JobInv, SpentInv, redis, row, history
  <2>5. SpentInv'
    BY <2>1 DEF SpentInv, Others, TypeOK, JobInv, IssuedInv, redis, row, history
  <2>6. UsedOtpIsClosed'
    BY <2>1 DEF UsedOtpIsClosed, Others, TypeOK, JobInv, IssuedInv, SpentInv, redis, row, history
  <2> QED
    BY <2>2, <2>3, <2>4, <2>5, <2>6
<1>3. ASSUME NEW r \in Req, RevokeGet(r)
      PROVE  IInv'
  <2>1. /\ job[r].pc = "get"
        /\ \/ Moves(r, AfterRevoke(r))
           \/ Moves(r, "del") /\ job'[r].tok \in Token
        /\ UNCHANGED <<redis, row, history>>
    BY <1>3 DEF RevokeGet, Goto, Moves, Others, TypeOK, Job, JobInv
  <2>2. TypeOK'
    <3>1. job' \in [Req -> Job]
      <4>1. AfterRevoke(r) \in PC
        BY DEF AfterRevoke, PC
      <4>2. \/ job' = [job EXCEPT ![r] = [job[r] EXCEPT !.pc = AfterRevoke(r)]]
            \/ \E t \in Token : job' = [job EXCEPT ![r] = [job[r] EXCEPT !.pc = "del", !.tok = t]]
        BY <1>3 DEF RevokeGet, Goto, TypeOK, JobInv
      <4>3. ASSUME NEW t \in Token PROVE [job[r] EXCEPT !.pc = "del", !.tok = t] \in Job
        BY JobUpdates
      <4>4. CASE job' = [job EXCEPT ![r] = [job[r] EXCEPT !.pc = AfterRevoke(r)]]
        BY <4>1, <4>4, JobUpdates
      <4>5. CASE \E t \in Token : job' = [job EXCEPT ![r] = [job[r] EXCEPT !.pc = "del", !.tok = t]]
        <5>1. PICK t \in Token : job' = [job EXCEPT ![r] = [job[r] EXCEPT !.pc = "del", !.tok = t]]
          BY <4>5
        <5> QED
          BY <4>3, <5>1, JobUpdates
      <4> QED
        BY <4>2, <4>4, <4>5
    <3>2. raced' \subseteq User
      BY <1>3 DEF RevokeGet, Goto, AfterRevoke, TypeOK, NoJob
    <3> QED
      BY <2>1, <3>1, <3>2 DEF TypeOK, redis, row, history
  <2>3. JobInv'
    BY <2>1 DEF JobInv, Moves, Others, AfterRevoke, TypeOK, Job, Flow, redis, row, history
  <2>4. IssuedInv'
    BY <2>1 DEF IssuedInv, Moves, Others, AfterRevoke, TypeOK, JobInv, SpentInv, redis, row, history
  <2>5. SpentInv'
    BY <2>1 DEF SpentInv, Moves, Others, AfterRevoke, TypeOK, JobInv, IssuedInv, redis, row, history
  <2>6. UsedOtpIsClosed'
    BY <2>1 DEF UsedOtpIsClosed, Moves, Others, AfterRevoke, TypeOK, JobInv, IssuedInv, SpentInv, redis, row, history
  <2> QED
    BY <2>2, <2>3, <2>4, <2>5, <2>6
<1>4. ASSUME NEW r \in Req, RevokeDel(r)
      PROVE  IInv'
  <2>1. /\ job[r].pc = "del" /\ Moves(r, AfterRevoke(r))
        /\ fwd' = [fwd EXCEPT ![job[r].tok] = None]
        /\ back' = [back EXCEPT ![job[r].user] = None]
        /\ UNCHANGED <<row, history>>
    BY <1>4 DEF RevokeDel, Goto, Moves, Others, TypeOK, Job
  <2>2. TypeOK'
    <3>1. job' \in [Req -> Job]
      <4>1. [job[r] EXCEPT !.pc = AfterRevoke(r)] \in Job
        BY JobUpdates DEF PC, AfterRevoke
      <4>2. job' = [job EXCEPT ![r] = [job[r] EXCEPT !.pc = AfterRevoke(r)]]
        BY <1>4 DEF RevokeDel, Goto
      <4> QED
        BY <4>1, <4>2, JobUpdates
    <3>2. raced' \subseteq User
      BY <1>4 DEF RevokeDel, Goto, AfterRevoke, TypeOK, NoJob
    <3> QED
      BY <2>1, <3>1, <3>2 DEF TypeOK, row, history, JobInv
  <2>3. JobInv'
    BY <2>1 DEF JobInv, Moves, Others, AfterRevoke, TypeOK, Job, Flow, row, history
  <2>4. IssuedInv'
    BY <2>1 DEF IssuedInv, Moves, Others, AfterRevoke, TypeOK, JobInv, SpentInv, row, history
  <2>5. SpentInv'
    BY <2>1 DEF SpentInv, Moves, Others, AfterRevoke, TypeOK, JobInv, IssuedInv, row, history
  <2>6. UsedOtpIsClosed'
    BY <2>1 DEF UsedOtpIsClosed, Moves, Others, AfterRevoke, TypeOK, JobInv, IssuedInv, SpentInv, row, history
  <2> QED
    BY <2>2, <2>3, <2>4, <2>5, <2>6
<1>5. ASSUME NEW r \in Req, NEW o \in Otp, UpdateOtp(r, o)
      PROVE  IInv'
  <2>1. /\ job[r].pc = "update" /\ o \notin mailed /\ Ends(r)
        /\ otp' = [otp EXCEPT ![job[r].user] = o]
        /\ unexpired' = unexpired \cup {job[r].user}
        /\ mailed' = mailed \cup {o}
        /\ UNCHANGED <<redis, holder, origin, applied, setBy>>
    BY <1>5 DEF UpdateOtp, Finish, Ends, Others, TypeOK, Job
  <2>2. TypeOK'
    <3>1. job' \in [Req -> Job]
      <4>1. NoJob \in Job
        BY JobUpdates
      <4>2. job' = [job EXCEPT ![r] = NoJob]
        BY <1>5 DEF UpdateOtp, Finish
      <4> QED
        BY <4>1, <4>2, JobUpdates
    <3>2. raced' \subseteq User
      BY <1>5 DEF UpdateOtp, Finish, TypeOK, NoJob
    <3> QED
      BY <2>1, <3>1, <3>2 DEF TypeOK, redis, JobInv
  <2>3. JobInv'
    BY <2>1 DEF JobInv, Ends, Others, NoJob, TypeOK, redis
  <2>4. IssuedInv'
    BY <2>1 DEF IssuedInv, Ends, Others, NoJob, TypeOK, JobInv, SpentInv, redis
  <2>5. SpentInv'
    BY <2>1 DEF SpentInv, Ends, Others, NoJob, TypeOK, JobInv, IssuedInv, redis
  <2>6. UsedOtpIsClosed'
    BY <2>1 DEF UsedOtpIsClosed, Ends, Others, NoJob, TypeOK, JobInv, IssuedInv, SpentInv, redis
  <2> QED
    BY <2>2, <2>3, <2>4, <2>5, <2>6
<1>6. ASSUME NEW r \in Req, NEW t \in Token, IssueToken(r, t)
      PROVE  IInv'
  <2>1. /\ job[r].pc = "issue" /\ holder[t] = None /\ Ends(r)
        /\ fwd' = [fwd EXCEPT ![t] = job[r].user]
        /\ back' = [back EXCEPT ![job[r].user] = t]
        /\ holder' = [holder EXCEPT ![t] = job[r].user]
        /\ origin' = [origin EXCEPT ![t] = job[r].otp]
        /\ UNCHANGED <<row, mailed, applied, setBy>>
    BY <1>6 DEF IssueToken, Finish, Ends, Others, TypeOK, Job
  <2>2. TypeOK'
    <3>1. job' \in [Req -> Job]
      <4>1. NoJob \in Job
        BY JobUpdates
      <4>2. job' = [job EXCEPT ![r] = NoJob]
        BY <1>6 DEF IssueToken, Finish
      <4> QED
        BY <4>1, <4>2, JobUpdates
    <3>2. raced' \subseteq User
      BY <1>6 DEF IssueToken, Finish, TypeOK, NoJob
    <3> QED
      BY <2>1, <3>1, <3>2 DEF TypeOK, row, JobInv, Job
  <2>3. JobInv'
    BY <2>1 DEF JobInv, Ends, Others, NoJob, TypeOK, row
  <2>4. IssuedInv'
    BY <2>1 DEF IssuedInv, Ends, Others, NoJob, TypeOK, JobInv, SpentInv, row
  <2>5. SpentInv'
    BY <2>1 DEF SpentInv, Ends, Others, NoJob, TypeOK, JobInv, IssuedInv, row
  <2>6. UsedOtpIsClosed'
    BY <2>1 DEF UsedOtpIsClosed, Ends, Others, NoJob, TypeOK, JobInv, IssuedInv, SpentInv, row
  <2> QED
    BY <2>2, <2>3, <2>4, <2>5, <2>6
<1>7. ASSUME NEW r \in Req, NEW t \in Token, ConsumeToken(r, t)
      PROVE  IInv'
  <2>1. /\ job[r].pc = "idle" /\ fwd[t] # None /\ Others(r)
        /\ job'[r].flow = "reset" /\ job'[r].pc = "cleanup" /\ job'[r].user = fwd[t] /\ job'[r].tok = t
        /\ fwd' = [fwd EXCEPT ![t] = None]
        /\ UNCHANGED <<back, row, history>>
    BY <1>7 DEF ConsumeToken, Begin, Others, TypeOK, Job, NoJob
  <2>2. TypeOK'
    <3>1. job' \in [Req -> Job]
      <4>1. [NoJob EXCEPT !.flow = "reset", !.pc = "cleanup", !.user = fwd[t], !.tok = t] \in Job
        BY DEF NoJob, Job, Flow, PC, TypeOK
      <4>2. job' = [job EXCEPT ![r] = [NoJob EXCEPT !.flow = "reset", !.pc = "cleanup", !.user = fwd[t], !.tok = t]]
        BY <1>7 DEF ConsumeToken, Begin
      <4> QED
        BY <4>1, <4>2, JobUpdates
    <3>2. raced' \subseteq User
      BY <1>7 DEF ConsumeToken, Begin, TypeOK, NoJob
    <3> QED
      BY <2>1, <3>1, <3>2 DEF TypeOK, row, history
  <2>3. JobInv'
    BY <2>1 DEF JobInv, Others, TypeOK, row, history
  <2>4. IssuedInv'
    BY <2>1 DEF IssuedInv, Others, TypeOK, JobInv, SpentInv, row, history
  <2>5. SpentInv'
    BY <2>1 DEF SpentInv, Others, TypeOK, JobInv, IssuedInv, row, history
  <2>6. UsedOtpIsClosed'
    BY <2>1 DEF UsedOtpIsClosed, Others, TypeOK, JobInv, IssuedInv, SpentInv, row, history
  <2> QED
    BY <2>2, <2>3, <2>4, <2>5, <2>6
<1>8. ASSUME NEW r \in Req, CleanUp(r)
      PROVE  IInv'
  <2>1. /\ job[r].pc = "cleanup" /\ Moves(r, "write") /\ job'[r].tok = job[r].tok
        /\ back' \in {back, [back EXCEPT ![job[r].user] = None]}
        /\ UNCHANGED <<fwd, row, history>>
    BY <1>8 DEF CleanUp, Goto, Moves, Others, TypeOK, Job
  <2>2. TypeOK'
    <3>1. job' \in [Req -> Job]
      <4>1. [job[r] EXCEPT !.pc = "write"] \in Job
        BY JobUpdates DEF PC
      <4>2. job' = [job EXCEPT ![r] = [job[r] EXCEPT !.pc = "write"]]
        BY <1>8 DEF CleanUp, Goto
      <4> QED
        BY <4>1, <4>2, JobUpdates
    <3>2. raced' \subseteq User
      BY <1>8 DEF CleanUp, Goto, TypeOK, NoJob
    <3> QED
      BY <2>1, <3>1, <3>2 DEF TypeOK, row, history, JobInv
  <2>3. JobInv'
    BY <2>1 DEF JobInv, Moves, Others, TypeOK, row, history
  <2>4. IssuedInv'
    BY <2>1 DEF IssuedInv, Moves, Others, TypeOK, JobInv, SpentInv, row, history
  <2>5. SpentInv'
    BY <2>1 DEF SpentInv, Moves, Others, TypeOK, JobInv, IssuedInv, row, history
  <2>6. UsedOtpIsClosed'
    BY <2>1 DEF UsedOtpIsClosed, Moves, Others, TypeOK, JobInv, IssuedInv, SpentInv, row, history
  <2> QED
    BY <2>2, <2>3, <2>4, <2>5, <2>6
<1>9. ASSUME NEW r \in Req, ResetPassword(r)
      PROVE  IInv'
  <2>1. /\ job[r].pc = "write" /\ Ends(r)
        /\ otp' = [otp EXCEPT ![job[r].user] = None]
        /\ unexpired' = unexpired \ {job[r].user}
        /\ applied' = applied \cup {job[r].tok}
        /\ setBy' = [setBy EXCEPT ![job[r].user] = job[r].tok]
        /\ UNCHANGED <<redis, mailed, holder, origin>>
    BY <1>9 DEF ResetPassword, Finish, Ends, Others, TypeOK, Job
  <2>2. TypeOK'
    <3>1. job' \in [Req -> Job]
      <4>1. NoJob \in Job
        BY JobUpdates
      <4>2. job' = [job EXCEPT ![r] = NoJob]
        BY <1>9 DEF ResetPassword, Finish
      <4> QED
        BY <4>1, <4>2, JobUpdates
    <3>2. raced' \subseteq User
      BY <1>9 DEF ResetPassword, Finish, TypeOK, NoJob
    <3> QED
      BY <2>1, <3>1, <3>2 DEF TypeOK, redis, JobInv, SpentInv
  <2>3. JobInv'
    BY <2>1 DEF JobInv, Ends, Others, NoJob, TypeOK, redis
  <2>4. IssuedInv'
    BY <2>1 DEF IssuedInv, Ends, Others, NoJob, TypeOK, JobInv, SpentInv, redis
  <2>5. SpentInv'
    BY <2>1 DEF SpentInv, Ends, Others, NoJob, TypeOK, JobInv, IssuedInv, redis
  <2>6. UsedOtpIsClosed'
    BY <2>1 DEF UsedOtpIsClosed, Ends, Others, NoJob, TypeOK, JobInv, IssuedInv, SpentInv, redis
  <2> QED
    BY <2>2, <2>3, <2>4, <2>5, <2>6
<1>10. ASSUME NEW r \in Req, Crash(r)
      PROVE  IInv'
  <2>1. /\ Ends(r)
        /\ UNCHANGED <<redis, row, history>>
    BY <1>10 DEF Crash, Finish, Ends, Others, TypeOK, Job
  <2>2. TypeOK'
    <3>1. job' \in [Req -> Job]
      <4>1. NoJob \in Job
        BY JobUpdates
      <4>2. job' = [job EXCEPT ![r] = NoJob]
        BY <1>10 DEF Crash, Finish
      <4> QED
        BY <4>1, <4>2, JobUpdates
    <3>2. raced' \subseteq User
      BY <1>10 DEF Crash, Finish, TypeOK, NoJob
    <3> QED
      BY <2>1, <3>1, <3>2 DEF TypeOK, redis, row, history
  <2>3. JobInv'
    BY <2>1 DEF JobInv, Ends, Others, NoJob, TypeOK, redis, row, history
  <2>4. IssuedInv'
    BY <2>1 DEF IssuedInv, Ends, Others, NoJob, TypeOK, JobInv, SpentInv, redis, row, history
  <2>5. SpentInv'
    BY <2>1 DEF SpentInv, Ends, Others, NoJob, TypeOK, JobInv, IssuedInv, redis, row, history
  <2>6. UsedOtpIsClosed'
    BY <2>1 DEF UsedOtpIsClosed, Ends, Others, NoJob, TypeOK, JobInv, IssuedInv, SpentInv, redis, row, history
  <2> QED
    BY <2>2, <2>3, <2>4, <2>5, <2>6
<1>11. ASSUME NEW u \in User, ExpireOtp(u)
      PROVE  IInv'
  <2>1. /\ unexpired' = unexpired \ {u}
        /\ UNCHANGED <<otp, redis, job, history, raced>>
    BY <1>11 DEF ExpireOtp, TypeOK, Job
  <2>2. TypeOK'
    BY <1>11, <2>1 DEF TypeOK, ExpireOtp, redis, row, history
  <2>3. JobInv'
    BY <2>1 DEF JobInv, TypeOK, redis, history
  <2>4. IssuedInv'
    BY <2>1 DEF IssuedInv, TypeOK, JobInv, SpentInv, redis, history
  <2>5. SpentInv'
    BY <2>1 DEF SpentInv, TypeOK, JobInv, IssuedInv, redis, history
  <2>6. UsedOtpIsClosed'
    BY <2>1 DEF UsedOtpIsClosed, TypeOK, JobInv, IssuedInv, SpentInv, redis, history
  <2> QED
    BY <2>2, <2>3, <2>4, <2>5, <2>6
<1>12. ASSUME NEW t \in Token, ExpireToken(t)
      PROVE  IInv'
  <2>1. /\ fwd' = [fwd EXCEPT ![t] = None]
        /\ back' = [u \in User |-> IF back[u] = t THEN None ELSE back[u]]
        /\ UNCHANGED <<row, job, history, raced>>
    BY <1>12 DEF ExpireToken, TypeOK, Job
  <2>2. TypeOK'
    BY <1>12, <2>1 DEF TypeOK, ExpireToken, redis, row, history
  <2>3. JobInv'
    BY <2>1 DEF JobInv, TypeOK, row, history
  <2>4. IssuedInv'
    BY <2>1 DEF IssuedInv, TypeOK, JobInv, SpentInv, row, history
  <2>5. SpentInv'
    BY <2>1 DEF SpentInv, TypeOK, JobInv, IssuedInv, row, history
  <2>6. UsedOtpIsClosed'
    BY <2>1 DEF UsedOtpIsClosed, TypeOK, JobInv, IssuedInv, SpentInv, row, history
  <2> QED
    BY <2>2, <2>3, <2>4, <2>5, <2>6
<1>13. CASE UNCHANGED vars
  BY <1>13 DEF vars, TypeOK, JobInv, IssuedInv, SpentInv, UsedOtpIsClosed
<1> QED
  BY <1>1, <1>2, <1>3, <1>4, <1>5, <1>6, <1>7, <1>8, <1>9, <1>10, <1>11, <1>12, <1>13 DEF Next

\* Every value stays in the domain the handlers mean it to have; an OTP has an expiry
\* ahead only while its column is set.
THEOREM TypeCorrect == Spec => []TypeOK
<1>1. IInv => TypeOK
  BY DEF IInv
<1> QED
  BY InitIInv, Inductive, <1>1, PTL DEF Spec

\* An OTP whose token wrote a password is never in its user's row again.
THEOREM UsedOtpIsClosedAlways == Spec => []UsedOtpIsClosed
<1>1. IInv => UsedOtpIsClosed
  BY DEF IInv
<1> QED
  BY InitIInv, Inductive, <1>1, PTL DEF Spec

-----------------------------------------------------------------------------
(* Refinement *)

\* A change of one token's status is a Move of the ledger.
LEMMA OneMoves ==
  ASSUME NEW t \in Token, NEW from, NEW to,
         Status(t) = from, Status(t)' = to,
         \A x \in Token \ {t} : Status(x)' = Status(x)
  PROVE  Ledger!Move(t, from, to)
  BY DEF Ledger!Move

\* If no token changes status and no password is written, the ledger stutters.
LEMMA NoneMoves ==
  ASSUME \A x \in Token : Status(x)' = Status(x), UNCHANGED <<holder, setBy>>
  PROVE  UNCHANGED Ledger!ledger
  BY DEF Ledger!ledger

\* Dropping token t, known to be live or not, kills it or changes nothing.
LEMMA Drop ==
  ASSUME IInv, NEW t \in Token, fwd' = [fwd EXCEPT ![t] = None],
         UNCHANGED <<holder, applied, setBy>>,
         \A x \in Token : (\E r \in Req : job'[r].flow = "reset" /\ job'[r].tok = x)
                            <=> (\E r \in Req : job[r].flow = "reset" /\ job[r].tok = x)
  PROVE  [Ledger!Next]_(Ledger!ledger)
<1>1. \A x \in Token \ {t} : Status(x)' = Status(x)
  BY DEF Status, IInv, TypeOK
<1>2. CASE fwd[t] = None
  <2>1. fwd' = fwd
    BY <1>2 DEF IInv, TypeOK
  <2>2. Status(t)' = Status(t)
    BY <2>1 DEF Status
  <2> QED
    BY <1>1, <2>2, NoneMoves
<1>3. CASE fwd[t] # None
  <2>1. Status(t) = "live"
    BY <1>3, ResetAssumption DEF Status, IInv, TypeOK, IssuedInv
  <2>2. Status(t)' = "dead"
    BY <1>3, ResetAssumption DEF Status, IInv, TypeOK, IssuedInv, SpentInv
  <2> QED
    BY <1>1, <2>1, <2>2, OneMoves DEF Ledger!Next, Ledger!Kill
<1> QED
  BY <1>2, <1>3

\* Every step of the flow is a step of the ledger or leaves it alone.
LEMMA StepRefines == IInv /\ [Next]_vars => [Ledger!Next]_(Ledger!ledger)
<1> SUFFICES ASSUME IInv, [Next]_vars PROVE [Ledger!Next]_(Ledger!ledger)
  OBVIOUS
<1> USE ResetAssumption DEF IInv
<1>1. ASSUME NEW r \in Req, NEW u \in User, ForgotPassword(r, u) \/ VerifyOtp(r, u)
      PROVE  UNCHANGED Ledger!ledger
  <2>1. /\ job[r].flow = "none" /\ job'[r].flow # "reset"
        /\ \A q \in Req \ {r} : job'[q] = job[q]
        /\ UNCHANGED <<redis, history>>
    <3>1. CASE ForgotPassword(r, u)
      BY <3>1 DEF ForgotPassword, Begin, NoJob, TypeOK, Job, JobInv
    <3>2. CASE VerifyOtp(r, u)
      BY <3>2 DEF VerifyOtp, Begin, NoJob, TypeOK, Job, JobInv
    <3> QED
      BY <1>1, <3>1, <3>2
  <2>2. \A x \in Token : Status(x)' = Status(x)
    BY <2>1 DEF Status, redis, history
  <2> QED
    BY <2>1, <2>2, NoneMoves DEF history
<1>2. ASSUME NEW r \in Req, RevokeGet(r)
      PROVE  UNCHANGED Ledger!ledger
  <2>1. /\ job[r].flow # "reset" /\ job'[r].flow # "reset"
        /\ \A q \in Req \ {r} : job'[q] = job[q]
        /\ UNCHANGED <<redis, history>>
    BY <1>2 DEF RevokeGet, Goto, TypeOK, Job, JobInv
  <2>2. \A x \in Token : Status(x)' = Status(x)
    BY <2>1 DEF Status, redis, history
  <2> QED
    BY <2>1, <2>2, NoneMoves DEF history
<1>3. ASSUME NEW r \in Req, RevokeDel(r)
      PROVE  [Ledger!Next]_(Ledger!ledger)
  <2>1. /\ job[r].tok \in Token /\ fwd' = [fwd EXCEPT ![job[r].tok] = None]
        /\ job[r].flow # "reset" /\ job'[r].flow # "reset"
        /\ \A q \in Req \ {r} : job'[q] = job[q]
        /\ UNCHANGED <<holder, applied, setBy>>
    BY <1>3 DEF RevokeDel, Goto, TypeOK, Job, JobInv, history
  <2>2. \A x \in Token : (\E q \in Req : job'[q].flow = "reset" /\ job'[q].tok = x)
                            <=> (\E q \in Req : job[q].flow = "reset" /\ job[q].tok = x)
    BY <2>1
  <2> QED
    BY <2>1, <2>2, Drop
<1>4. ASSUME NEW r \in Req, NEW o \in Otp, UpdateOtp(r, o)
      PROVE  UNCHANGED Ledger!ledger
  <2>1. /\ job[r].flow # "reset" /\ job'[r].flow # "reset"
        /\ \A q \in Req \ {r} : job'[q] = job[q]
        /\ UNCHANGED <<redis, holder, applied, setBy>>
    BY <1>4 DEF UpdateOtp, Finish, NoJob, TypeOK, Job, JobInv
  <2>2. \A x \in Token : Status(x)' = Status(x)
    BY <2>1 DEF Status, redis
  <2> QED
    BY <2>1, <2>2, NoneMoves
<1>5. ASSUME NEW r \in Req, NEW t \in Token, IssueToken(r, t)
      PROVE  Ledger!Next
  <2>1. /\ job[r].flow # "reset" /\ job'[r].flow # "reset"
        /\ \A q \in Req \ {r} : job'[q] = job[q]
        /\ holder[t] = None /\ job[r].user \in User
        /\ fwd' = [fwd EXCEPT ![t] = job[r].user]
        /\ holder' = [holder EXCEPT ![t] = job[r].user]
        /\ UNCHANGED <<applied, setBy>>
    BY <1>5 DEF IssueToken, Finish, NoJob, TypeOK, Job, JobInv
  <2>2. Status(t) = "unissued" /\ Status(t)' = "live"
    BY <2>1 DEF Status, TypeOK
  <2>3. \A x \in Token \ {t} : Status(x)' = Status(x)
    BY <2>1 DEF Status, TypeOK
  <2>4. Ledger!Issue(t, job[r].user)
    BY <2>1, <2>2, <2>3, OneMoves DEF Ledger!Issue
  <2> QED
    BY <2>1, <2>4 DEF Ledger!Next
<1>6. ASSUME NEW r \in Req, NEW t \in Token, ConsumeToken(r, t)
      PROVE  Ledger!Next
  <2>1. /\ job[r].flow = "none" /\ job'[r].flow = "reset" /\ job'[r].tok = t
        /\ \A q \in Req \ {r} : job'[q] = job[q]
        /\ fwd[t] # None /\ fwd' = [fwd EXCEPT ![t] = None]
        /\ UNCHANGED <<holder, applied, setBy>>
    BY <1>6 DEF ConsumeToken, Begin, NoJob, TypeOK, Job, JobInv, history
  <2>2. Status(t) = "live" /\ Status(t)' = "spent"
    BY <2>1 DEF Status, TypeOK, IssuedInv
  <2>3. \A x \in Token \ {t} : Status(x)' = Status(x)
    BY <2>1 DEF Status, TypeOK
  <2> QED
    BY <2>1, <2>2, <2>3, OneMoves DEF Ledger!Spend, Ledger!Next
<1>7. ASSUME NEW r \in Req, CleanUp(r)
      PROVE  UNCHANGED Ledger!ledger
  <2>1. /\ job'[r].flow = job[r].flow /\ job'[r].tok = job[r].tok
        /\ \A q \in Req \ {r} : job'[q] = job[q]
        /\ UNCHANGED <<fwd, holder, applied, setBy>>
    BY <1>7 DEF CleanUp, Goto, TypeOK, Job, history
  <2>2. \A x \in Token : Status(x)' = Status(x)
    BY <2>1 DEF Status
  <2> QED
    BY <2>1, <2>2, NoneMoves
<1>8. ASSUME NEW r \in Req, ResetPassword(r)
      PROVE  Ledger!Next
  <2>0. PICK t \in Token : t = job[r].tok
    BY <1>8 DEF ResetPassword, JobInv, SpentInv
  <2>1. /\ job[r].flow = "reset" /\ job'[r].flow # "reset"
        /\ \A q \in Req \ {r} : job'[q] = job[q]
        /\ applied' = applied \cup {t}
        /\ setBy' = [setBy EXCEPT ![job[r].user] = t]
        /\ UNCHANGED <<fwd, holder>>
    BY <1>8, <2>0 DEF ResetPassword, Finish, NoJob, TypeOK, Job, JobInv, redis
  <2>2. fwd[t] = None /\ t \notin applied /\ holder[t] = job[r].user
    BY <2>0, <2>1 DEF SpentInv
  <2>3. job[r].user \in User
    BY <2>1 DEF JobInv, TypeOK, Job
  <2>4. Status(t) = "spent" /\ Status(t)' = "applied"
    <3>1. ~ \E q \in Req : job'[q].flow = "reset" /\ job'[q].tok = t
      BY <2>0, <2>1 DEF SpentInv
    <3> QED
      BY <2>0, <2>1, <2>2, <2>3 DEF Status
  <2>5. \A x \in Token \ {t} : Status(x)' = Status(x)
    BY <2>0, <2>1 DEF Status
  <2>6. Ledger!Apply(t)
    BY <2>1, <2>2, <2>4, <2>5, OneMoves DEF Ledger!Apply
  <2> QED
    BY <2>6 DEF Ledger!Next
<1>9. ASSUME NEW r \in Req, Crash(r)
      PROVE  [Ledger!Next]_(Ledger!ledger)
  <2>1. /\ job'[r].flow = "none"
        /\ \A q \in Req \ {r} : job'[q] = job[q]
        /\ UNCHANGED <<fwd, holder, applied, setBy>>
    BY <1>9 DEF Crash, Finish, NoJob, TypeOK, Job, redis, history
  <2>2. CASE job[r].flow # "reset"
    <3>1. \A x \in Token : Status(x)' = Status(x)
      BY <2>1, <2>2 DEF Status
    <3> QED
      BY <2>1, <3>1, NoneMoves
  <2>3. CASE job[r].flow = "reset"
    <3>0. PICK t \in Token : t = job[r].tok
      BY <2>3 DEF SpentInv
    <3>1. /\ fwd[t] = None /\ t \notin applied /\ holder[t] # None
          /\ \A q \in Req \ {r} : job[q].flow = "reset" => job[q].tok # t
      BY <2>3, <3>0 DEF SpentInv, JobInv, TypeOK, Job
    <3>2. Status(t) = "spent" /\ Status(t)' = "dead"
      BY <2>1, <2>3, <3>0, <3>1 DEF Status
    <3>3. \A x \in Token \ {t} : Status(x)' = Status(x)
      BY <2>1, <2>3, <3>0 DEF Status
    <3> QED
      BY <2>1, <3>1, <3>2, <3>3, OneMoves DEF Ledger!Waste, Ledger!Next
  <2> QED
    BY <2>2, <2>3
<1>10. ASSUME NEW u \in User, ExpireOtp(u)
       PROVE  UNCHANGED Ledger!ledger
  <2>1. UNCHANGED <<job, fwd, holder, applied, setBy>>
    BY <1>10 DEF ExpireOtp, redis, history
  <2> QED
    BY <2>1, NoneMoves DEF Status
<1>11. ASSUME NEW t \in Token, ExpireToken(t)
       PROVE  [Ledger!Next]_(Ledger!ledger)
  <2>1. fwd' = [fwd EXCEPT ![t] = None] /\ UNCHANGED <<job, holder, applied, setBy>>
    BY <1>11 DEF ExpireToken, history
  <2> QED
    BY <2>1, Drop
<1>12. CASE UNCHANGED vars
  <2>1. \A x \in Token : Status(x)' = Status(x)
    BY <1>12 DEF vars, Status
  <2> QED
    BY <1>12, <2>1, NoneMoves DEF vars
<1> QED
  BY <1>1, <1>2, <1>3, <1>4, <1>5, <1>6, <1>7, <1>8, <1>9, <1>10, <1>11, <1>12 DEF Next

\* The forgot-password flow implements the ledger of single-use reset tokens.
THEOREM ImplementsLedger == Spec => SingleUse
<1>1. Init => Ledger!Init
  BY DEF Init, Ledger!Init, Status
<1> QED
  BY <1>1, InitIInv, Inductive, StepRefines, PTL DEF Spec, SingleUse, Ledger!Spec

-----------------------------------------------------------------------------
(* Users whose requests come one at a time *)

\* Two requests at work for one user have raced.
AloneInv ==
  \A r, q \in Req :
    job[r].user \in User \ raced /\ job[q].user = job[r].user => r = q

\* The token that a revocation is about to delete is still the one in the back-pointer.
RevokeInv ==
  \A r \in Req :
    job[r].pc = "del" /\ job[r].user \notin raced => back[job[r].user] \in {job[r].tok, None}

\* A request past its revocation, or past its GETDEL, has left its user no live token.
ClearInv ==
  \A r \in Req : \A t \in Token :
    job[r].pc \in {"update", "issue", "cleanup", "write"} /\ job[r].user \notin raced =>
      fwd[t] # job[r].user

\* What a request has verified, and what a token that is live or consumed is the proof of,
\* is the OTP that the row still has.
CurrentInv ==
  /\ \A t \in Token : fwd[t] \in User \ raced => otp[fwd[t]] = origin[t]
  /\ \A r \in Req :
       /\ job[r].flow = "reset" /\ job[r].user \notin raced => otp[job[r].user] = origin[job[r].tok]
       /\ job[r].flow = "verify" /\ job[r].user \notin raced => otp[job[r].user] = job[r].otp

\* OTP o was mailed to u.
Claims(o, u) ==
  \/ otp[u] = o
  \/ \E t \in Token : holder[t] = u /\ origin[t] = o
  \/ \E r \in Req : job[r].flow = "verify" /\ job[r].user = u /\ job[r].otp = o

\* No OTP was mailed to two users.
OwnInv == \A o \in Otp : \A u, v \in User : Claims(o, u) /\ Claims(o, v) => u = v

SerialInv ==
  /\ AloneInv
  /\ RevokeInv
  /\ ClearInv
  /\ CurrentInv
  /\ OwnInv
  /\ SingleActiveWhenSerial
  /\ OneResetPerOtpWhenSerial

\* OTPs keep their users in a step that mails none.
LEMMA OwnKept ==
  ASSUME OwnInv, \A o \in Otp : \A u \in User : Claims(o, u)' => Claims(o, u)
  PROVE  OwnInv'
  BY DEF OwnInv

\* Tokens that are proofs of one OTP were issued for one user.
LEMMA SameHolder ==
  ASSUME IInv, OwnInv, NEW x \in Token, NEW y \in Token,
         holder[x] # None, holder[y] # None, origin[x] = origin[y]
  PROVE  holder[x] = holder[y]
<1>1. holder[x] \in User /\ holder[y] \in User /\ origin[x] \in Otp
  BY DEF IInv, TypeOK, IssuedInv
<1>2. Claims(origin[x], holder[x]) /\ Claims(origin[x], holder[y])
  BY DEF Claims
<1> QED
  BY <1>1, <1>2 DEF OwnInv

\* As long as its requests come one at a time a user has one live token, whose OTP is the one
\* in the row, and every step keeps it so.
LEMMA SerialInductive == IInv /\ SerialInv /\ [Next]_vars => SerialInv'
<1> SUFFICES ASSUME IInv, SerialInv, [Next]_vars PROVE SerialInv'
  OBVIOUS
<1> USE ResetAssumption DEF IInv, SerialInv
<1>0. IInv'
  BY Inductive
<1>1. ASSUME NEW r \in Req, NEW u \in User, ForgotPassword(r, u)
      PROVE  SerialInv'
  <2>1. /\ job[r].pc = "idle" /\ job[r].flow = "none" /\ Others(r)
        /\ job'[r].flow = "forgot" /\ job'[r].pc = "get" /\ job'[r].user = u
        /\ raced \subseteq raced' /\ (\A q \in Req : job[q].user = u => u \in raced')
        /\ UNCHANGED <<otp, unexpired, fwd, back, mailed, holder, origin, applied, setBy>>
    BY <1>1 DEF ForgotPassword, Begin, Others, NoJob, JobInv, TypeOK, redis, row, history
  <2>2. AloneInv'
    BY <2>1 DEF Others, AloneInv, JobInv, TypeOK
  <2>3. RevokeInv'
    BY <2>1 DEF Others, RevokeInv, AloneInv, JobInv, TypeOK
  <2>4. ClearInv'
    BY <2>1 DEF Others, ClearInv, AloneInv, SingleActiveWhenSerial, JobInv, TypeOK
  <2>5. CurrentInv'
    BY <2>1 DEF Others, CurrentInv, AloneInv, ClearInv, JobInv, IssuedInv, SpentInv, TypeOK
  <2>6. OwnInv'
    BY <2>1, OwnKept DEF Others, Claims, JobInv, TypeOK
  <2>7. SingleActiveWhenSerial'
    BY <2>1 DEF Others, SingleActiveWhenSerial, RevokeInv, ClearInv, JobInv, TypeOK
  <2>8. OneResetPerOtpWhenSerial'
    BY <2>1 DEF Others, OneResetPerOtpWhenSerial, IssuedInv, JobInv, TypeOK
  <2> QED
    BY <2>2, <2>3, <2>4, <2>5, <2>6, <2>7, <2>8
<1>2. ASSUME NEW r \in Req, NEW u \in User, VerifyOtp(r, u)
      PROVE  SerialInv'
  <2>1. /\ job[r].pc = "idle" /\ job[r].flow = "none" /\ Others(r) /\ otp[u] \in Otp
        /\ job'[r].flow = "verify" /\ job'[r].pc = "get" /\ job'[r].user = u /\ job'[r].otp = otp[u]
        /\ raced \subseteq raced' /\ (\A q \in Req : job[q].user = u => u \in raced')
        /\ UNCHANGED <<otp, unexpired, fwd, back, mailed, holder, origin, applied, setBy>>
    BY <1>2 DEF VerifyOtp, Begin, Others, NoJob, JobInv, TypeOK, redis, row, history
  <2>2. AloneInv'
    BY <2>1 DEF Others, AloneInv, JobInv, TypeOK
  <2>3. RevokeInv'
    BY <2>1 DEF Others, RevokeInv, AloneInv, JobInv, TypeOK
  <2>4. ClearInv'
    BY <2>1 DEF Others, ClearInv, AloneInv, SingleActiveWhenSerial, JobInv, TypeOK
  <2>5. CurrentInv'
    BY <2>1 DEF Others, CurrentInv, AloneInv, ClearInv, JobInv, IssuedInv, SpentInv, TypeOK
  <2>6. OwnInv'
    BY <2>1, OwnKept DEF Others, Claims, JobInv, TypeOK
  <2>7. SingleActiveWhenSerial'
    BY <2>1 DEF Others, SingleActiveWhenSerial, RevokeInv, ClearInv, JobInv, TypeOK
  <2>8. OneResetPerOtpWhenSerial'
    BY <2>1 DEF Others, OneResetPerOtpWhenSerial, IssuedInv, JobInv, TypeOK
  <2> QED
    BY <2>2, <2>3, <2>4, <2>5, <2>6, <2>7, <2>8
<1>3. ASSUME NEW r \in Req, NEW t \in Token, ConsumeToken(r, t)
      PROVE  SerialInv'
  <2>1. /\ job[r].pc = "idle" /\ job[r].flow = "none" /\ Others(r) /\ fwd[t] \in User
        /\ job'[r].flow = "reset" /\ job'[r].pc = "cleanup" /\ job'[r].user = fwd[t] /\ job'[r].tok = t
        /\ raced \subseteq raced' /\ (\A q \in Req : job[q].user = fwd[t] => fwd[t] \in raced')
        /\ fwd' = [fwd EXCEPT ![t] = None]
        /\ UNCHANGED <<otp, unexpired, back, mailed, holder, origin, applied, setBy>>
    BY <1>3 DEF ConsumeToken, Begin, Others, NoJob, JobInv, TypeOK, row, history
  <2>2. AloneInv'
    BY <2>1 DEF Others, AloneInv, JobInv, TypeOK
  <2>3. RevokeInv'
    BY <2>1 DEF Others, RevokeInv, AloneInv, JobInv, TypeOK
  <2>4. ClearInv'
    BY <2>1 DEF Others, ClearInv, AloneInv, SingleActiveWhenSerial, JobInv, TypeOK
  <2>5. CurrentInv'
    BY <2>1 DEF Others, CurrentInv, AloneInv, ClearInv, JobInv, IssuedInv, SpentInv, TypeOK
  <2>6. OwnInv'
    BY <2>1, OwnKept DEF Others, Claims, JobInv, TypeOK
  <2>7. SingleActiveWhenSerial'
    BY <2>1 DEF Others, SingleActiveWhenSerial, RevokeInv, ClearInv, JobInv, TypeOK
  <2>8. OneResetPerOtpWhenSerial'
    BY <2>1 DEF Others, OneResetPerOtpWhenSerial, IssuedInv, JobInv, TypeOK
  <2> QED
    BY <2>2, <2>3, <2>4, <2>5, <2>6, <2>7, <2>8
<1>4. ASSUME NEW r \in Req, RevokeGet(r)
      PROVE  SerialInv'
  <2>1. /\ job[r].pc = "get" /\ job[r].user \in User
        /\ \/ Moves(r, AfterRevoke(r)) /\ back[job[r].user] = None
           \/ Moves(r, "del") /\ job'[r].tok = back[job[r].user]
        /\ job[r].flow # "reset"
        /\ UNCHANGED <<otp, unexpired, fwd, back, mailed, holder, origin, applied, setBy, raced>>
    BY <1>4 DEF RevokeGet, Goto, Moves, Others, JobInv, TypeOK, Job, redis, row, history
  <2>2. AloneInv'
    BY <2>1 DEF Others, Moves, AfterRevoke, AloneInv, JobInv, TypeOK
  <2>3. RevokeInv'
    BY <2>1 DEF Others, Moves, AfterRevoke, RevokeInv, AloneInv, JobInv, TypeOK
  <2>4. ClearInv'
    BY <2>1 DEF Others, Moves, AfterRevoke, ClearInv, AloneInv, SingleActiveWhenSerial, JobInv, TypeOK
  <2>5. CurrentInv'
    BY <2>1 DEF Others, Moves, AfterRevoke, CurrentInv, AloneInv, ClearInv, JobInv, IssuedInv, SpentInv, TypeOK
  <2>6. OwnInv'
    BY <2>1, OwnKept DEF Others, Moves, AfterRevoke, Claims, JobInv, TypeOK
  <2>7. SingleActiveWhenSerial'
    BY <2>1 DEF Others, Moves, AfterRevoke, SingleActiveWhenSerial, RevokeInv, ClearInv, JobInv, TypeOK
  <2>8. OneResetPerOtpWhenSerial'
    BY <2>1 DEF Others, Moves, AfterRevoke, OneResetPerOtpWhenSerial, IssuedInv, JobInv, TypeOK
  <2> QED
    BY <2>2, <2>3, <2>4, <2>5, <2>6, <2>7, <2>8
<1>5. ASSUME NEW r \in Req, RevokeDel(r)
      PROVE  SerialInv'
  <2>1. /\ job[r].pc = "del" /\ job[r].user \in User /\ job[r].tok \in Token
        /\ Moves(r, AfterRevoke(r))
        /\ job[r].flow # "reset"
        /\ fwd' = [fwd EXCEPT ![job[r].tok] = None]
        /\ back' = [back EXCEPT ![job[r].user] = None]
        /\ UNCHANGED <<otp, unexpired, mailed, holder, origin, applied, setBy, raced>>
    BY <1>5 DEF RevokeDel, Goto, Moves, Others, JobInv, TypeOK, Job, row, history
  <2>2. AloneInv'
    BY <2>1 DEF Others, Moves, AfterRevoke, AloneInv, JobInv, TypeOK
  <2>3. RevokeInv'
    BY <2>1 DEF Others, Moves, AfterRevoke, RevokeInv, AloneInv, JobInv, TypeOK
  <2>4. ClearInv'
    <3>1. \A t \in Token : job[r].user \notin raced => fwd'[t] # job[r].user
      BY <2>1 DEF RevokeInv, SingleActiveWhenSerial, TypeOK
    <3>2. \A t \in Token : fwd'[t] # None => fwd'[t] = fwd[t]
      BY <2>1 DEF TypeOK
    <3>3. \A q \in Req : job'[q].pc # "idle" => job'[q].user \in User
      BY <1>0 DEF JobInv
    <3> QED
      BY <2>1, <3>1, <3>2, <3>3 DEF Others, Moves, AfterRevoke, ClearInv
  <2>5. CurrentInv'
    BY <2>1 DEF Others, Moves, AfterRevoke, CurrentInv, AloneInv, ClearInv, JobInv, IssuedInv, SpentInv, TypeOK
  <2>6. OwnInv'
    BY <2>1, OwnKept DEF Others, Moves, AfterRevoke, Claims, JobInv, TypeOK
  <2>7. SingleActiveWhenSerial'
    BY <2>1 DEF Others, Moves, AfterRevoke, SingleActiveWhenSerial, RevokeInv, ClearInv, JobInv, TypeOK
  <2>8. OneResetPerOtpWhenSerial'
    BY <2>1 DEF Others, Moves, AfterRevoke, OneResetPerOtpWhenSerial, IssuedInv, JobInv, TypeOK
  <2> QED
    BY <2>2, <2>3, <2>4, <2>5, <2>6, <2>7, <2>8
<1>6. ASSUME NEW r \in Req, NEW o \in Otp, UpdateOtp(r, o)
      PROVE  SerialInv'
  <2>1. /\ job[r].pc = "update" /\ job[r].user \in User /\ o \notin mailed /\ Ends(r)
        /\ otp' = [otp EXCEPT ![job[r].user] = o]
        /\ UNCHANGED <<fwd, back, holder, origin, applied, setBy, raced>>
    BY <1>6 DEF UpdateOtp, Finish, Ends, Others, JobInv, TypeOK, redis
  <2>2. AloneInv'
    BY <2>1 DEF Others, Ends, NoJob, AloneInv, JobInv, TypeOK
  <2>3. RevokeInv'
    BY <2>1 DEF Others, Ends, NoJob, RevokeInv, AloneInv, JobInv, TypeOK
  <2>4. ClearInv'
    BY <2>1 DEF Others, Ends, NoJob, ClearInv, AloneInv, SingleActiveWhenSerial, JobInv, TypeOK
  <2>5. CurrentInv'
    BY <2>1 DEF Others, Ends, NoJob, CurrentInv, AloneInv, ClearInv, JobInv, IssuedInv, SpentInv, TypeOK
  <2>6. OwnInv'
    <3>1. \A v \in User : ~ Claims(o, v)
      BY <2>1 DEF Claims, IssuedInv, JobInv, TypeOK
    <3>2. \A v \in User : Claims(o, v)' => v = job[r].user
      BY <2>1, <3>1 DEF Others, Ends, NoJob, Claims, TypeOK
    <3>3. \A x \in Otp \ {o} : \A v \in User : Claims(x, v)' => Claims(x, v)
      BY <2>1 DEF Others, Ends, NoJob, Claims, TypeOK
    <3> QED
      BY <3>2, <3>3 DEF OwnInv
  <2>7. SingleActiveWhenSerial'
    BY <2>1 DEF Others, Ends, NoJob, SingleActiveWhenSerial, RevokeInv, ClearInv, JobInv, TypeOK
  <2>8. OneResetPerOtpWhenSerial'
    BY <2>1 DEF Others, Ends, NoJob, OneResetPerOtpWhenSerial, IssuedInv, JobInv, TypeOK
  <2> QED
    BY <2>2, <2>3, <2>4, <2>5, <2>6, <2>7, <2>8
<1>7. ASSUME NEW r \in Req, NEW t \in Token, IssueToken(r, t)
      PROVE  SerialInv'
  <2>1. /\ job[r].pc = "issue" /\ job[r].user \in User /\ job[r].flow = "verify" /\ holder[t] = None /\ Ends(r)
        /\ fwd' = [fwd EXCEPT ![t] = job[r].user]
        /\ back' = [back EXCEPT ![job[r].user] = t]
        /\ holder' = [holder EXCEPT ![t] = job[r].user]
        /\ origin' = [origin EXCEPT ![t] = job[r].otp]
        /\ UNCHANGED <<otp, unexpired, mailed, applied, setBy, raced>>
    BY <1>7 DEF IssueToken, Finish, Ends, Others, JobInv, TypeOK, row
  <2>2. AloneInv'
    BY <2>1 DEF Others, Ends, NoJob, AloneInv, JobInv, TypeOK
  <2>3. RevokeInv'
    BY <2>1 DEF Others, Ends, NoJob, RevokeInv, AloneInv, JobInv, TypeOK
  <2>4. ClearInv'
    BY <2>1 DEF Others, Ends, NoJob, ClearInv, AloneInv, SingleActiveWhenSerial, JobInv, TypeOK
  <2>5. CurrentInv'
    BY <2>1 DEF Others, Ends, NoJob, CurrentInv, AloneInv, ClearInv, JobInv, IssuedInv, SpentInv, TypeOK
  <2>6. OwnInv'
    BY <2>1, OwnKept DEF Others, Ends, NoJob, Claims, JobInv, TypeOK
  <2>7. SingleActiveWhenSerial'
    BY <2>1 DEF Others, Ends, NoJob, SingleActiveWhenSerial, RevokeInv, ClearInv, JobInv, TypeOK
  <2>8. OneResetPerOtpWhenSerial'
    BY <2>1 DEF Others, Ends, NoJob, OneResetPerOtpWhenSerial, IssuedInv, JobInv, TypeOK
  <2> QED
    BY <2>2, <2>3, <2>4, <2>5, <2>6, <2>7, <2>8
<1>8. ASSUME NEW r \in Req, CleanUp(r)
      PROVE  SerialInv'
  <2>1. /\ job[r].pc = "cleanup" /\ job[r].user \in User /\ job[r].flow = "reset"
        /\ Moves(r, "write") /\ job'[r].tok = job[r].tok
        /\ back' \in {back, [back EXCEPT ![job[r].user] = None]}
        /\ UNCHANGED <<otp, unexpired, fwd, mailed, holder, origin, applied, setBy, raced>>
    BY <1>8 DEF CleanUp, Goto, Moves, Others, JobInv, TypeOK, Job, row, history
  <2>2. AloneInv'
    BY <2>1 DEF Others, Moves, AloneInv, JobInv, TypeOK
  <2>3. RevokeInv'
    BY <2>1 DEF Others, Moves, RevokeInv, AloneInv, JobInv, TypeOK
  <2>4. ClearInv'
    BY <2>1 DEF Others, Moves, ClearInv, AloneInv, SingleActiveWhenSerial, JobInv, TypeOK
  <2>5. CurrentInv'
    BY <2>1 DEF Others, Moves, CurrentInv, AloneInv, ClearInv, JobInv, IssuedInv, SpentInv, TypeOK
  <2>6. OwnInv'
    BY <2>1, OwnKept DEF Others, Moves, Claims, JobInv, TypeOK
  <2>7. SingleActiveWhenSerial'
    BY <2>1 DEF Others, Moves, SingleActiveWhenSerial, RevokeInv, ClearInv, JobInv, TypeOK
  <2>8. OneResetPerOtpWhenSerial'
    BY <2>1 DEF Others, Moves, OneResetPerOtpWhenSerial, IssuedInv, JobInv, TypeOK
  <2> QED
    BY <2>2, <2>3, <2>4, <2>5, <2>6, <2>7, <2>8
<1>9. ASSUME NEW r \in Req, ResetPassword(r)
      PROVE  SerialInv'
  <2>1. /\ job[r].pc = "write" /\ job[r].user \in User /\ job[r].flow = "reset" /\ Ends(r)
        /\ otp' = [otp EXCEPT ![job[r].user] = None]
        /\ applied' = applied \cup {job[r].tok}
        /\ UNCHANGED <<fwd, back, mailed, holder, origin, raced>>
    BY <1>9 DEF ResetPassword, Finish, Ends, Others, JobInv, TypeOK, redis
  <2>2. AloneInv'
    BY <2>1 DEF Others, Ends, NoJob, AloneInv, JobInv, TypeOK
  <2>3. RevokeInv'
    BY <2>1 DEF Others, Ends, NoJob, RevokeInv, AloneInv, JobInv, TypeOK
  <2>4. ClearInv'
    BY <2>1 DEF Others, Ends, NoJob, ClearInv, AloneInv, SingleActiveWhenSerial, JobInv, TypeOK
  <2>5. CurrentInv'
    BY <2>1 DEF Others, Ends, NoJob, CurrentInv, AloneInv, ClearInv, JobInv, IssuedInv, SpentInv, TypeOK
  <2>6. OwnInv'
    BY <2>1, OwnKept DEF Others, Ends, NoJob, Claims, JobInv, TypeOK
  <2>7. SingleActiveWhenSerial'
    BY <2>1 DEF Others, Ends, NoJob, SingleActiveWhenSerial, RevokeInv, ClearInv, JobInv, TypeOK
  <2>8. OneResetPerOtpWhenSerial'
    <3>1. CASE job[r].user \in raced
      <4>1. \A x \in applied' : holder[x] \notin raced => x \in applied
        BY <2>1, <3>1 DEF SpentInv
      <4>2. ASSUME NEW x \in applied', NEW y \in applied', origin[x] = origin[y], holder[y] \notin raced
            PROVE  holder[x] = holder[y]
        BY <2>1, <4>2, <1>0, SameHolder DEF TypeOK, IssuedInv
      <4> QED
        BY <2>1, <4>1, <4>2 DEF OneResetPerOtpWhenSerial
    <3>2. CASE job[r].user \notin raced
      <4>1. otp[job[r].user] = origin[job[r].tok] /\ holder[job[r].tok] = job[r].user
        BY <2>1, <3>2 DEF CurrentInv, SpentInv
      <4>2. ASSUME NEW x \in applied PROVE origin[x] # origin[job[r].tok]
        <5>1. SUFFICES ASSUME origin[x] = origin[job[r].tok] PROVE FALSE
          OBVIOUS
        <5>2. holder[x] = job[r].user
          BY <2>1, <4>1, <5>1, SameHolder DEF TypeOK, IssuedInv, SpentInv
        <5> QED
          BY <4>1, <5>1, <5>2 DEF UsedOtpIsClosed
      <4> QED
        BY <2>1, <4>2 DEF OneResetPerOtpWhenSerial
    <3> QED
      BY <3>1, <3>2
  <2> QED
    BY <2>2, <2>3, <2>4, <2>5, <2>6, <2>7, <2>8
<1>10. ASSUME NEW r \in Req, Crash(r)
      PROVE  SerialInv'
  <2>1. /\ Ends(r)
        /\ UNCHANGED <<otp, unexpired, fwd, back, mailed, holder, origin, applied, setBy, raced>>
    BY <1>10 DEF Crash, Finish, Ends, Others, TypeOK, redis, row, history
  <2>2. AloneInv'
    BY <2>1 DEF Others, Ends, NoJob, AloneInv, JobInv, TypeOK
  <2>3. RevokeInv'
    BY <2>1 DEF Others, Ends, NoJob, RevokeInv, AloneInv, JobInv, TypeOK
  <2>4. ClearInv'
    BY <2>1 DEF Others, Ends, NoJob, ClearInv, AloneInv, SingleActiveWhenSerial, JobInv, TypeOK
  <2>5. CurrentInv'
    BY <2>1 DEF Others, Ends, NoJob, CurrentInv, AloneInv, ClearInv, JobInv, IssuedInv, SpentInv, TypeOK
  <2>6. OwnInv'
    BY <2>1, OwnKept DEF Others, Ends, NoJob, Claims, JobInv, TypeOK
  <2>7. SingleActiveWhenSerial'
    BY <2>1 DEF Others, Ends, NoJob, SingleActiveWhenSerial, RevokeInv, ClearInv, JobInv, TypeOK
  <2>8. OneResetPerOtpWhenSerial'
    BY <2>1 DEF Others, Ends, NoJob, OneResetPerOtpWhenSerial, IssuedInv, JobInv, TypeOK
  <2> QED
    BY <2>2, <2>3, <2>4, <2>5, <2>6, <2>7, <2>8
<1>11. ASSUME NEW u \in User, ExpireOtp(u)
      PROVE  SerialInv'
  <2>1. UNCHANGED <<otp, fwd, back, job, mailed, holder, origin, applied, setBy, raced>>
    BY <1>11 DEF ExpireOtp, redis, history
  <2>2. AloneInv'
    BY <2>1 DEF AloneInv, JobInv, TypeOK
  <2>3. RevokeInv'
    BY <2>1 DEF RevokeInv, AloneInv, JobInv, TypeOK
  <2>4. ClearInv'
    BY <2>1 DEF ClearInv, AloneInv, SingleActiveWhenSerial, JobInv, TypeOK
  <2>5. CurrentInv'
    BY <2>1 DEF CurrentInv, AloneInv, ClearInv, JobInv, IssuedInv, SpentInv, TypeOK
  <2>6. OwnInv'
    BY <2>1, OwnKept DEF Claims, JobInv, TypeOK
  <2>7. SingleActiveWhenSerial'
    BY <2>1 DEF SingleActiveWhenSerial, RevokeInv, ClearInv, JobInv, TypeOK
  <2>8. OneResetPerOtpWhenSerial'
    BY <2>1 DEF OneResetPerOtpWhenSerial, IssuedInv, JobInv, TypeOK
  <2> QED
    BY <2>2, <2>3, <2>4, <2>5, <2>6, <2>7, <2>8
<1>12. ASSUME NEW t \in Token, ExpireToken(t)
      PROVE  SerialInv'
  <2>1. /\ fwd' = [fwd EXCEPT ![t] = None]
        /\ back' = [u \in User |-> IF back[u] = t THEN None ELSE back[u]]
        /\ UNCHANGED <<otp, unexpired, job, mailed, holder, origin, applied, setBy, raced>>
    BY <1>12 DEF ExpireToken, row, history
  <2>2. AloneInv'
    BY <2>1 DEF AloneInv, JobInv, TypeOK
  <2>3. RevokeInv'
    BY <2>1 DEF RevokeInv, AloneInv, JobInv, TypeOK
  <2>4. ClearInv'
    BY <2>1 DEF ClearInv, AloneInv, SingleActiveWhenSerial, JobInv, TypeOK
  <2>5. CurrentInv'
    BY <2>1 DEF CurrentInv, AloneInv, ClearInv, JobInv, IssuedInv, SpentInv, TypeOK
  <2>6. OwnInv'
    BY <2>1, OwnKept DEF Claims, JobInv, TypeOK
  <2>7. SingleActiveWhenSerial'
    BY <2>1 DEF SingleActiveWhenSerial, RevokeInv, ClearInv, JobInv, TypeOK
  <2>8. OneResetPerOtpWhenSerial'
    BY <2>1 DEF OneResetPerOtpWhenSerial, IssuedInv, JobInv, TypeOK
  <2> QED
    BY <2>2, <2>3, <2>4, <2>5, <2>6, <2>7, <2>8
<1>13. CASE UNCHANGED vars
  BY <1>13 DEF vars, AloneInv, RevokeInv, ClearInv, CurrentInv, OwnInv, Claims, SingleActiveWhenSerial, OneResetPerOtpWhenSerial
<1> QED
  BY <1>1, <1>2, <1>3, <1>4, <1>5, <1>6, <1>7, <1>8, <1>9, <1>10, <1>11, <1>12, <1>13 DEF Next

\* Nobody has asked for anything yet.
LEMMA InitSerial == Init => SerialInv
  BY ResetAssumption DEF Init, SerialInv, AloneInv, RevokeInv, ClearInv, CurrentInv, OwnInv, Claims,
     SingleActiveWhenSerial, OneResetPerOtpWhenSerial, NoJob

\* Both invariants together.
LEMMA Serial == Spec => [](IInv /\ SerialInv)
BY InitIInv, Inductive, InitSerial, SerialInductive, PTL DEF Spec

\* The revocations of forgotPassword and verifyOtp keep one token per user, even if some
\* requests die half-way, unless the requests of that user overlap.
THEOREM SingleActive == Spec => []SingleActiveWhenSerial
<1>1. SerialInv => SingleActiveWhenSerial
  BY DEF SerialInv
<1> QED
  BY <1>1, Serial, PTL

\* One mailed OTP pays for one password.
THEOREM OneResetPerOtp == Spec => []OneResetPerOtpWhenSerial
<1>1. SerialInv => OneResetPerOtpWhenSerial
  BY DEF SerialInv
<1> QED
  BY <1>1, Serial, PTL

\* Whoever asks for a new OTP has no token of the old one left, when the new one is written.
THEOREM ForgotCancels == Spec => ForgotCancelsWhenSerial
<1> DEFINE Cancelled == \A r \in Req, o \in Otp :
                          UpdateOtp(r, o) /\ job[r].user \notin raced
                            => \A t \in Token : fwd[t] # job[r].user
<1>1. SerialInv => [Cancelled]_vars
  BY DEF SerialInv, ClearInv, UpdateOtp
<1> QED
  BY <1>1, Serial, PTL DEF ForgotCancelsWhenSerial

=============================================================================
