---------------------------- MODULE PasswordReset ----------------------------
(***************************************************************************)
(* The forgot-password flow: AuthService.forgotPassword, verifyOtp and     *)
(* resetPassword over PasswordResetTokenService's two Redis keys           *)
(*                                                                         *)
(*   fwd[t]   auth:password_reset:<token>      -> the user                 *)
(*   back[u]  auth:password_reset_user:<user>  -> the token                *)
(*                                                                         *)
(* and the OTP columns of the user row.  Each Redis command and each SQL   *)
(* statement is one step; the steps of different requests interleave, and  *)
(* a request may die between any two of its steps.  Requests that are      *)
(* turned away (unknown user, wrong or expired OTP, unknown token) change  *)
(* nothing and are not steps.                                              *)
(***************************************************************************)
EXTENDS Naturals, FiniteSets

CONSTANTS
  User,    \* users with an account
  Req,     \* slots for requests being served at the same time
  Otp,     \* bound: OTPs that are mailed, each told apart from the others
  Token,   \* reset tokens; randomBytes(32) never repeats one
  None     \* SQL NULL, a missing key

ASSUME ResetAssumption == None \notin User \cup Otp \cup Token

VARIABLES
  otp,      \* otp[u]: column reset_pass_otp
  unexpired, \* users whose reset_pass_otp_expired_at is still ahead
  fwd,      \* forward index in Redis
  back,     \* back-pointers in Redis
  job,      \* job[r]: what request r is doing
  mailed,   \* history: OTPs that were generated
  holder,   \* history: holder[t] is the user t was issued for
  origin,   \* history: origin[t] is the OTP that t is the proof of
  applied,  \* history: tokens that have written a password
  setBy,    \* history: setBy[u] is the token that wrote u's password last
  raced     \* history: users that had two requests in flight at once

vars == <<otp, unexpired, fwd, back, job, mailed, holder, origin, applied, setBy, raced>>
redis == <<fwd, back>>
row == <<otp, unexpired>>
history == <<mailed, holder, origin, applied, setBy>>

Flow == {"none", "forgot", "verify", "reset"}
PC == {"idle", "get", "del", "update", "issue", "cleanup", "write"}

Job == [flow : Flow, pc : PC,
        user : User \cup {None},
        tok : Token \cup {None},   \* token found by revokeForUser, or consumed
        otp : Otp \cup {None}]     \* the OTP a verify has matched

NoJob == [flow |-> "none", pc |-> "idle", user |-> None, tok |-> None, otp |-> None]

TypeOK ==
  /\ otp \in [User -> Otp \cup {None}]
  /\ unexpired \subseteq {u \in User : otp[u] # None}
  /\ fwd \in [Token -> User \cup {None}]
  /\ back \in [User -> Token \cup {None}]
  /\ job \in [Req -> Job]
  /\ mailed \subseteq Otp
  /\ holder \in [Token -> User \cup {None}]
  /\ origin \in [Token -> Otp \cup {None}]
  /\ applied \subseteq Token
  /\ setBy \in [User -> Token \cup {None}]
  /\ raced \subseteq User

Init ==
  /\ otp = [u \in User |-> None] /\ unexpired = {}
  /\ fwd = [t \in Token |-> None] /\ back = [u \in User |-> None]
  /\ job = [r \in Req |-> NoJob]
  /\ mailed = {} /\ applied = {} /\ raced = {}
  /\ holder = [t \in Token |-> None] /\ origin = [t \in Token |-> None]
  /\ setBy = [u \in User |-> None]

-----------------------------------------------------------------------------
(* Requests *)

\* Request r begins to work for user u.
Begin(r, j) ==
  /\ job[r].pc = "idle"
  /\ job' = [job EXCEPT ![r] = j]
  /\ raced' = IF \E q \in Req : job[q].user = j.user THEN raced \cup {j.user} ELSE raced

Goto(r, label) == job' = [job EXCEPT ![r].pc = label] /\ UNCHANGED raced

\* The response is sent, or the handler threw.
Finish(r) == job' = [job EXCEPT ![r] = NoJob] /\ UNCHANGED raced

\* What follows revokeForUser.
AfterRevoke(r) == IF job[r].flow = "forgot" THEN "update" ELSE "issue"

\* forgotPassword finds the user.
ForgotPassword(r, u) ==
  /\ Begin(r, [NoJob EXCEPT !.flow = "forgot", !.pc = "get", !.user = u])
  /\ UNCHANGED <<redis, row, history>>

\* verifyOtp: the row holds the submitted OTP and it has not expired.
VerifyOtp(r, u) ==
  /\ otp[u] # None /\ u \in unexpired
  /\ Begin(r, [NoJob EXCEPT !.flow = "verify", !.pc = "get", !.user = u, !.otp = otp[u]])
  /\ UNCHANGED <<redis, row, history>>

\* Mutant of RevokeGet: forgotPassword does not revoke anything.
RevokeGetVerifyOnly(r) ==
  /\ job[r].pc = "get"
  /\ IF job[r].flow = "forgot" \/ back[job[r].user] = None
     THEN Goto(r, AfterRevoke(r))
     ELSE /\ job' = [job EXCEPT ![r].pc = "del", ![r].tok = back[job[r].user]]
          /\ UNCHANGED raced
  /\ UNCHANGED <<redis, row, history>>

\* revokeForUser: GET of the back-pointer; nothing to revoke without one.
RevokeGet(r) ==
  /\ job[r].pc = "get"
  /\ IF back[job[r].user] = None
     THEN Goto(r, AfterRevoke(r))
     ELSE /\ job' = [job EXCEPT ![r].pc = "del", ![r].tok = back[job[r].user]]
          /\ UNCHANGED raced
  /\ UNCHANGED <<redis, row, history>>

\* Mutant of RevokeDel: the forward key of the prior token is left behind.
RevokeDelPointerOnly(r) ==
  /\ job[r].pc = "del"
  /\ back' = [back EXCEPT ![job[r].user] = None]
  /\ Goto(r, AfterRevoke(r))
  /\ UNCHANGED <<fwd, row, history>>

\* revokeForUser: one DEL of both keys, for the token the GET returned.
RevokeDel(r) ==
  /\ job[r].pc = "del"
  /\ fwd' = [fwd EXCEPT ![job[r].tok] = None]
  /\ back' = [back EXCEPT ![job[r].user] = None]
  /\ Goto(r, AfterRevoke(r))
  /\ UNCHANGED <<row, history>>

\* forgotPassword writes the new OTP; the mail is fire-and-forget.
UpdateOtp(r, o) ==
  /\ job[r].pc = "update" /\ o \notin mailed
  /\ otp' = [otp EXCEPT ![job[r].user] = o]
  /\ unexpired' = unexpired \cup {job[r].user}
  /\ mailed' = mailed \cup {o}
  /\ Finish(r)
  /\ UNCHANGED <<redis, holder, origin, applied, setBy>>

\* issueToken's MULTI: both keys appear at once.
IssueToken(r, t) ==
  /\ job[r].pc = "issue" /\ holder[t] = None
  /\ fwd' = [fwd EXCEPT ![t] = job[r].user]
  /\ back' = [back EXCEPT ![job[r].user] = t]
  /\ holder' = [holder EXCEPT ![t] = job[r].user]
  /\ origin' = [origin EXCEPT ![t] = job[r].otp]
  /\ Finish(r)
  /\ UNCHANGED <<row, mailed, applied, setBy>>

\* Mutant of ConsumeToken: GET instead of GETDEL.
ConsumeTokenGet(r, t) ==
  /\ fwd[t] # None
  /\ Begin(r, [NoJob EXCEPT !.flow = "reset", !.pc = "cleanup", !.user = fwd[t], !.tok = t])
  /\ UNCHANGED <<redis, row, history>>

\* consumeToken: GETDEL of the forward key returns the user.
ConsumeToken(r, t) ==
  /\ fwd[t] # None
  /\ Begin(r, [NoJob EXCEPT !.flow = "reset", !.pc = "cleanup", !.user = fwd[t], !.tok = t])
  /\ fwd' = [fwd EXCEPT ![t] = None]
  /\ UNCHANGED <<back, row, history>>

\* consumeToken: DEL of the back-pointer, whatever it points to by now; a failure
\* is swallowed.
CleanUp(r) ==
  /\ job[r].pc = "cleanup"
  /\ back' = [back EXCEPT ![job[r].user] = None] \/ UNCHANGED back
  /\ Goto(r, "write")
  /\ UNCHANGED <<fwd, row, history>>

\* Mutant of ResetPassword: the OTP columns are not cleared with the password.
ResetPasswordKeepsOtp(r) ==
  /\ job[r].pc = "write"
  /\ applied' = applied \cup {job[r].tok}
  /\ setBy' = [setBy EXCEPT ![job[r].user] = job[r].tok]
  /\ Finish(r)
  /\ UNCHANGED <<redis, row, mailed, holder, origin>>

\* Mutant of ResetPassword: the OTP is cleared but its expiry is not.
ResetPasswordKeepsExpiry(r) ==
  /\ job[r].pc = "write"
  /\ otp' = [otp EXCEPT ![job[r].user] = None]
  /\ applied' = applied \cup {job[r].tok}
  /\ setBy' = [setBy EXCEPT ![job[r].user] = job[r].tok]
  /\ Finish(r)
  /\ UNCHANGED <<redis, unexpired, mailed, holder, origin>>

\* resetPasswordAndClearOtp: one UPDATE sets the hash and clears both OTP columns.
ResetPassword(r) ==
  /\ job[r].pc = "write"
  /\ otp' = [otp EXCEPT ![job[r].user] = None]
  /\ unexpired' = unexpired \ {job[r].user}
  /\ applied' = applied \cup {job[r].tok}
  /\ setBy' = [setBy EXCEPT ![job[r].user] = job[r].tok]
  /\ Finish(r)
  /\ UNCHANGED <<redis, mailed, holder, origin>>

\* The process dies, or Redis or PostgreSQL refuses the next command.
Crash(r) ==
  /\ job[r].pc # "idle"
  /\ Finish(r)
  /\ UNCHANGED <<redis, row, history>>

-----------------------------------------------------------------------------
(* Time *)

\* The 10 minutes of the OTP are over.
ExpireOtp(u) ==
  /\ u \in unexpired
  /\ unexpired' = unexpired \ {u}
  /\ UNCHANGED <<otp, redis, job, history, raced>>

\* The TTL that both keys of a token got in one MULTI runs out.
ExpireToken(t) ==
  /\ \/ fwd[t] # None
     \/ \E u \in User : back[u] = t
  /\ fwd' = [fwd EXCEPT ![t] = None]
  /\ back' = [u \in User |-> IF back[u] = t THEN None ELSE back[u]]
  /\ UNCHANGED <<row, job, history, raced>>

Next ==
  \/ \E r \in Req :
       \/ \E u \in User : ForgotPassword(r, u) \/ VerifyOtp(r, u)
       \/ RevokeGet(r) \/ RevokeDel(r)
       \/ \E o \in Otp : UpdateOtp(r, o)
       \/ \E t \in Token : IssueToken(r, t) \/ ConsumeToken(r, t)
       \/ CleanUp(r) \/ ResetPassword(r)
       \/ Crash(r)
  \/ \E u \in User : ExpireOtp(u)
  \/ \E t \in Token : ExpireToken(t)

Spec == Init /\ [][Next]_vars

-----------------------------------------------------------------------------
(* Properties *)

\* The life of a token as the ledger sees it: it is spent while the request that
\* consumed it has not written the password yet.
Status(t) ==
  IF holder[t] = None THEN "unissued"
  ELSE IF fwd[t] # None THEN "live"
  ELSE IF t \in applied THEN "applied"
  ELSE IF \E r \in Req : job[r].flow = "reset" /\ job[r].tok = t THEN "spent"
  ELSE "dead"

Ledger == INSTANCE ResetLedger WITH status <- [t \in Token |-> Status(t)]

\* Single use: under any interleaving, crash and expiry every password write is
\* paid for by a token of that user which no other request spent.
SingleUse == Ledger!Spec

\* The OTP that led to a password write can never be verified again, even if it had
\* been verified several times before.
UsedOtpIsClosed ==
  \A t \in applied : otp[holder[t]] # origin[t]

\* One live token per user, found by the back-pointer, as long as the user's requests
\* come one at a time - whichever of them crashed, or failed to clean up.
SingleActiveWhenSerial ==
  \A t \in Token : fwd[t] \in User \ raced => back[fwd[t]] = t

\* A mailed OTP changes the password at most once if requests come one at a time.
OneResetPerOtpWhenSerial ==
  \A s, t \in applied :
    origin[s] = origin[t] /\ holder[t] \notin raced => s = t

\* Asking for a new OTP cancels the token of the previous one.
ForgotCancelsWhenSerial ==
  [][\A r \in Req, o \in Otp :
       UpdateOtp(r, o) /\ job[r].user \notin raced
         => \A t \in Token : fwd[t] # job[r].user]_vars

\* What issueToken's comment promises of every schedule.
SingleActiveToken ==
  \A s, t \in Token : fwd[s] = fwd[t] /\ fwd[s] # None => s = t

=============================================================================
