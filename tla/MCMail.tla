------------------------------- MODULE MCMail -------------------------------
(* Small instances of Mail for TLC: a call for two recipients, of whom one may have no job
   when the call is answered; and an auth letter that starves among general ones. *)
EXTENDS Mail

Letters == {"auth", "bulk"}
AuthLetters == {"auth"}
TwoNews == {"otp", "news1", "news2"}
TwoNewsOf(l) == IF l = "auth" THEN {"otp"} ELSE {"news1", "news2"}
BulkLetter == {"bulk"}
Recipients == {"news1", "news2"}
RecipientsOf(l) == Recipients
NoLetter == {}
\* The workers run 3 and 5 jobs at once.  Here one each, so that a backlog forms, or two, so
\* that two sends race on the breaker.
Parallel(q) == 1
Together(q) == 2
\* Exponential backoff: the delay doubles with every attempt.
Backoff(n) == 2 ^ (n - 1)
=============================================================================
