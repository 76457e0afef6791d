------------------------------ MODULE Accounts ------------------------------
(***************************************************************************)
(* Registration, account verification and the two-step change of an e-mail *)
(* address: AuthService over UserDAO, whose reads by id and by e-mail go   *)
(* through the cache and whose other reads do not.                         *)
(*                                                                         *)
(* A handler is a sequence of queries with awaits in between; each query   *)
(* is a step.  Every process has an L1 of its own, all share the L2.  A    *)
(* miss reads a row in one step and stores it in later ones, whatever was  *)
(* written or invalidated meanwhile; a handler that waits for the miss     *)
(* goes on when the row is in the L1 of its process.  Invalidations come   *)
(* some time after the write, and clear the L1 of the writing process and, *)
(* unless a DEL fails, the L2; a request occupies its slot until then.     *)
(* Requests that are turned away change nothing and are not steps.         *)
(***************************************************************************)
EXTENDS Naturals, FiniteSets

CONSTANTS
  User,   \* user ids
  Email,  \* addresses
  Node,   \* processes of the backend
  Req,    \* slots for requests being served at the same time
  None,   \* SQL NULL, no row
  MaxOtps, \* bound: OTPs that are mailed
  MaxRows  \* bound: rows in or on their way to the caches when another is looked up

ASSUME AccountsAssumption ==
  None \notin User \cup Email \cup Node /\ MaxOtps \in Nat /\ MaxRows \in Nat

VARIABLES
  email,    \* email[u]: column email, None without a row
  verified, \* users with acc_verified
  accOtp,   \* accOtp[u]: acc_verification_otp, as the address it was mailed to
  pending,  \* pending[u]: pending_email
  pendOtp,  \* pendOtp[u]: pending_email_otp, as the address it was mailed to
  fresh,    \* users whose pending_email_otp_expired_at is still ahead
  l1,       \* l1[n]: the entries in the memory of process n
  l2,       \* the entries in Redis
  fill,     \* fill[n]: the rows that misses of process n have read and not yet stored
  job,      \* job[r]: what request r is doing
  otps,     \* OTPs mailed so far
  proven,   \* history: <<u, e>>, an OTP mailed to e was presented for u
  movedBy,  \* history: movedBy[u], the process that changed u's address last
  raced     \* history: users with two requests, or a fill and a write or its
            \* invalidation, at work at once, with a lost invalidation, or with a
            \* request in a process whose L1 still had an address changed elsewhere

vars == <<email, verified, accOtp, pending, pendOtp, fresh, l1, l2, fill, job,
          otps, proven, movedBy, raced>>
change == <<pending, pendOtp, fresh>>
row == <<email, verified, accOtp, change>>
cache == <<l1, l2, fill>>
history == <<movedBy, raced>>

IdKey(u) == <<"id", u>>
EmailKey(e) == <<"email", e>>
CacheKey == {IdKey(u) : u \in User} \cup {EmailKey(e) : e \in Email}

\* PUBLIC_SELECT, as far as the handlers look at it, under a key of either cache.
Entry == [key : CacheKey, user : User, email : Email, verified : BOOLEAN]

\* An entry in the hands of get: SETEX comes next, or the set of L1.
Fill == [entry : Entry, to : {"l2", "l1"}]

OnePerKey(entries) == \A x, y \in entries : x.key = y.key => x = y

\* What a request does next.
PC == {"idle", "create", "mark", "resend", "taken", "setPending", "before", "commit", "evict"}

Job == [pc : PC,
        node : Node \cup {None},
        user : User \cup {None},
        email : Email \cup {None}, \* the address in the request, or pending
        seen : Email \cup {None},  \* the address in the row that findById returned
        keys : SUBSET CacheKey]    \* the cache keys it still has to invalidate

NoJob == [pc |-> "idle", node |-> None, user |-> None, email |-> None, seen |-> None,
          keys |-> {}]

\* The last two lines are the @unique columns of the schema.
TypeOK ==
  /\ email \in [User -> Email \cup {None}]
  /\ verified \subseteq {u \in User : email[u] # None}
  /\ accOtp \in [User -> Email \cup {None}]
  /\ pending \in [User -> Email \cup {None}]
  /\ pendOtp \in [User -> Email \cup {None}]
  /\ fresh \subseteq {u \in User : pendOtp[u] # None}
  /\ l1 \in [Node -> SUBSET Entry] /\ \A n \in Node : OnePerKey(l1[n])
  /\ l2 \subseteq Entry /\ OnePerKey(l2)
  /\ fill \in [Node -> SUBSET Fill]
  /\ job \in [Req -> Job]
  /\ otps \in 0..MaxOtps
  /\ proven \subseteq User \X Email
  /\ movedBy \in [User -> Node \cup {None}] /\ raced \subseteq User
  /\ \A u, w \in User : email[u] = email[w] /\ email[u] # None => u = w
  /\ \A u, w \in User : pending[u] = pending[w] /\ pending[u] # None => u = w

Init ==
  /\ email = [u \in User |-> None] /\ verified = {}
  /\ accOtp = [u \in User |-> None]
  /\ pending = [u \in User |-> None] /\ pendOtp = [u \in User |-> None] /\ fresh = {}
  /\ l1 = [n \in Node |-> {}] /\ l2 = {} /\ fill = [n \in Node |-> {}]
  /\ job = [r \in Req |-> NoJob]
  /\ otps = 0 /\ proven = {}
  /\ movedBy = [u \in User |-> None] /\ raced = {}

-----------------------------------------------------------------------------
(* Cached lookups *)

\* The cache keys that an update of u's row invalidates.
KeysOf(u) == {IdKey(u), EmailKey(email[u])}

Put(entries, x) == {y \in entries : y.key # x.key} \cup {x}
Without(entries, K) == {y \in entries : y.key \notin K}

\* Fewer than MaxRows rows are cached or on their way, not counting what L2 has for k.
Room(k) ==
  MaxRows > Cardinality(Without(l2, {k})) +
            Cardinality(UNION {{n} \X (l1[n] \cup {f.entry : f \in fill[n]}) : n \in Node})

\* A write of u's row still waits for its invalidations.
Evicting(u) == \E r \in Req : job[r].user = u /\ job[r].pc = "evict"

\* What the SELECT by the unique column of k returns.  Only who is signed in, hence
\* verified, is looked up by id.
Selected(k) ==
  {[key |-> k, user |-> u, email |-> email[u], verified |-> u \in verified] :
     u \in {w \in User : k = EmailKey(email[w]) \/ (k = IdKey(w) /\ w \in verified)}}

\* findById or findByEmail misses L1 in process n, and no other miss is under way
\* there: it takes the row from L2, or from the database if L2 has none or fails.
\* Routes that only read, and forgotPassword, do no more to the account than this.
Find(n, k) ==
  /\ \A x \in l1[n] \cup {f.entry : f \in fill[n]} : x.key # k
  /\ \/ \E x \in l2 :
          /\ x.key = k
          /\ fill' = [fill EXCEPT ![n] = @ \cup {[entry |-> x, to |-> "l1"]}]
          /\ raced' = IF Evicting(x.user) THEN raced \cup {x.user} ELSE raced
     \/ \E x \in Selected(k) :
          /\ fill' = [fill EXCEPT ![n] = @ \cup {[entry |-> x, to |-> "l2"]}]
          /\ UNCHANGED raced
  /\ Room(k)
  /\ UNCHANGED <<row, l1, l2, job, otps, proven, movedBy>>

\* The SETEX of a row from the database, which may fail.
StoreL2(n, f) ==
  /\ f.to = "l2"
  /\ l2' \in {l2, Put(l2, f.entry)}
  /\ fill' = [fill EXCEPT ![n] = (@ \ {f}) \cup {[f EXCEPT !.to = "l1"]}]
  /\ UNCHANGED <<row, l1, job, otps, proven, history>>

\* The row is set in L1, and whoever waits for it gets it.
StoreL1(n, f) ==
  /\ f.to = "l1"
  /\ l1' = [l1 EXCEPT ![n] = Put(@, f.entry)]
  /\ fill' = [fill EXCEPT ![n] = @ \ {f}]
  /\ UNCHANGED <<row, l2, job, otps, proven, history>>

-----------------------------------------------------------------------------
(* Requests *)

\* L1 of process n has an address of u that another process has changed.
Outdated(n, u) == \E x \in l1[n] : x.user = u /\ x.email # email[u]

\* Request r begins to work for user u in process n.
Begin(r, n, u, j) ==
  /\ job[r].pc = "idle"
  /\ job' = [job EXCEPT ![r] = [j EXCEPT !.user = u, !.node = n]]
  /\ raced' = IF Outdated(n, u) \/ \E q \in Req : job[q].user = u
              THEN raced \cup {u} ELSE raced
  /\ UNCHANGED movedBy

Goto(r, label) == job' = [job EXCEPT ![r].pc = label] /\ UNCHANGED history

\* The response is sent, or the handler threw.
Finish(r) == job' = [job EXCEPT ![r] = NoJob] /\ UNCHANGED raced

Taken(e) == \E u \in User : email[u] = e

Mail == otps < MaxOtps /\ otps' = otps + 1

\* Request r wrote the row of u, and is going to invalidate the cache keys K.  A fill
\* that has read the row before will be stored all the same.
Written(r, u, K) ==
  /\ job' = [job EXCEPT ![r] = [NoJob EXCEPT !.pc = "evict", !.node = job[r].node,
                                             !.user = u, !.keys = K]]
  /\ raced' = IF \E n \in Node : \E f \in fill[n] : f.entry.user = u
              THEN raced \cup {u} ELSE raced

\* register: existsByEmail.
Register(r, e) ==
  /\ job[r].pc = "idle" /\ ~ Taken(e)
  /\ job' = [job EXCEPT ![r] = [NoJob EXCEPT !.pc = "create", !.email = e]]
  /\ UNCHANGED <<row, cache, otps, proven, history>>

\* Mutant of Create: nothing but existsByEmail keeps addresses apart.
CreateUnchecked(r, u) ==
  /\ job[r].pc = "create" /\ email[u] = None
  /\ email' = [email EXCEPT ![u] = job[r].email]
  /\ accOtp' = [accOtp EXCEPT ![u] = job[r].email]
  /\ Mail
  /\ Finish(r)
  /\ UNCHANGED <<verified, change, cache, proven, movedBy>>

\* register: the INSERT, which fails if the address was taken meanwhile.
Create(r, u) ==
  /\ job[r].pc = "create" /\ email[u] = None
  /\ IF Taken(job[r].email)
     THEN UNCHANGED <<email, accOtp, otps>>
     ELSE /\ email' = [email EXCEPT ![u] = job[r].email]
          /\ accOtp' = [accOtp EXCEPT ![u] = job[r].email]
          /\ Mail
  /\ Finish(r)
  /\ UNCHANGED <<verified, change, cache, proven, movedBy>>

\* verifyAccount: findByVerificationOtp finds the row, which is not verified.
VerifyAccount(r, n, u) ==
  /\ accOtp[u] # None /\ u \notin verified
  /\ Begin(r, n, u, [NoJob EXCEPT !.pc = "mark"])
  /\ proven' = proven \cup {<<u, accOtp[u]>>}
  /\ UNCHANGED <<row, cache, otps>>

\* verifyAccount: markVerifiedAndClearOtp, which invalidates the row by id.
MarkVerified(r) ==
  /\ job[r].pc = "mark"
  /\ verified' = verified \cup {job[r].user}
  /\ accOtp' = [accOtp EXCEPT ![job[r].user] = None]
  /\ Written(r, job[r].user, {IdKey(job[r].user)})
  /\ UNCHANGED <<email, change, cache, otps, proven, movedBy>>

\* resendVerificationOtp: findByEmail returns a row that is not verified.
FindUnverified(r, n, e) ==
  /\ \E x \in l1[n] :
       /\ x.key = EmailKey(e) /\ ~ x.verified
       /\ Begin(r, n, x.user, [NoJob EXCEPT !.pc = "resend", !.email = e])
  /\ UNCHANGED <<row, cache, otps, proven>>

\* resendVerificationOtp: the UPDATE, by id; the OTP is mailed to the address asked for.
Resend(r) ==
  /\ job[r].pc = "resend"
  /\ LET u == job[r].user
     IN  /\ accOtp' = [accOtp EXCEPT ![u] = job[r].email]
         /\ Written(r, u, KeysOf(u))
  /\ Mail
  /\ UNCHANGED <<email, verified, change, cache, proven, movedBy>>

-----------------------------------------------------------------------------
(* Change of address: the requests of a user who is signed in, hence verified *)

\* changeEmailInitiate: findById, and the new address is not the one it returned.
ChangeEmailInitiate(r, n, u, e) ==
  /\ u \in verified
  /\ \E x \in l1[n] : x.key = IdKey(u) /\ x.email # e
  /\ Begin(r, n, u, [NoJob EXCEPT !.pc = "taken", !.email = e])
  /\ UNCHANGED <<row, cache, otps, proven>>

\* changeEmailInitiate: existsByEmail.
CheckTaken(r) ==
  /\ job[r].pc = "taken"
  /\ IF Taken(job[r].email) THEN Finish(r) /\ UNCHANGED movedBy ELSE Goto(r, "setPending")
  /\ UNCHANGED <<row, cache, otps, proven>>

\* changeEmailInitiate: the UPDATE, which fails if another user's change is pending
\* for the same address.
SetPending(r) ==
  /\ job[r].pc = "setPending"
  /\ LET u == job[r].user
         e == job[r].email
     IN  IF \E w \in User \ {u} : pending[w] = e
         THEN UNCHANGED <<change, otps>> /\ Finish(r)
         ELSE /\ pending' = [pending EXCEPT ![u] = e]
              /\ pendOtp' = [pendOtp EXCEPT ![u] = e]
              /\ fresh' = fresh \cup {u}
              /\ Written(r, u, KeysOf(u))
              /\ Mail
  /\ UNCHANGED <<email, verified, accOtp, cache, proven, movedBy>>

\* changeEmailVerify: the row has a pending change whose OTP matches and is fresh.
ChangeEmailVerify(r, n, u) ==
  /\ u \in fresh
  /\ Begin(r, n, u, [NoJob EXCEPT !.pc = "before", !.email = pending[u]])
  /\ proven' = proven \cup {<<u, pendOtp[u]>>}
  /\ UNCHANGED <<row, cache, otps>>

\* commitEmailChange: findById; a Bloom filter that has lost the id (see BloomRebuild)
\* makes it answer null, and then the old address is not invalidated.
Before(r) ==
  /\ job[r].pc = "before"
  /\ \/ \E x \in l1[job[r].node] :
          /\ x.key = IdKey(job[r].user)
          /\ job' = [job EXCEPT ![r].pc = "commit", ![r].seen = x.email]
          /\ UNCHANGED raced
     \/ /\ job' = [job EXCEPT ![r].pc = "commit"]
        /\ raced' = raced \cup {job[r].user}
  /\ UNCHANGED <<row, cache, otps, proven, movedBy>>

\* The write and its invalidations, when u's address becomes e.
Move(r, u, e, K) ==
  /\ email' = [email EXCEPT ![u] = e]
  /\ pending' = [pending EXCEPT ![u] = None]
  /\ pendOtp' = [pendOtp EXCEPT ![u] = None] /\ fresh' = fresh \ {u}
  /\ movedBy' = [movedBy EXCEPT ![u] = job[r].node]
  /\ Written(r, u, K)

\* The keys that commitEmailChange invalidates.
ChangedKeys(r) ==
  {IdKey(job[r].user), EmailKey(job[r].email)} \cup
  {EmailKey(e) : e \in {job[r].seen} \ {None}}

\* Mutant of Commit: the address is taken from the row, as pending_email is now.
CommitPending(r) ==
  /\ job[r].pc = "commit"
  /\ LET u == job[r].user
     IN  IF pending[u] = None \/ \E w \in User \ {u} : email[w] = pending[u]
         THEN UNCHANGED <<email, change, movedBy>> /\ Finish(r)
         ELSE Move(r, u, pending[u], ChangedKeys(r))
  /\ UNCHANGED <<verified, accOtp, cache, otps, proven>>

\* Mutant of Commit: only the new address is invalidated.
CommitForgetsOldKey(r) ==
  /\ job[r].pc = "commit"
  /\ LET u == job[r].user
     IN  IF \E w \in User \ {u} : email[w] = job[r].email
         THEN UNCHANGED <<email, change, movedBy>> /\ Finish(r)
         ELSE Move(r, u, job[r].email, {IdKey(u), EmailKey(job[r].email)})
  /\ UNCHANGED <<verified, accOtp, cache, otps, proven>>

\* commitEmailChange: the UPDATE, which fails if the address was taken meanwhile.
Commit(r) ==
  /\ job[r].pc = "commit"
  /\ LET u == job[r].user
     IN  IF \E w \in User \ {u} : email[w] = job[r].email
         THEN UNCHANGED <<email, change, movedBy>> /\ Finish(r)
         ELSE Move(r, u, job[r].email, ChangedKeys(r))
  /\ UNCHANGED <<verified, accOtp, cache, otps, proven>>

\* update, markVerifiedAndClearOtp and commitEmailChange: the L1 of the process is
\* cleared and the DELs are sent, of which some may fail.  Other processes keep their L1.
Invalidate(r) ==
  /\ job[r].pc = "evict"
  /\ l1' = [l1 EXCEPT ![job[r].node] = Without(@, job[r].keys)]
  /\ \E D \in SUBSET job[r].keys :
       /\ l2' = Without(l2, D)
       /\ raced' = IF D = job[r].keys THEN raced ELSE raced \cup {job[r].user}
  /\ job' = [job EXCEPT ![r] = NoJob]
  /\ UNCHANGED <<row, fill, otps, proven, movedBy>>

-----------------------------------------------------------------------------
(* Time and failures *)

\* The 15 minutes of a pending change are over.
ExpirePending(u) ==
  /\ u \in fresh
  /\ fresh' = fresh \ {u}
  /\ UNCHANGED <<email, verified, accOtp, pending, pendOtp, cache, job, otps, proven,
                 history>>

\* The TTL of a cache entry runs out, or a full L1 drops it.
ExpireL1(n, x) ==
  /\ l1' = [l1 EXCEPT ![n] = @ \ {x}]
  /\ UNCHANGED <<row, l2, fill, job, otps, proven, history>>

ExpireL2(x) ==
  /\ l2' = l2 \ {x}
  /\ UNCHANGED <<row, l1, fill, job, otps, proven, history>>

\* A query of the handler fails, or the reply to its write is lost.
Fail(r) ==
  /\ job[r].pc # "idle"
  /\ job' = [job EXCEPT ![r] = NoJob]
  /\ raced' = IF job[r].pc = "evict" THEN raced \cup {job[r].user} ELSE raced
  /\ UNCHANGED <<row, cache, otps, proven, movedBy>>

\* Process n dies, with what it was doing and its L1, and starts again.
Restart(n) ==
  /\ l1' = [l1 EXCEPT ![n] = {}] /\ fill' = [fill EXCEPT ![n] = {}]
  /\ job' = [r \in Req |-> IF job[r].node = n THEN NoJob ELSE job[r]]
  /\ raced' = raced \cup {u \in User : \E r \in Req :
                 job[r].node = n /\ job[r].user = u /\ job[r].pc = "evict"}
  /\ UNCHANGED <<row, l2, otps, proven, movedBy>>

Next ==
  \/ \E r \in Req, n \in Node :
       \/ \E e \in Email : FindUnverified(r, n, e)
       \/ \E u \in User : \/ VerifyAccount(r, n, u) \/ ChangeEmailVerify(r, n, u)
                          \/ \E e \in Email : ChangeEmailInitiate(r, n, u, e)
  \/ \E r \in Req :
       \/ \E e \in Email : Register(r, e)
       \/ \E u \in User : Create(r, u)
       \/ MarkVerified(r) \/ Resend(r)
       \/ CheckTaken(r) \/ SetPending(r) \/ Before(r) \/ Commit(r)
       \/ Invalidate(r) \/ Fail(r)
  \/ \E u \in User : ExpirePending(u)
  \/ \E n \in Node :
       \/ \E k \in CacheKey : Find(n, k)
       \/ \E f \in fill[n] : StoreL2(n, f) \/ StoreL1(n, f)
       \/ \E x \in l1[n] : ExpireL1(n, x)
       \/ Restart(n)
  \/ \E x \in l2 : ExpireL2(x)

Spec == Init /\ [][Next]_vars

-----------------------------------------------------------------------------
(* Properties *)

\* A verified account only ever has an address that an OTP mailed there has proven for
\* it, however the requests that start, repeat and complete changes interleave.
AddressIsProven == \A u \in verified : <<u, email[u]>> \in proven

\* The cached rows of user u are settled: nothing is at work on them, nothing was lost.
Settled(u) == u \notin raced /\ ~ Evicting(u)

\* Once the invalidations of serial writes are done, an account that is looked up by id
\* or by an address has that address now, if the answer comes from L2, from a fill, or
\* from L1 of the process that changed the address last; an L1 of another process may
\* hold the old one until its TTL is over, and a request there that meets it is a race.
AddressIsCurrentWhenSerial ==
  LET Current(x) == Settled(x.user) => email[x.user] = x.email
  IN  /\ \A x \in l2 : Current(x)
      /\ \A n \in Node :
           /\ \A f \in fill[n] : Current(f.entry)
           /\ \A x \in l1[n] : movedBy[x.user] \in {n, None} => Current(x)

\* What the DAO's header promises of its write paths: with those invalidations done, a
\* row in L2 is the row in every column the callers look at.
RowIsCurrentWhenSerial ==
  \A x \in l2 : Settled(x.user) => (x.verified <=> x.user \in verified)

=============================================================================
