--------------------------- MODULE AccountsProofs ---------------------------
(***************************************************************************)
(* Proofs about Accounts, for any number of users, addresses, processes    *)
(* and requests: a verified account has an address that was proven for it, *)
(* and what is left in the caches after the invalidations of serial writes *)
(* has the address that the account has, except in the L1 of processes     *)
(* other than the one that changed it.                                     *)
(*                                                                         *)
(* The first rests on what an account that is not verified cannot do:      *)
(* change its address.  The second rests on what a user that no two        *)
(* requests have worked for at once may still have in each tier: in L2     *)
(* only what the request at work is going to invalidate there, in the L1   *)
(* where that request reads nothing old, and no old row in a fill.         *)
(***************************************************************************)
EXTENDS Accounts, TLAPS

Types ==
  /\ email \in [User -> Email \cup {None}]
  /\ verified \subseteq {u \in User : email[u] # None}
  /\ accOtp \in [User -> Email \cup {None}]
  /\ pending \in [User -> Email \cup {None}]
  /\ pendOtp \in [User -> Email \cup {None}]
  /\ fresh \subseteq {u \in User : pendOtp[u] # None}
  /\ l1 \in [Node -> SUBSET Entry] /\ \A n \in Node : OnePerKey(l1[n])
  /\ l2 \subseteq Entry /\ OnePerKey(l2)
  /\ fill \in [Node -> SUBSET Fill]
  /\ job \in [Req -> Job]
  /\ otps \in 0..MaxOtps
  /\ proven \subseteq User \X Email
  /\ movedBy \in [User -> Node \cup {None}] /\ raced \subseteq User

Unique ==
  /\ \A u, w \in User : email[u] = email[w] /\ email[u] # None => u = w
  /\ \A u, w \in User : pending[u] = pending[w] /\ pending[u] # None => u = w

\* An address is pending only for a verified account, and its OTP went there; the OTP
\* of an account that is not verified went to its address.
UserInv ==
  \A u \in User :
    /\ pendOtp[u] = pending[u]
    /\ pending[u] # None => u \in verified
    /\ u \in verified => <<u, email[u]>> \in proven
    /\ u \notin verified /\ accOtp[u] # None => accOtp[u] = email[u]

\* A job j stands where it says it does, while the accounts have the addresses em, those
\* in ver are verified, prv is proven and those in rac have raced.
Stands(j, em, ver, prv, rac) ==
  LET u == j.user
  IN  /\ u = None <=> j.pc \in {"idle", "create"}
      /\ u # None => em[u] # None /\ j.node # None
      /\ j.pc \in {"create", "resend", "taken", "setPending", "before", "commit"} =>
           j.email # None
      /\ j.pc \in {"taken", "setPending", "before", "commit"} => u \in ver
      /\ j.pc \in {"before", "commit"} => <<u, j.email>> \in prv
      /\ j.pc = "mark" => u \in ver \/ <<u, em[u]>> \in prv
      /\ j.pc = "resend" => u \in ver \/ j.email = em[u]
      /\ j.pc = "commit" => u \in rac \/ j.seen = em[u]

JobInv == \A r \in Req : Stands(job[r], email, verified, proven, raced)

\* A user without a race has one request at most.
SerialInv ==
  \A u \in User \ raced : \A r, q \in Req : job[r].user = u /\ job[q].user = u => r = q

\* Entry x is under a key of its own row, which exists, and whose address it has as long
\* as the account is not verified.
Sound(x) ==
  /\ x.key = IdKey(x.user) \/ x.key = EmailKey(x.email)
  /\ email[x.user] # None
  /\ x.user \notin verified => x.email = email[x.user]

CacheInv ==
  /\ \A x \in l2 : Sound(x)
  /\ \A n \in Node : \A x \in l1[n] : Sound(x)
  /\ \A n \in Node : \A f \in fill[n] : Sound(f.entry)

\* Entry x has the address of the account, as far as it had no race.
Current(x) == x.user \in raced \/ x.email = email[x.user]

\* Request r is going to invalidate x.
Owes(r, x) == job[r].user = x.user /\ job[r].pc = "evict" /\ x.key \in job[r].keys

\* Request r works for the user of x, in process n, and has not written yet.
Reads(r, n, x) == job[r].user = x.user /\ job[r].pc # "evict" /\ job[r].node = n

\* An old entry in L2 is going to be invalidated, and so is one in L1 of the process that
\* changed the address last; there is none where a request may read it or in a fill.
FreshInv ==
  /\ \A x \in l2 : Current(x) \/ \E r \in Req : Owes(r, x)
  /\ \A n \in Node : \A f \in fill[n] : Current(f.entry)
  /\ \A n \in Node : \A x \in l1[n] :
       /\ movedBy[x.user] \in {n, None} =>
            Current(x) \/ \E r \in Req : Owes(r, x) /\ job[r].node = n
       /\ (\E r \in Req : Reads(r, n, x)) => Current(x)

IInv == Types /\ Unique /\ UserInv /\ JobInv /\ SerialInv /\ CacheInv /\ FreshInv
-----------------------------------------------------------------------------
(* Effects *)

\* The type invariant is the types and the two unique columns.
LEMMA TypeOKParts == TypeOK <=> Types /\ Unique
BY DEF TypeOK, Types, Unique

\* None is neither a user nor an address nor a process.
LEMMA NoneIsNothing == None \notin User /\ None \notin Email /\ None \notin Node
BY AccountsAssumption

\* A job still stands when more is verified, proven or raced, unless its user's address
\* changed under it: then the user is verified and has raced.
LEMMA StillStands ==
  ASSUME NEW j, NEW em, NEW ver, NEW prv, NEW rac, NEW em2, NEW ver2, NEW prv2, NEW rac2,
         Stands(j, em, ver, prv, rac),
         ver \subseteq ver2, prv \subseteq prv2, rac \subseteq rac2,
         j.user # None =>
           em2[j.user] = em[j.user]
             \/ (em2[j.user] # None /\ j.user \in ver2 /\ j.user \in rac2)
  PROVE  Stands(j, em2, ver2, prv2, rac2)
BY DEF Stands

\* A request that is over has no user.
LEMMA NoJobStands ==
  /\ NoJob \in Job /\ NoJob.user = None /\ NoJob.pc = "idle"
  /\ \A em, ver, prv, rac : Stands(NoJob, em, ver, prv, rac)
BY DEF NoJob, Job, PC, Stands

\* The fields of an entry, and of a fill.
LEMMA EntryFields ==
  /\ \A x \in Entry : x.key \in CacheKey /\ x.user \in User /\ x.email \in Email
  /\ \A f \in Fill : f.entry \in Entry
BY DEF Entry, Fill

\* Entries that are put into a cache, or that stay there, still have a key each.
LEMMA PutKeepsKeys ==
  ASSUME NEW S \in SUBSET Entry, OnePerKey(S), NEW x \in Entry
  PROVE  Put(S, x) \in SUBSET Entry /\ OnePerKey(Put(S, x)) /\ Put(S, x) \subseteq S \cup {x}
BY DEF Put, OnePerKey

LEMMA LessKeepsKeys ==
  ASSUME NEW S, OnePerKey(S), NEW T \in SUBSET S
  PROVE  OnePerKey(T)
BY DEF OnePerKey

\* A step that touches nothing but the caches: what is in a cache was there before or in
\* a fill, and what comes into a fill is sound and, without a race, current.
LEMMA CacheStep ==
  ASSUME IInv, UNCHANGED <<row, job, otps, proven, movedBy>>,
         raced \subseteq raced', raced' \subseteq User,
         l1' \in [Node -> SUBSET Entry], \A n \in Node : OnePerKey(l1'[n]),
         l2' \subseteq Entry, OnePerKey(l2'),
         fill' \in [Node -> SUBSET Fill],
         \A x \in l2' : x \in l2 \/ \E n \in Node : \E f \in fill[n] : f.entry = x,
         \A n \in Node : \A x \in l1'[n] : x \in l1[n] \/ \E f \in fill[n] : f.entry = x,
         \A n \in Node : \A f \in fill'[n] :
           \/ \E g \in fill[n] : g.entry = f.entry
           \/ Sound(f.entry) /\ (f.entry.user \in raced' \/ Current(f.entry))
  PROVE  IInv'
<1>1. UNCHANGED <<email, verified, accOtp, pending, pendOtp, fresh>>
  BY DEF row, change
<1>2. Types'
  BY <1>1 DEF IInv, Types
<1>3. Unique' /\ UserInv' /\ SerialInv'
  BY <1>1 DEF IInv, Unique, UserInv, SerialInv
<1>4. JobInv'
  BY <1>1, StillStands DEF IInv, JobInv
<1>5. \A x : (Sound(x) => Sound(x)') /\ (Current(x) => Current(x)')
  BY <1>1 DEF Sound, Current
<1>6. CacheInv'
  BY <1>5 DEF IInv, CacheInv
<1>7. /\ \A x : \A r \in Req : Owes(r, x)' <=> Owes(r, x)
      /\ \A x, n : \A r \in Req : Reads(r, n, x)' <=> Reads(r, n, x)
  BY DEF Owes, Reads
<1>8. FreshInv'
  <2>1. ASSUME NEW x \in l2'
        PROVE  Current(x)' \/ \E r \in Req : Owes(r, x)'
    BY <1>5, <1>7, <2>1 DEF IInv, FreshInv
  <2>2. ASSUME NEW n \in Node, NEW f \in fill'[n]
        PROVE  Current(f.entry)'
    <3>1. CASE \E g \in fill[n] : g.entry = f.entry
      BY <1>5, <3>1 DEF IInv, FreshInv
    <3>2. CASE f.entry.user \in raced' \/ Current(f.entry)
      BY <1>5, <3>2 DEF Current
    <3> QED
      BY <3>1, <3>2
  <2>3. ASSUME NEW n \in Node, NEW x \in l1'[n]
        PROVE  /\ movedBy'[x.user] \in {n, None} =>
                    Current(x)' \/ \E r \in Req : Owes(r, x)' /\ job'[r].node = n
               /\ (\E r \in Req : Reads(r, n, x)') => Current(x)'
    <3>1. CASE x \in l1[n]
      BY <1>5, <1>7, <3>1 DEF IInv, FreshInv
    <3>2. CASE \E f \in fill[n] : f.entry = x
      BY <1>5, <3>2 DEF IInv, FreshInv
    <3> QED
      BY <2>3, <3>1, <3>2
  <2> QED
    BY <2>1, <2>2, <2>3 DEF FreshInv
<1> QED
  BY <1>2, <1>3, <1>4, <1>6, <1>8 DEF IInv

\* A step of a request that writes no row: it goes on for its user in its process, ends,
\* or begins for a user who has raced, or for whom nobody is at work and where nothing
\* old is in L1.
LEMMA RequestStep ==
  ASSUME IInv, NEW r \in Req, NEW q \in Job, job' = [job EXCEPT ![r] = q],
         job[r].pc # "evict", q.pc # "evict",
         UNCHANGED <<row, cache, otps, movedBy>>,
         proven \subseteq proven', proven' \subseteq User \X Email,
         raced \subseteq raced', raced' \subseteq User,
         Stands(q, email, verified, proven', raced'),
         \/ q.user = None
         \/ q.user = job[r].user /\ q.node = job[r].node
         \/ q.user \notin raced' =>
              ~ Outdated(q.node, q.user) /\ \A s \in Req : job[s].user # q.user
  PROVE  IInv'
<1>1. UNCHANGED <<email, verified, accOtp, pending, pendOtp, fresh, l1, l2, fill>>
  BY DEF row, change, cache
<1>2. /\ job' \in [Req -> Job] /\ job'[r] = q
      /\ \A s \in Req \ {r} : job'[s] = job[s]
  BY DEF IInv, Types
<1>3. Types' /\ Unique'
  BY <1>1, <1>2 DEF IInv, Types, Unique
<1>4. UserInv'
  BY <1>1 DEF IInv, UserInv
<1>5. JobInv'
  <2>1. SUFFICES ASSUME NEW s \in Req
                 PROVE  Stands(job'[s], email, verified, proven', raced')
    BY <1>1 DEF JobInv
  <2>2. CASE s = r
    BY <1>2, <2>2
  <2>3. CASE s # r
    <3>1. Stands(job[s], email, verified, proven, raced)
      BY DEF IInv, JobInv
    <3>2. Stands(job[s], email, verified, proven', raced')
      BY <3>1, StillStands
    <3> QED
      BY <1>2, <2>3, <3>2
  <2> QED
    BY <2>2, <2>3
<1>6. SerialInv'
  <2>1. SUFFICES ASSUME NEW u \in User \ raced'
                 PROVE  \A s, t \in Req : job'[s].user = u /\ job'[t].user = u => s = t
    BY DEF SerialInv
  <2>2. \A s, t \in Req : job[s].user = u /\ job[t].user = u => s = t
    BY DEF IInv, SerialInv
  <2>3. CASE q.user = u
    BY <1>2, <2>2, <2>3, NoneIsNothing
  <2>4. CASE q.user # u
    BY <1>2, <2>2, <2>4
  <2> QED
    BY <2>3, <2>4
<1>7. \A x : (Sound(x) => Sound(x)') /\ (Current(x) => Current(x)')
  BY <1>1 DEF Sound, Current
<1>8. CacheInv'
  BY <1>1, <1>7 DEF IInv, CacheInv
<1>9. \A x : \A s \in Req : Owes(s, x) => Owes(s, x)' /\ job'[s].node = job[s].node
  BY <1>2 DEF Owes
<1>10. ASSUME NEW n \in Node, NEW x \in l1[n], NEW s \in Req, Reads(s, n, x)'
       PROVE  Current(x)'
  <2>1. x.user \in User
    BY EntryFields DEF IInv, Types
  <2>2. CASE Reads(s, n, x)
    BY <1>7, <2>2 DEF IInv, FreshInv
  <2>3. CASE ~ Reads(s, n, x)
    <3>1. s = r
      BY <1>2, <1>10, <2>3 DEF Reads
    <3>2. q.user = x.user /\ q.node = n
      BY <1>2, <1>10, <3>1 DEF Reads
    <3>3. q.user # None /\ ~(q.user = job[r].user /\ q.node = job[r].node)
      BY <2>1, <2>3, <3>1, <3>2, NoneIsNothing DEF Reads
    <3>4. x.user \notin raced' => x.email = email[x.user]
      BY <3>2, <3>3 DEF Outdated
    <3> QED
      BY <1>1, <3>4 DEF Current
  <2> QED
    BY <2>2, <2>3
<1>11. FreshInv'
  <2>1. \A x \in l2' : Current(x)' \/ \E s \in Req : Owes(s, x)'
    BY <1>1, <1>7, <1>9 DEF IInv, FreshInv
  <2>2. \A n \in Node : \A f \in fill'[n] : Current(f.entry)'
    BY <1>1, <1>7 DEF IInv, FreshInv
  <2>3. ASSUME NEW n \in Node, NEW x \in l1[n], movedBy[x.user] \in {n, None}
        PROVE  Current(x)' \/ \E s \in Req : Owes(s, x)' /\ job'[s].node = n
    BY <1>7, <1>9, <2>3 DEF IInv, FreshInv
  <2> QED
    BY <1>1, <1>10, <2>1, <2>2, <2>3 DEF FreshInv
<1> QED
  BY <1>3, <1>4, <1>5, <1>6, <1>8, <1>11 DEF IInv

\* A step by which requests end, and entries and fills go away: a user whose invalidations
\* end with them has raced.
LEMMA VanishStep ==
  ASSUME IInv, UNCHANGED <<row, l2, otps, proven, movedBy>>,
         job' \in [Req -> Job], \A s \in Req : job'[s] = job[s] \/ job'[s] = NoJob,
         \A s \in Req : job[s].pc = "evict" => job'[s] = job[s] \/ job[s].user \in raced',
         raced \subseteq raced', raced' \subseteq User,
         l1' \in [Node -> SUBSET Entry], \A n \in Node : l1'[n] \subseteq l1[n],
         fill' \in [Node -> SUBSET Fill], \A n \in Node : fill'[n] \subseteq fill[n]
  PROVE  IInv'
<1>1. UNCHANGED <<email, verified, accOtp, pending, pendOtp, fresh>>
  BY DEF row, change
<1>2. Types'
  BY <1>1, LessKeepsKeys DEF IInv, Types
<1>3. Unique' /\ UserInv'
  BY <1>1 DEF IInv, Unique, UserInv
<1>4. JobInv'
  <2>1. ASSUME NEW s \in Req PROVE Stands(job'[s], email, verified, proven, raced')
    BY NoJobStands, StillStands DEF IInv, JobInv
  <2> QED
    BY <1>1, <2>1 DEF JobInv
<1>5. SerialInv'
  BY NoJobStands, NoneIsNothing DEF IInv, SerialInv
<1>6. \A x : (Sound(x) => Sound(x)') /\ (Current(x) => Current(x)')
  BY <1>1 DEF Sound, Current
<1>7. CacheInv'
  BY <1>6 DEF IInv, CacheInv
<1>8. ASSUME NEW x \in Entry, NEW s \in Req, Owes(s, x)
      PROVE  Current(x)' \/ (Owes(s, x)' /\ job'[s].node = job[s].node)
  BY <1>8 DEF Owes, Current
<1>9. ASSUME NEW n \in Node, NEW x \in Entry, NEW s \in Req, Reads(s, n, x)'
      PROVE  Reads(s, n, x)
  <2>1. job'[s] = job[s]
    BY <1>9, EntryFields, NoJobStands, NoneIsNothing DEF Reads
  <2> QED
    BY <1>9, <2>1 DEF Reads
<1>10. FreshInv'
  <2>1. ASSUME NEW x \in l2'
        PROVE  Current(x)' \/ \E s \in Req : Owes(s, x)'
    BY <1>6, <1>8, <2>1 DEF IInv, Types, FreshInv
  <2>2. \A n \in Node : \A f \in fill'[n] : Current(f.entry)'
    BY <1>6 DEF IInv, FreshInv
  <2>3. ASSUME NEW n \in Node, NEW x \in l1'[n]
        PROVE  /\ movedBy'[x.user] \in {n, None} =>
                    Current(x)' \/ \E s \in Req : Owes(s, x)' /\ job'[s].node = n
               /\ (\E s \in Req : Reads(s, n, x)') => Current(x)'
    <3>1. x \in Entry /\ x \in l1[n]
      BY <2>3
    <3>2. movedBy[x.user] \in {n, None} =>
            Current(x) \/ \E s \in Req : Owes(s, x) /\ job[s].node = n
      BY <3>1 DEF IInv, FreshInv
    <3>3. (\E s \in Req : Reads(s, n, x)) => Current(x)
      BY <3>1 DEF IInv, FreshInv
    <3> QED
      BY <1>6, <1>8, <1>9, <3>1, <3>2, <3>3
  <2> QED
    BY <2>1, <2>2, <2>3 DEF FreshInv
<1> QED
  BY <1>2, <1>3, <1>4, <1>5, <1>7, <1>10 DEF IInv

\* A step of a request that writes the row of one user and, unless the row is new, goes on
\* to invalidate.  An address only changes if the user is verified and both its keys are
\* going to be invalidated, or if there was none; a fill that has the row means a race.
LEMMA WriteStep ==
  ASSUME IInv, NEW r \in Req, NEW u \in User, NEW q \in Job,
         job' = [job EXCEPT ![r] = q], job[r].pc # "evict",
         \/ q = NoJob
         \/ /\ q.pc = "evict" /\ q.user = u /\ q.node = job[r].node /\ q.node # None
            /\ job[r].user = u /\ email'[u] # None,
         UNCHANGED <<cache, proven>>, raced \subseteq raced',
         Types', Unique', UserInv',
         verified \subseteq verified',
         \A w \in User \ {u} : email'[w] = email[w] /\ movedBy'[w] = movedBy[w],
         \/ email'[u] = email[u] /\ movedBy'[u] = movedBy[u]
         \/ email[u] = None
         \/ /\ u \in verified /\ q.pc = "evict" /\ movedBy'[u] = q.node
            /\ u \notin raced' => /\ \A n \in Node : \A f \in fill[n] : f.entry.user # u
                                  /\ IdKey(u) \in q.keys /\ EmailKey(email[u]) \in q.keys
  PROVE  IInv'
<1>1. UNCHANGED <<l1, l2, fill>>
  BY DEF cache
<1>2. /\ job'[r] = q /\ \A s \in Req \ {r} : job'[s] = job[s]
  BY DEF IInv, Types
<1>3. q.user \in {None, u} /\ (q.user = u => job[r].user = u /\ q.pc = "evict")
  BY NoJobStands, NoneIsNothing
<1>4. ASSUME NEW s \in Req \ {r}, job[s].user = u
      PROVE  email[u] # None /\ (u \in raced \/ job[r].user # u)
  <2>1. Stands(job[s], email, verified, proven, raced)
    BY DEF IInv, JobInv
  <2>2. email[u] # None
    BY <1>4, <2>1, NoneIsNothing DEF Stands
  <2>3. u \in raced \/ job[r].user # u
    BY <1>4 DEF IInv, SerialInv
  <2> QED
    BY <2>2, <2>3
<1>5. JobInv'
  <2>1. SUFFICES ASSUME NEW s \in Req
                 PROVE  Stands(job'[s], email', verified', proven, raced')
    BY DEF JobInv
  <2>2. CASE s = r
    BY <1>2, <2>2, NoJobStands, NoneIsNothing DEF Stands
  <2>3. CASE s # r
    <3>1. Stands(job[s], email, verified, proven, raced) /\ job[s].user \in User \cup {None}
      BY DEF IInv, JobInv, Types, Job
    <3>2. job[s].user # None =>
            \/ email'[job[s].user] = email[job[s].user]
            \/ email'[u] # None /\ job[s].user = u /\ u \in verified' /\ u \in raced'
      BY <1>3, <1>4, <2>3, <3>1, NoJobStands, NoneIsNothing
    <3>3. Stands(job[s], email', verified', proven, raced')
      BY <3>1, <3>2, StillStands
    <3> QED
      BY <1>2, <2>3, <3>3
  <2> QED
    BY <2>2, <2>3
<1>6. SerialInv'
  <2>1. SUFFICES ASSUME NEW w \in User \ raced'
                 PROVE  \A s, t \in Req : job'[s].user = w /\ job'[t].user = w => s = t
    BY DEF SerialInv
  <2>2. \A s, t \in Req : job[s].user = w /\ job[t].user = w => s = t
    BY DEF IInv, SerialInv
  <2> QED
    BY <1>2, <1>3, <2>2, NoneIsNothing
<1>7. \A x \in Entry : Sound(x) => Sound(x)'
  BY EntryFields, NoJobStands DEF Sound
<1>8. CacheInv'
  BY <1>1, <1>7, EntryFields DEF IInv, CacheInv, Types
<1>9. \A x \in Entry, s \in Req :
        Owes(s, x) => Owes(s, x)' /\ job'[s].node = job[s].node
  BY <1>2 DEF Owes
<1>10. \A x \in Entry, s \in Req, n \in Node : Reads(s, n, x)' => Reads(s, n, x)
  BY <1>2, <1>3, NoJobStands, NoneIsNothing, EntryFields DEF Reads
\* Entries of others, of a user who keeps the address or who has raced.
<1>11. ASSUME NEW x \in Entry, Sound(x),
              x.user # u \/ (email'[u] = email[u] /\ movedBy'[u] = movedBy[u]) \/ u \in raced'
       PROVE  /\ Current(x) => Current(x)'
              /\ Current(x)' \/ movedBy'[x.user] = movedBy[x.user]
  BY <1>11, EntryFields DEF Current
\* A user without a race whose address changes: what is cached is the old row.
<1>12. ASSUME NEW x \in Entry, Sound(x), x.user = u, u \notin raced',
              ~(email'[u] = email[u] /\ movedBy'[u] = movedBy[u])
       PROVE  /\ q.pc = "evict" /\ q.user = u /\ movedBy'[u] = q.node /\ q.node # None
              /\ \A n \in Node : \A f \in fill[n] : f.entry.user # u
              /\ Current(x) => Owes(r, x)'
              /\ \A s \in Req : ~ Owes(s, x)
              /\ Reads(r, q.node, x)
  <2>1. email[u] # None
    BY <1>12 DEF Sound
  <2>2. /\ q.pc = "evict" /\ q.user = u /\ movedBy'[u] = q.node /\ q.node # None
        /\ q.node = job[r].node /\ job[r].user = u
        /\ \A n \in Node : \A f \in fill[n] : f.entry.user # u
        /\ IdKey(u) \in q.keys /\ EmailKey(email[u]) \in q.keys
    BY <1>12, <2>1, NoJobStands
  <2>3. Current(x) => Owes(r, x)'
    BY <1>2, <1>12, <2>2 DEF Current, Owes, Sound
  <2>4. \A s \in Req : job[s].user = u => s = r
    BY <1>12, <2>2 DEF IInv, SerialInv
  <2> QED
    BY <1>12, <2>2, <2>3, <2>4 DEF Owes, Reads
<1>13. FreshInv'
  <2>1. ASSUME NEW x \in l2
        PROVE  Current(x)' \/ \E s \in Req : Owes(s, x)'
    <3>1. x \in Entry /\ Sound(x) /\ (Current(x) \/ \E s \in Req : Owes(s, x))
      BY DEF IInv, Types, CacheInv, FreshInv
    <3> QED
      BY <1>9, <1>11, <1>12, <3>1
  <2>2. ASSUME NEW n \in Node, NEW f \in fill[n]
        PROVE  Current(f.entry)'
    <3>1. f.entry \in Entry /\ Sound(f.entry) /\ Current(f.entry)
      BY EntryFields DEF IInv, Types, CacheInv, FreshInv
    <3> QED
      BY <1>11, <1>12, <3>1
  <2>3. ASSUME NEW n \in Node, NEW x \in l1[n]
        PROVE  /\ movedBy'[x.user] \in {n, None} =>
                    Current(x)' \/ \E s \in Req : Owes(s, x)' /\ job'[s].node = n
               /\ (\E s \in Req : Reads(s, n, x)') => Current(x)'
    <3>1. x \in Entry /\ Sound(x)
      BY DEF IInv, Types, CacheInv
    <3>2. movedBy[x.user] \in {n, None} =>
            Current(x) \/ \E s \in Req : Owes(s, x) /\ job[s].node = n
      BY DEF IInv, FreshInv
    <3>3. (\E s \in Req : Reads(s, n, x)) => Current(x)
      BY DEF IInv, FreshInv
    <3>4. CASE x.user # u \/ (email'[u] = email[u] /\ movedBy'[u] = movedBy[u]) \/ u \in raced'
      BY <1>9, <1>10, <1>11, <3>1, <3>2, <3>3, <3>4
    <3>5. CASE ~(x.user # u \/ (email'[u] = email[u] /\ movedBy'[u] = movedBy[u]) \/ u \in raced')
      <4>1. /\ q.pc = "evict" /\ q.user = u /\ movedBy'[u] = q.node /\ q.node # None
            /\ Current(x) => Owes(r, x)'
            /\ Reads(r, q.node, x)
        BY <1>12, <3>1, <3>5
      <4>2. ASSUME movedBy'[x.user] \in {n, None}
            PROVE  Owes(r, x)' /\ job'[r].node = n
        BY <1>2, <3>3, <3>5, <4>1, <4>2
      <4>3. \A s \in Req : ~ Reads(s, n, x)'
        <5>1. \A s \in Req : job[s].user = u => s = r
          BY <3>5, <4>1 DEF Reads, IInv, SerialInv
        <5> QED
          BY <1>2, <3>5, <4>1, <5>1 DEF Reads
      <4> QED
        BY <4>2, <4>3
    <3> QED
      BY <3>4, <3>5
  <2> QED
    BY <1>1, <2>1, <2>2, <2>3 DEF FreshInv
<1> QED
  BY <1>5, <1>6, <1>8, <1>13 DEF IInv
-----------------------------------------------------------------------------
(* Caches *)

\* A row that the database returns is its own, as it is now.
LEMMA SelectedIsRow ==
  ASSUME Types, NEW k \in CacheKey, NEW x \in Selected(k)
  PROVE  /\ x \in Entry /\ x.key = k /\ x.email = email[x.user]
         /\ x.key = IdKey(x.user) \/ x.key = EmailKey(x.email)
         /\ email[x.user] # None
<1>1. PICK u \in User :
        /\ k = EmailKey(email[u]) \/ (k = IdKey(u) /\ u \in verified)
        /\ x = [key |-> k, user |-> u, email |-> email[u], verified |-> u \in verified]
  BY DEF Selected
<1>2. email[u] \in Email
  <2>1. CASE k = EmailKey(email[u])
    <3>1. CASE k \in {IdKey(w) : w \in User}
      BY <2>1, <3>1 DEF IdKey, EmailKey
    <3>2. CASE k \in {EmailKey(e) : e \in Email}
      BY <2>1, <3>2 DEF EmailKey
    <3> QED
      BY <3>1, <3>2 DEF CacheKey
  <2>2. CASE u \in verified
    BY <2>2 DEF Types
  <2> QED
    BY <1>1, <2>1, <2>2
<1>3. x.key = k /\ x.user = u /\ x.email = email[u]
  BY <1>1
<1>4. x \in Entry
  BY <1>1, <1>2 DEF Entry
<1> QED
  BY <1>1, <1>2, <1>3, <1>4, NoneIsNothing

\* A row from L2 is current unless an invalidation is still to come, and then its user
\* has raced; a row from the database is current.
LEMMA FindStep ==
  ASSUME IInv, NEW n \in Node, NEW k \in CacheKey, Find(n, k)
  PROVE  IInv'
<1>1. /\ UNCHANGED <<row, l1, l2, job, otps, proven, movedBy>> /\ Types /\ l1' = l1 /\ l2' = l2
  BY DEF Find, IInv
<1>2. CASE \E x \in l2 :
             /\ fill' = [fill EXCEPT ![n] = @ \cup {[entry |-> x, to |-> "l1"]}]
             /\ raced' = IF Evicting(x.user) THEN raced \cup {x.user} ELSE raced
  <2>1. PICK x \in l2 :
             /\ fill' = [fill EXCEPT ![n] = @ \cup {[entry |-> x, to |-> "l1"]}]
             /\ raced' = IF Evicting(x.user) THEN raced \cup {x.user} ELSE raced
    BY <1>2
  <2>2. x \in Entry /\ x.user \in User /\ Sound(x)
    BY <1>1, EntryFields DEF Types, IInv, CacheInv
  <2>3. x.user \in raced' \/ Current(x)
    BY <2>1 DEF IInv, FreshInv, Owes, Evicting
  <2>4. [entry |-> x, to |-> "l1"] \in Fill
    BY <2>2 DEF Fill
  <2>5. /\ fill' \in [Node -> SUBSET Fill]
        /\ \A m \in Node : \A f \in fill'[m] : f \in fill[m] \/ f.entry = x
    BY <1>1, <2>1, <2>4 DEF Types
  <2>6. raced \subseteq raced' /\ raced' \subseteq User
    BY <1>1, <2>1, <2>2 DEF Types
  <2> QED
    BY <1>1, <2>2, <2>3, <2>5, <2>6, CacheStep DEF Types
<1>3. CASE \E x \in Selected(k) :
             /\ fill' = [fill EXCEPT ![n] = @ \cup {[entry |-> x, to |-> "l2"]}]
             /\ UNCHANGED raced
  <2>1. PICK x \in Selected(k) :
             /\ fill' = [fill EXCEPT ![n] = @ \cup {[entry |-> x, to |-> "l2"]}]
             /\ UNCHANGED raced
    BY <1>3
  <2>2. x \in Entry /\ Sound(x) /\ Current(x)
    BY <1>1, SelectedIsRow DEF Sound, Current
  <2>3. [entry |-> x, to |-> "l2"] \in Fill
    BY <2>2 DEF Fill
  <2>4. /\ fill' \in [Node -> SUBSET Fill]
        /\ \A m \in Node : \A f \in fill'[m] : f \in fill[m] \/ f.entry = x
    BY <1>1, <2>1, <2>3 DEF Types
  <2> QED
    BY <1>1, <2>1, <2>2, <2>4, CacheStep DEF Types
<1> QED
  BY <1>2, <1>3 DEF Find

\* What L2 gets was in a fill.
LEMMA StoreL2Step ==
  ASSUME IInv, NEW n \in Node, NEW f \in fill[n], StoreL2(n, f)
  PROVE  IInv'
<1>1. /\ UNCHANGED <<row, l1, job, otps, proven, movedBy, raced>> /\ Types /\ l1' = l1
      /\ l2' \in {l2, Put(l2, f.entry)}
      /\ fill' = [fill EXCEPT ![n] = (@ \ {f}) \cup {[f EXCEPT !.to = "l1"]}]
  BY DEF StoreL2, IInv, history
<1>2. f \in Fill /\ f.entry \in Entry
  BY <1>1, EntryFields DEF Types
<1>3. [f EXCEPT !.to = "l1"] \in Fill /\ [f EXCEPT !.to = "l1"].entry = f.entry
  BY <1>2 DEF Fill
<1>4. /\ fill' \in [Node -> SUBSET Fill]
      /\ \A m \in Node : \A g \in fill'[m] : \E h \in fill[m] : h.entry = g.entry
  BY <1>1, <1>3 DEF Types
<1>5. l2' \subseteq Entry /\ OnePerKey(l2') /\ l2' \subseteq l2 \cup {f.entry}
  BY <1>1, <1>2, PutKeepsKeys DEF Types
<1> QED
  BY <1>1, <1>4, <1>5, CacheStep DEF Types

\* What an L1 gets was in a fill of its process.
LEMMA StoreL1Step ==
  ASSUME IInv, NEW n \in Node, NEW f \in fill[n], StoreL1(n, f)
  PROVE  IInv'
<1>1. /\ UNCHANGED <<row, l2, job, otps, proven, movedBy, raced>> /\ Types /\ l2' = l2
      /\ l1' = [l1 EXCEPT ![n] = Put(@, f.entry)]
      /\ fill' = [fill EXCEPT ![n] = @ \ {f}]
  BY DEF StoreL1, IInv, history
<1>2. f.entry \in Entry
  BY <1>1, EntryFields DEF Types
<1>3. /\ Put(l1[n], f.entry) \in SUBSET Entry /\ OnePerKey(Put(l1[n], f.entry))
      /\ Put(l1[n], f.entry) \subseteq l1[n] \cup {f.entry}
  BY <1>1, <1>2, PutKeepsKeys DEF Types
<1>4. /\ l1' \in [Node -> SUBSET Entry] /\ \A m \in Node : OnePerKey(l1'[m])
      /\ \A m \in Node : \A x \in l1'[m] : x \in l1[m] \/ \E g \in fill[m] : g.entry = x
  BY <1>1, <1>3 DEF Types
<1>5. /\ fill' \in [Node -> SUBSET Fill]
      /\ \A m \in Node : \A g \in fill'[m] : \E h \in fill[m] : h.entry = g.entry
  BY <1>1 DEF Types
<1> QED
  BY <1>1, <1>4, <1>5, CacheStep DEF Types

\* Entries whose time is over.
LEMMA ExpireStep ==
  ASSUME IInv, \/ \E n \in Node : \E x \in l1[n] : ExpireL1(n, x)
               \/ \E x \in l2 : ExpireL2(x)
  PROVE  IInv'
<1>1. /\ UNCHANGED <<row, fill, job, otps, proven, movedBy, raced>> /\ Types
      /\ l1' \in [Node -> SUBSET Entry] /\ \A m \in Node : l1'[m] \subseteq l1[m]
      /\ l2' \subseteq l2
  BY DEF ExpireL1, ExpireL2, IInv, history, Types
<1>2. OnePerKey(l2') /\ \A m \in Node : OnePerKey(l1'[m])
  BY <1>1, LessKeepsKeys DEF Types
<1>3. /\ fill' \in [Node -> SUBSET Fill]
      /\ \A m \in Node : \A g \in fill'[m] : \E h \in fill[m] : h.entry = g.entry
  BY <1>1 DEF Types
<1> QED
  BY <1>1, <1>2, <1>3, CacheStep DEF Types
-----------------------------------------------------------------------------
(* Requests that begin *)

\* Whoever begins for a user is alone and its process has nothing old of the user in L1,
\* or the user has raced from now on.
LEMMA BeginStep ==
  ASSUME IInv, NEW r \in Req, NEW n \in Node, NEW u \in User, NEW j \in Job,
         Begin(r, n, u, j),
         j.pc \in {"mark", "resend", "taken", "before"}, email[u] # None,
         j.pc # "mark" => j.email # None,
         j.pc \in {"taken", "before"} => u \in verified,
         j.pc = "before" => <<u, j.email>> \in proven',
         j.pc = "mark" => <<u, email[u]>> \in proven',
         j.pc = "resend" => u \in verified \/ j.email = email[u],
         UNCHANGED <<row, cache, otps>>,
         proven \subseteq proven', proven' \subseteq User \X Email
  PROVE  IInv'
<1> DEFINE q == [j EXCEPT !.user = u, !.node = n]
<1>1. /\ q \in Job /\ q.user = u /\ q.node = n /\ q.pc = j.pc /\ q.email = j.email
      /\ job' = [job EXCEPT ![r] = q]
  BY DEF Begin, Job
<1> HIDE DEF q
<1>2. /\ raced \subseteq raced' /\ raced' \subseteq User /\ UNCHANGED movedBy
      /\ job[r].pc = "idle"
      /\ u \notin raced' => ~ Outdated(n, u) /\ \A s \in Req : job[s].user # u
  BY DEF Begin, IInv, Types
<1>3. Stands(q, email, verified, proven', raced')
  BY <1>1, NoneIsNothing DEF Stands
<1> QED
  BY <1>1, <1>2, <1>3, RequestStep

\* register looks for the address.
LEMMA RegisterStep ==
  ASSUME IInv, NEW r \in Req, NEW e \in Email, Register(r, e)
  PROVE  IInv'
<1> DEFINE q == [NoJob EXCEPT !.pc = "create", !.email = e]
<1>1. /\ q \in Job /\ q.user = None /\ q.pc = "create" /\ q.email = e
  BY DEF NoJob, Job, PC
<1>2. /\ job' = [job EXCEPT ![r] = q] /\ job[r].pc = "idle"
      /\ UNCHANGED <<row, cache, otps, proven, movedBy, raced>>
  BY DEF Register, history
<1> HIDE DEF q
<1>3. Stands(q, email, verified, proven, raced)
  BY <1>1, NoneIsNothing DEF Stands
<1> QED
  BY <1>1, <1>2, <1>3, RequestStep DEF IInv, Types

\* The OTP of an account that is not verified went to its address.
LEMMA VerifyAccountStep ==
  ASSUME IInv, NEW r \in Req, NEW n \in Node, NEW u \in User, VerifyAccount(r, n, u)
  PROVE  IInv'
<1> DEFINE j == [NoJob EXCEPT !.pc = "mark"]
<1>1. j \in Job /\ j.pc = "mark"
  BY DEF NoJob, Job, PC
<1>2. /\ Begin(r, n, u, j) /\ proven' = proven \cup {<<u, accOtp[u]>>}
      /\ UNCHANGED <<row, cache, otps>>
  BY DEF VerifyAccount
<1> HIDE DEF j
<1>3. accOtp[u] = email[u] /\ accOtp[u] \in Email
  BY DEF VerifyAccount, IInv, UserInv, Types
<1>4. proven' \subseteq User \X Email
  BY <1>2, <1>3 DEF IInv, Types
<1> QED
  BY <1>1, <1>2, <1>3, <1>4, NoneIsNothing, BeginStep

\* An entry for an account that is not verified has its address, and is under it.
LEMMA FindUnverifiedStep ==
  ASSUME IInv, NEW r \in Req, NEW n \in Node, NEW e \in Email, FindUnverified(r, n, e)
  PROVE  IInv'
<1> DEFINE j == [NoJob EXCEPT !.pc = "resend", !.email = e]
<1>1. j \in Job /\ j.pc = "resend" /\ j.email = e
  BY DEF NoJob, Job, PC
<1>2. PICK x \in l1[n] : x.key = EmailKey(e) /\ Begin(r, n, x.user, j)
  BY DEF FindUnverified
<1>3. UNCHANGED <<row, cache, otps, proven>>
  BY DEF FindUnverified
<1> HIDE DEF j
<1>4. x \in Entry /\ x.user \in User /\ Sound(x)
  BY EntryFields DEF IInv, Types, CacheInv
<1>5. x.email = e
  BY <1>2, <1>4 DEF Sound, IdKey, EmailKey
<1>6. email[x.user] # None /\ (x.user \in verified \/ e = email[x.user])
  BY <1>4, <1>5 DEF Sound
<1> QED
  BY <1>1, <1>2, <1>3, <1>4, <1>6, NoneIsNothing, BeginStep DEF IInv, Types

\* Only a verified account starts a change of address.
LEMMA ChangeEmailInitiateStep ==
  ASSUME IInv, NEW r \in Req, NEW n \in Node, NEW u \in User, NEW e \in Email,
         ChangeEmailInitiate(r, n, u, e)
  PROVE  IInv'
<1> DEFINE j == [NoJob EXCEPT !.pc = "taken", !.email = e]
<1>1. j \in Job /\ j.pc = "taken" /\ j.email = e
  BY DEF NoJob, Job, PC
<1>2. Begin(r, n, u, j) /\ u \in verified /\ UNCHANGED <<row, cache, otps, proven>>
  BY DEF ChangeEmailInitiate
<1> HIDE DEF j
<1>3. email[u] # None
  BY <1>2 DEF IInv, Types
<1> QED
  BY <1>1, <1>2, <1>3, NoneIsNothing, BeginStep DEF IInv, Types

\* The OTP of a change went to the address that is pending.
LEMMA ChangeEmailVerifyStep ==
  ASSUME IInv, NEW r \in Req, NEW n \in Node, NEW u \in User, ChangeEmailVerify(r, n, u)
  PROVE  IInv'
<1> DEFINE j == [NoJob EXCEPT !.pc = "before", !.email = pending[u]]
<1>1. /\ pendOtp[u] = pending[u] /\ pending[u] \in Email /\ u \in verified
      /\ email[u] # None
  BY DEF ChangeEmailVerify, IInv, UserInv, Types
<1>2. j \in Job /\ j.pc = "before" /\ j.email = pending[u]
  BY <1>1 DEF NoJob, Job, PC
<1>3. /\ Begin(r, n, u, j) /\ proven' = proven \cup {<<u, pending[u]>>}
      /\ UNCHANGED <<row, cache, otps>>
  BY <1>1 DEF ChangeEmailVerify
<1> HIDE DEF j
<1>4. proven' \subseteq User \X Email
  BY <1>1, <1>3 DEF IInv, Types
<1> QED
  BY <1>1, <1>2, <1>3, <1>4, NoneIsNothing, BeginStep
-----------------------------------------------------------------------------
(* Requests that go on *)

\* A request that ends without a write.
LEMMA EndStep ==
  ASSUME IInv, NEW r \in Req, job[r].pc # "evict", Finish(r),
         UNCHANGED <<row, cache, otps, proven, movedBy>>
  PROVE  IInv'
BY NoJobStands, RequestStep DEF Finish, IInv, Types

\* existsByEmail for a change of address.
LEMMA CheckTakenStep ==
  ASSUME IInv, NEW r \in Req, CheckTaken(r)
  PROVE  IInv'
<1> DEFINE q == [job[r] EXCEPT !.pc = "setPending"]
<1>1. CASE Finish(r) /\ UNCHANGED movedBy
  BY <1>1, EndStep DEF CheckTaken
<1>2. CASE Goto(r, "setPending")
  <2>1. job[r] \in Job /\ job[r].pc = "taken" /\ Stands(job[r], email, verified, proven, raced)
    BY DEF CheckTaken, IInv, Types, JobInv
  <2>2. /\ q \in Job /\ q.pc = "setPending" /\ q.user = job[r].user /\ q.email = job[r].email
        /\ q.node = job[r].node /\ job' = [job EXCEPT ![r] = q]
    BY <1>2, <2>1 DEF Goto, Job, PC
  <2>3. UNCHANGED <<row, cache, otps, proven, movedBy, raced>>
    BY <1>2 DEF Goto, CheckTaken, history
  <2> HIDE DEF q
  <2>4. Stands(q, email, verified, proven, raced)
    BY <2>1, <2>2 DEF Stands
  <2> QED
    BY <2>1, <2>2, <2>3, <2>4, RequestStep DEF IInv, Types
<1> QED
  BY <1>1, <1>2 DEF CheckTaken

\* The row that findById returns to a request that works alone has the account's address.
LEMMA BeforeStep ==
  ASSUME IInv, NEW r \in Req, Before(r)
  PROVE  IInv'
<1> DEFINE u == job[r].user
           n == job[r].node
           e == [job[r] EXCEPT !.pc = "commit"]
<1>1. /\ job[r] \in Job /\ job[r].pc = "before"
      /\ Stands(job[r], email, verified, proven, raced)
      /\ UNCHANGED <<row, cache, otps, proven, movedBy>>
  BY DEF Before, IInv, Types, JobInv
<1>2. u \in User /\ email[u] # None /\ n \in Node
  BY <1>1, NoneIsNothing DEF Job, Stands
<1>3. CASE /\ \E x \in l1[n] :
                /\ x.key = IdKey(u)
                /\ job' = [job EXCEPT ![r].pc = "commit", ![r].seen = x.email]
           /\ UNCHANGED raced
  <2>1. PICK x \in l1[n] :
          /\ x.key = IdKey(u)
          /\ job' = [job EXCEPT ![r].pc = "commit", ![r].seen = x.email]
    BY <1>3
  <2> DEFINE q == [job[r] EXCEPT !.pc = "commit", !.seen = x.email]
  <2>2. x \in Entry /\ Sound(x) /\ x.email \in Email
    BY <1>2, EntryFields DEF IInv, Types, CacheInv
  <2>3. x.user = u
    BY <2>1, <2>2 DEF Sound, IdKey, EmailKey
  <2>4. Reads(r, n, x)
    BY <1>1, <2>3 DEF Reads
  <2>5. u \in raced \/ x.email = email[u]
    BY <1>2, <2>3, <2>4 DEF IInv, FreshInv, Current
  <2>6. /\ q \in Job /\ q.pc = "commit" /\ q.user = u /\ q.email = job[r].email
        /\ q.seen = x.email /\ q.node = job[r].node /\ job' = [job EXCEPT ![r] = q]
    BY <1>1, <2>1, <2>2 DEF Job, PC
  <2> HIDE DEF q
  <2>7. Stands(q, email, verified, proven, raced)
    BY <1>1, <2>5, <2>6 DEF Stands
  <2> QED
    BY <1>1, <1>3, <2>6, <2>7, RequestStep DEF IInv, Types
<1>4. CASE job' = [job EXCEPT ![r].pc = "commit"] /\ raced' = raced \cup {u}
  <2>1. /\ e \in Job /\ e.pc = "commit" /\ e.user = u /\ e.email = job[r].email
        /\ e.node = job[r].node /\ job' = [job EXCEPT ![r] = e]
    BY <1>1, <1>4 DEF Job, PC
  <2> HIDE DEF e
  <2>2. Stands(e, email, verified, proven, raced')
    BY <1>1, <1>4, <2>1 DEF Stands
  <2>3. raced \subseteq raced' /\ raced' \subseteq User
    BY <1>2, <1>4 DEF IInv, Types
  <2> QED
    BY <1>1, <2>1, <2>2, <2>3, RequestStep DEF IInv, Types
<1> QED
  BY <1>3, <1>4 DEF Before
-----------------------------------------------------------------------------
(* Requests that write *)

\* A key of a user or of an address is a cache key.
LEMMA KeysAreKeys ==
  /\ \A u \in User : IdKey(u) \in CacheKey
  /\ \A e \in Email : EmailKey(e) \in CacheKey
BY DEF CacheKey

\* An OTP that is mailed.
LEMMA MailCounts ==
  ASSUME Types, Mail
  PROVE  otps' \in 0 .. MaxOtps
BY AccountsAssumption DEF Types, Mail

\* A request that wrote is going to invalidate; a row in a fill means a race.
LEMMA WrittenGoesOn ==
  ASSUME Types, NEW r \in Req, NEW u \in User, NEW K \in SUBSET CacheKey, Written(r, u, K)
  PROVE  \E q \in Job :
           /\ job' = [job EXCEPT ![r] = q] /\ job' \in [Req -> Job]
           /\ q.pc = "evict" /\ q.user = u /\ q.node = job[r].node /\ q.keys = K
           /\ raced \subseteq raced' /\ raced' \subseteq User
           /\ u \notin raced' => \A n \in Node : \A f \in fill[n] : f.entry.user # u
<1> DEFINE q == [NoJob EXCEPT !.pc = "evict", !.node = job[r].node, !.user = u, !.keys = K]
<1>1. job[r].node \in Node \cup {None}
  BY DEF Types, Job
<1>2. /\ q \in Job /\ q.pc = "evict" /\ q.user = u /\ q.node = job[r].node /\ q.keys = K
  BY <1>1 DEF NoJob, Job, PC
<1>3. job' = [job EXCEPT ![r] = q] /\ job' \in [Req -> Job]
  BY <1>2 DEF Written, Types
<1>4. /\ raced \subseteq raced' /\ raced' \subseteq User
      /\ u \notin raced' => \A n \in Node : \A f \in fill[n] : f.entry.user # u
  BY DEF Written, Types
<1> HIDE DEF q
<1> QED
  BY <1>2, <1>3, <1>4

\* The unique column keeps a second account of an address out.
LEMMA CreateStep ==
  ASSUME IInv, NEW r \in Req, NEW u \in User, Create(r, u)
  PROVE  IInv'
<1>1. /\ job[r] \in Job /\ job[r].pc = "create" /\ email[u] = None
      /\ Stands(job[r], email, verified, proven, raced)
      /\ Finish(r) /\ UNCHANGED <<verified, pending, pendOtp, fresh, cache, proven, movedBy>>
  BY DEF Create, IInv, Types, JobInv, change
<1>2. CASE Taken(job[r].email)
  <2>1. UNCHANGED <<row, otps>>
    BY <1>1, <1>2 DEF Create, row, change
  <2> QED
    BY <1>1, <2>1, EndStep
<1>3. CASE ~Taken(job[r].email)
  <2> DEFINE e == job[r].email
  <2>1. e \in Email /\ \A w \in User : email[w] # e
    BY <1>1, <1>3 DEF Job, Stands, Taken
  <2>2. /\ email' = [email EXCEPT ![u] = e] /\ accOtp' = [accOtp EXCEPT ![u] = e] /\ Mail
    BY <1>3 DEF Create
  <2> HIDE DEF e
  <2>3. /\ email' \in [User -> Email \cup {None}] /\ email'[u] = e
        /\ accOtp' \in [User -> Email \cup {None}] /\ accOtp'[u] = e
        /\ \A w \in User \ {u} : email'[w] = email[w] /\ accOtp'[w] = accOtp[w]
    BY <2>1, <2>2 DEF IInv, Types
  <2>4. UNCHANGED <<l1, l2, fill, raced>> /\ job' = [job EXCEPT ![r] = NoJob]
    BY <1>1 DEF cache, Finish
  <2>5. Types'
    BY <1>1, <2>1, <2>2, <2>3, <2>4, NoJobStands, MailCounts, NoneIsNothing DEF IInv, Types
  <2>6. Unique'
    BY <1>1, <2>1, <2>3 DEF IInv, Unique
  <2>7. u \notin verified
    BY <1>1 DEF IInv, Types
  <2>8. UserInv'
    BY <1>1, <2>3, <2>7 DEF IInv, UserInv
  <2> QED
    BY <1>1, <2>3, <2>4, <2>5, <2>6, <2>8, NoJobStands, WriteStep
<1> QED
  BY <1>2, <1>3

\* The account is verified for the address its OTP proved.
LEMMA MarkVerifiedStep ==
  ASSUME IInv, NEW r \in Req, MarkVerified(r)
  PROVE  IInv'
<1> DEFINE u == job[r].user
<1>1. /\ job[r] \in Job /\ job[r].pc = "mark"
      /\ Stands(job[r], email, verified, proven, raced)
      /\ Written(r, u, {IdKey(u)})
      /\ verified' = verified \cup {u} /\ accOtp' = [accOtp EXCEPT ![u] = None]
      /\ UNCHANGED <<email, pending, pendOtp, fresh, l1, l2, fill, otps, proven, movedBy>>
  BY DEF MarkVerified, IInv, Types, JobInv, change, cache
<1>2. /\ u \in User /\ email[u] # None /\ (u \in verified \/ <<u, email[u]>> \in proven)
      /\ job[r].node # None /\ job[r].user = u
  BY <1>1, NoneIsNothing DEF Job, Stands
<1> HIDE DEF u
<1>3. PICK q \in Job :
        /\ job' = [job EXCEPT ![r] = q] /\ job' \in [Req -> Job]
        /\ q.pc = "evict" /\ q.user = u /\ q.node = job[r].node
        /\ raced \subseteq raced' /\ raced' \subseteq User
  <2>1. {IdKey(u)} \in SUBSET CacheKey
    BY <1>2, KeysAreKeys
  <2> QED
    BY <1>1, <1>2, <2>1, WrittenGoesOn DEF IInv
<1>4. /\ accOtp' \in [User -> Email \cup {None}]
      /\ \A w \in User \ {u} : accOtp'[w] = accOtp[w]
  BY <1>1 DEF IInv, Types
<1>5. Types'
  BY <1>1, <1>2, <1>3, <1>4 DEF IInv, Types
<1>6. Unique'
  BY <1>1 DEF IInv, Unique
<1>7. UserInv'
  BY <1>1, <1>2, <1>4 DEF IInv, UserInv
<1> QED
  BY <1>1, <1>2, <1>3, <1>5, <1>6, <1>7, WriteStep DEF cache

\* A new OTP of an account that is not verified goes to its address.
LEMMA ResendStep ==
  ASSUME IInv, NEW r \in Req, Resend(r)
  PROVE  IInv'
<1> DEFINE u == job[r].user
           e == job[r].email
<1>1. /\ job[r] \in Job /\ job[r].pc = "resend"
      /\ Stands(job[r], email, verified, proven, raced)
      /\ Written(r, u, KeysOf(u))
      /\ accOtp' = [accOtp EXCEPT ![u] = e] /\ Mail
      /\ UNCHANGED <<email, verified, pending, pendOtp, fresh, l1, l2, fill, proven, movedBy>>
  BY DEF Resend, IInv, Types, JobInv, change, cache
<1>2. /\ u \in User /\ email[u] # None /\ e \in Email /\ (u \in verified \/ e = email[u])
      /\ job[r].node # None /\ job[r].user = u
  BY <1>1, NoneIsNothing DEF Job, Stands
<1> HIDE DEF u, e
<1>3. PICK q \in Job :
        /\ job' = [job EXCEPT ![r] = q] /\ job' \in [Req -> Job]
        /\ q.pc = "evict" /\ q.user = u /\ q.node = job[r].node
        /\ raced \subseteq raced' /\ raced' \subseteq User
  <2>1. email[u] \in Email
    BY <1>2 DEF IInv, Types
  <2>2. KeysOf(u) \in SUBSET CacheKey
    BY <1>2, <2>1, KeysAreKeys DEF KeysOf
  <2> QED
    BY <1>1, <1>2, <2>2, WrittenGoesOn DEF IInv
<1>4. /\ accOtp' \in [User -> Email \cup {None}] /\ accOtp'[u] = e
      /\ \A w \in User \ {u} : accOtp'[w] = accOtp[w]
  BY <1>1, <1>2 DEF IInv, Types
<1>5. Types'
  BY <1>1, <1>2, <1>3, <1>4, MailCounts DEF IInv, Types
<1>6. Unique'
  BY <1>1 DEF IInv, Unique
<1>7. UserInv'
  BY <1>1, <1>2, <1>4 DEF IInv, UserInv
<1> QED
  BY <1>1, <1>2, <1>3, <1>5, <1>6, <1>7, WriteStep DEF cache

\* An address is pending for one account at a time.
LEMMA SetPendingStep ==
  ASSUME IInv, NEW r \in Req, SetPending(r)
  PROVE  IInv'
<1> DEFINE u == job[r].user
           e == job[r].email
<1>1. /\ job[r] \in Job /\ job[r].pc = "setPending"
      /\ Stands(job[r], email, verified, proven, raced)
      /\ UNCHANGED <<email, verified, accOtp, cache, proven, movedBy>>
  BY DEF SetPending, IInv, Types, JobInv
<1>2. /\ u \in User /\ u \in verified /\ email[u] \in Email /\ e \in Email
      /\ job[r].node # None
  BY <1>1, NoneIsNothing DEF Job, Stands, IInv, Types
<1>3. CASE \E w \in User \ {u} : pending[w] = e
  <2>1. UNCHANGED <<row, otps>> /\ Finish(r)
    BY <1>1, <1>3 DEF SetPending, row
  <2> QED
    BY <1>1, <2>1, EndStep
<1>4. CASE ~\E w \in User \ {u} : pending[w] = e
  <2>1. /\ pending' = [pending EXCEPT ![u] = e] /\ pendOtp' = [pendOtp EXCEPT ![u] = e]
        /\ fresh' = fresh \cup {u} /\ Written(r, u, KeysOf(u)) /\ Mail
    BY <1>4 DEF SetPending
  <2>2. UNCHANGED <<l1, l2, fill>> /\ job[r].user = u
    BY <1>1 DEF cache
  <2>3. \A w \in User \ {u} : pending[w] # e
    BY <1>4
  <2> HIDE DEF u, e
  <2>4. KeysOf(u) \in SUBSET CacheKey
    BY <1>2, KeysAreKeys DEF KeysOf
  <2>5. PICK q \in Job :
          /\ job' = [job EXCEPT ![r] = q] /\ job' \in [Req -> Job]
          /\ q.pc = "evict" /\ q.user = u /\ q.node = job[r].node
          /\ raced \subseteq raced' /\ raced' \subseteq User
    BY <1>2, <2>1, <2>4, WrittenGoesOn DEF IInv
  <2>6. /\ pending' \in [User -> Email \cup {None}] /\ pending'[u] = e
        /\ pendOtp' \in [User -> Email \cup {None}] /\ pendOtp'[u] = e
        /\ \A w \in User \ {u} : pending'[w] = pending[w] /\ pendOtp'[w] = pendOtp[w]
    BY <1>2, <2>1 DEF IInv, Types
  <2>7. Types'
    <3>1. fresh' \subseteq {w \in User : pendOtp'[w] # None}
      BY <1>2, <2>1, <2>6, NoneIsNothing DEF IInv, Types
    <3> QED
      BY <1>1, <2>1, <2>2, <2>5, <2>6, <3>1, MailCounts DEF IInv, Types
  <2>8. Unique'
    BY <1>1, <2>3, <2>6 DEF IInv, Unique
  <2>9. UserInv'
    BY <1>1, <1>2, <2>6 DEF IInv, UserInv
  <2> QED
    BY <1>1, <1>2, <2>2, <2>5, <2>7, <2>8, <2>9, NoneIsNothing, WriteStep
<1> QED
  BY <1>3, <1>4

\* The address that was proven becomes the account's, unless another account has it; the
\* entries of the old one and of the new are going to be invalidated.
LEMMA CommitStep ==
  ASSUME IInv, NEW r \in Req, Commit(r)
  PROVE  IInv'
<1> DEFINE u == job[r].user
           e == job[r].email
           K == ChangedKeys(r)
<1>1. /\ job[r] \in Job /\ job[r].pc = "commit"
      /\ Stands(job[r], email, verified, proven, raced)
      /\ UNCHANGED <<verified, accOtp, cache, otps, proven>>
  BY DEF Commit, IInv, Types, JobInv
<1>2. /\ u \in User /\ u \in verified /\ email[u] \in Email /\ e \in Email
      /\ <<u, e>> \in proven /\ (u \in raced \/ job[r].seen = email[u])
      /\ job[r].node \in Node
  BY <1>1, NoneIsNothing DEF Job, Stands, IInv, Types
<1>3. CASE \E w \in User \ {u} : email[w] = e
  <2>1. UNCHANGED <<row, movedBy>> /\ Finish(r)
    BY <1>1, <1>3 DEF Commit, row, change
  <2> QED
    BY <1>1, <2>1, EndStep
<1>4. CASE ~\E w \in User \ {u} : email[w] = e
  <2>1. /\ email' = [email EXCEPT ![u] = e] /\ pending' = [pending EXCEPT ![u] = None]
        /\ pendOtp' = [pendOtp EXCEPT ![u] = None] /\ fresh' = fresh \ {u}
        /\ movedBy' = [movedBy EXCEPT ![u] = job[r].node]
        /\ Written(r, u, K)
    BY <1>4 DEF Commit, Move
  <2>2. UNCHANGED <<l1, l2, fill>>
    BY <1>1 DEF cache
  <2>3. \A w \in User \ {u} : email[w] # e
    BY <1>4
  <2>4. /\ job[r].user = u /\ K \in SUBSET CacheKey /\ IdKey(u) \in K
        /\ u \in raced \/ EmailKey(email[u]) \in K
    <3>1. job[r].seen \in Email \cup {None}
      BY <1>1 DEF Job
    <3> QED
      BY <1>2, <3>1, KeysAreKeys, NoneIsNothing DEF ChangedKeys
  <2> HIDE DEF u, e, K
  <2>5. PICK q \in Job :
          /\ job' = [job EXCEPT ![r] = q] /\ job' \in [Req -> Job]
          /\ q.pc = "evict" /\ q.user = u /\ q.node = job[r].node /\ q.keys = K
          /\ raced \subseteq raced' /\ raced' \subseteq User
          /\ u \notin raced' => \A n \in Node : \A f \in fill[n] : f.entry.user # u
    BY <1>2, <2>1, <2>4, WrittenGoesOn DEF IInv
  <2>6. /\ email' \in [User -> Email \cup {None}] /\ email'[u] = e
        /\ pending' \in [User -> Email \cup {None}] /\ pending'[u] = None
        /\ pendOtp' \in [User -> Email \cup {None}] /\ pendOtp'[u] = None
        /\ movedBy' \in [User -> Node \cup {None}] /\ movedBy'[u] = q.node
        /\ \A w \in User \ {u} : /\ email'[w] = email[w] /\ pending'[w] = pending[w]
                                 /\ pendOtp'[w] = pendOtp[w] /\ movedBy'[w] = movedBy[w]
    BY <1>2, <2>1, <2>5 DEF IInv, Types
  <2>7. Types'
    <3>1. /\ fresh' \subseteq {w \in User : pendOtp'[w] # None}
          /\ verified' \subseteq {w \in User : email'[w] # None}
      BY <1>1, <1>2, <2>1, <2>6, NoneIsNothing DEF IInv, Types
    <3> QED
      BY <1>1, <2>2, <2>5, <2>6, <3>1 DEF IInv, Types
  <2>8. Unique'
    BY <2>3, <2>6 DEF IInv, Unique
  <2>9. UserInv'
    BY <1>1, <1>2, <2>6 DEF IInv, UserInv
  <2>10. /\ job[r].pc # "evict" /\ q.node # None
         /\ UNCHANGED <<cache, proven>> /\ verified \subseteq verified'
    BY <1>1, <1>2, <2>5, NoneIsNothing
  <2>11. \A w \in User \ {u} : email'[w] = email[w] /\ movedBy'[w] = movedBy[w]
    BY <2>6
  <2>12. /\ u \in verified /\ q.pc = "evict" /\ movedBy'[u] = q.node
         /\ u \notin raced' => /\ \A n \in Node : \A f \in fill[n] : f.entry.user # u
                               /\ IdKey(u) \in q.keys /\ EmailKey(email[u]) \in q.keys
    BY <1>2, <2>4, <2>5, <2>6
  <2>13. job[r].user = u /\ email'[u] # None
    BY <1>2, <2>4, <2>6, NoneIsNothing
  <2> QED
    BY <1>2, <2>5, <2>7, <2>8, <2>9, <2>10, <2>11, <2>12, <2>13, WriteStep
<1> QED
  BY <1>3, <1>4

\* A request that invalidates does so for a user, in a process.
LEMMA EvictingFields ==
  ASSUME IInv, NEW r \in Req, job[r].pc = "evict"
  PROVE  job[r].user \in User /\ job[r].node \in Node /\ job[r].keys \in SUBSET CacheKey
<1>1. job[r] \in Job /\ Stands(job[r], email, verified, proven, raced)
  BY DEF IInv, Types, JobInv
<1>2. job[r].user # None /\ job[r].node # None
  BY <1>1 DEF Stands
<1> QED
  BY <1>1, <1>2 DEF Job

\* What is left in the L1 of the process, and in L2 if every DEL was done, was not going
\* to be invalidated by this request; if a DEL failed the user has raced.
LEMMA InvalidateStep ==
  ASSUME IInv, NEW r \in Req, Invalidate(r)
  PROVE  IInv'
<1> DEFINE u == job[r].user
           m == job[r].node
           K == job[r].keys
<1>1. PICK D \in SUBSET K :
        /\ l2' = Without(l2, D)
        /\ raced' = IF D = K THEN raced ELSE raced \cup {u}
  BY DEF Invalidate
<1>2. /\ UNCHANGED <<email, verified, accOtp, pending, pendOtp, fresh, fill, otps, proven,
                     movedBy>>
      /\ job[r].pc = "evict" /\ job' = [job EXCEPT ![r] = NoJob]
      /\ l1' = [l1 EXCEPT ![m] = Without(@, K)]
  BY DEF Invalidate, row, change
<1>3. u \in User /\ m \in Node
  BY <1>2, EvictingFields
<1>4. raced \subseteq raced' /\ raced' \subseteq User /\ (u \notin raced' => D = K)
  BY <1>1, <1>3 DEF IInv, Types
<1>5. /\ job' \in [Req -> Job] /\ job'[r] = NoJob
      /\ \A s \in Req \ {r} : job'[s] = job[s]
  BY <1>2, NoJobStands DEF IInv, Types
<1>6. /\ l1' \in [Node -> SUBSET Entry] /\ \A n \in Node : l1'[n] \subseteq l1[n]
      /\ l2' \subseteq l2
      /\ \A x \in l1'[m] : x.key \notin K
      /\ \A x \in l2' : x.key \notin D
  BY <1>1, <1>2, <1>3 DEF Without, IInv, Types
<1>7. Types'
  <2>1. OnePerKey(l2') /\ \A n \in Node : OnePerKey(l1'[n])
    BY <1>6, LessKeepsKeys DEF IInv, Types
  <2> QED
    BY <1>2, <1>4, <1>5, <1>6, <2>1 DEF IInv, Types
<1>8. Unique' /\ UserInv'
  BY <1>2 DEF IInv, Unique, UserInv
<1>9. JobInv'
  <2>1. ASSUME NEW s \in Req
        PROVE  Stands(job'[s], email, verified, proven, raced')
    BY <1>4, <1>5, NoJobStands, StillStands DEF IInv, JobInv
  <2> QED
    BY <1>2, <2>1 DEF JobInv
<1>10. SerialInv'
  BY <1>4, <1>5, NoJobStands, NoneIsNothing DEF IInv, SerialInv
<1>11. \A x : (Sound(x) => Sound(x)') /\ (Current(x) => Current(x)')
  BY <1>2, <1>4 DEF Sound, Current
<1>12. CacheInv'
  BY <1>2, <1>6, <1>11 DEF IInv, CacheInv
<1>13. FreshInv'
  <2>1. ASSUME NEW x \in l2'
        PROVE  Current(x)' \/ \E s \in Req : Owes(s, x)'
    <3>1. CASE Current(x)
      BY <1>11, <3>1
    <3>2. CASE \E s \in Req \ {r} : Owes(s, x)
      BY <1>5, <3>2 DEF Owes
    <3>3. CASE Owes(r, x)
      BY <1>4, <1>6, <3>3 DEF Owes, Current
    <3> QED
      BY <1>6, <2>1, <3>1, <3>2, <3>3 DEF IInv, FreshInv
  <2>2. \A n \in Node : \A f \in fill'[n] : Current(f.entry)'
    BY <1>2, <1>11 DEF IInv, FreshInv
  <2>3. ASSUME NEW n \in Node, NEW x \in l1'[n], movedBy'[x.user] \in {n, None}
        PROVE  Current(x)' \/ \E s \in Req : Owes(s, x)' /\ job'[s].node = n
    <3>1. Current(x) \/ \E s \in Req : Owes(s, x) /\ job[s].node = n
      BY <1>2, <1>6, <2>3 DEF IInv, FreshInv
    <3>2. ~(Owes(r, x) /\ job[r].node = n)
      BY <1>6, <2>3 DEF Owes
    <3> QED
      BY <1>5, <1>11, <3>1, <3>2 DEF Owes
  <2>4. ASSUME NEW n \in Node, NEW x \in l1'[n], NEW s \in Req, Reads(s, n, x)'
        PROVE  Current(x)'
    <3>1. x \in l1[n] /\ x.user \in User
      BY <1>6, <2>4, EntryFields
    <3>2. s # r
      BY <1>5, <2>4, <3>1, NoJobStands, NoneIsNothing DEF Reads
    <3>3. Reads(s, n, x)
      BY <1>5, <2>4, <3>2 DEF Reads
    <3> QED
      BY <1>11, <3>1, <3>3 DEF IInv, FreshInv
  <2> QED
    BY <2>1, <2>2, <2>3, <2>4 DEF FreshInv
<1> QED
  BY <1>7, <1>8, <1>9, <1>10, <1>12, <1>13 DEF IInv
-----------------------------------------------------------------------------
(* Time and failures *)

\* A pending change whose time is over.
LEMMA ExpirePendingStep ==
  ASSUME IInv, NEW u \in User, ExpirePending(u)
  PROVE  IInv'
<1>1. /\ UNCHANGED <<email, verified, accOtp, pending, pendOtp, l1, l2, fill, job,
                     otps, proven, movedBy, raced>>
      /\ fresh' \subseteq fresh
  BY DEF ExpirePending, cache, history
<1>2. Types' /\ Unique' /\ UserInv'
  BY <1>1 DEF IInv, Types, Unique, UserInv
<1>3. JobInv' /\ SerialInv' /\ CacheInv'
  BY <1>1 DEF IInv, JobInv, SerialInv, CacheInv, Sound
<1>4. FreshInv'
  BY <1>1 DEF IInv, FreshInv, Current, Owes, Reads
<1> QED
  BY <1>2, <1>3, <1>4 DEF IInv

\* A request that fails is over; its invalidations are lost.
LEMMA FailStep ==
  ASSUME IInv, NEW r \in Req, Fail(r)
  PROVE  IInv'
<1>1. /\ UNCHANGED <<row, l1, l2, fill, otps, proven, movedBy>> /\ Types
      /\ job' = [job EXCEPT ![r] = NoJob]
      /\ raced' = IF job[r].pc = "evict" THEN raced \cup {job[r].user} ELSE raced
  BY DEF Fail, cache, IInv
<1>2. /\ job' \in [Req -> Job] /\ job'[r] = NoJob
      /\ \A s \in Req \ {r} : job'[s] = job[s]
  BY <1>1, NoJobStands DEF Types
<1>3. raced \subseteq raced' /\ raced' \subseteq User
  BY <1>1, EvictingFields DEF Types
<1>4. \A s \in Req : job[s].pc = "evict" => job'[s] = job[s] \/ job[s].user \in raced'
  BY <1>1, <1>2
<1>5. \A s \in Req : job'[s] = job[s] \/ job'[s] = NoJob
  BY <1>2
<1> QED
  BY <1>1, <1>2, <1>3, <1>4, <1>5, VanishStep DEF Types

\* So are the requests of a process that dies.
LEMMA RestartStep ==
  ASSUME IInv, NEW n \in Node, Restart(n)
  PROVE  IInv'
<1>1. /\ UNCHANGED <<row, l2, otps, proven, movedBy>> /\ Types
      /\ l1' = [l1 EXCEPT ![n] = {}] /\ fill' = [fill EXCEPT ![n] = {}]
      /\ job' = [r \in Req |-> IF job[r].node = n THEN NoJob ELSE job[r]]
      /\ raced' = raced \cup {u \in User : \E r \in Req :
                    job[r].node = n /\ job[r].user = u /\ job[r].pc = "evict"}
  BY DEF Restart, IInv
<1>2. /\ job' \in [Req -> Job]
      /\ \A s \in Req : job'[s] = job[s] \/ (job'[s] = NoJob /\ job[s].node = n)
  BY <1>1, NoJobStands DEF Types
<1>3. raced \subseteq raced' /\ raced' \subseteq User
  BY <1>1 DEF Types
<1>4. \A s \in Req : job[s].pc = "evict" => job'[s] = job[s] \/ job[s].user \in raced'
  BY <1>1, <1>2, EvictingFields
<1>5. /\ l1' \in [Node -> SUBSET Entry] /\ \A m \in Node : l1'[m] \subseteq l1[m]
      /\ fill' \in [Node -> SUBSET Fill] /\ \A m \in Node : fill'[m] \subseteq fill[m]
  BY <1>1 DEF Types
<1> QED
  BY <1>1, <1>2, <1>3, <1>4, <1>5, VanishStep
-----------------------------------------------------------------------------
(* The theorems *)

\* There are no accounts, and the caches are empty.
LEMMA InitIsRight ==
  Init => IInv
<1> SUFFICES ASSUME Init PROVE IInv
  OBVIOUS
<1>1. Types
  BY NoJobStands, AccountsAssumption DEF Init, Types, OnePerKey
<1>2. Unique /\ UserInv
  BY DEF Init, Unique, UserInv
<1>3. JobInv /\ SerialInv
  BY NoJobStands, NoneIsNothing DEF Init, JobInv, SerialInv
<1>4. CacheInv /\ FreshInv
  BY DEF Init, CacheInv, FreshInv
<1> QED
  BY <1>1, <1>2, <1>3, <1>4 DEF IInv

\* Every step keeps what is known of accounts, requests and caches.
LEMMA NextIsRight ==
  IInv /\ [Next]_vars => IInv'
<1> SUFFICES ASSUME IInv, [Next]_vars PROVE IInv'
  OBVIOUS
<1>1. ASSUME NEW r \in Req, NEW n \in Node, NEW e \in Email, FindUnverified(r, n, e)
      PROVE  IInv'
  BY <1>1, FindUnverifiedStep
<1>2. ASSUME NEW r \in Req, NEW n \in Node, NEW u \in User,
             \/ VerifyAccount(r, n, u) \/ ChangeEmailVerify(r, n, u)
             \/ \E e \in Email : ChangeEmailInitiate(r, n, u, e)
      PROVE  IInv'
  BY <1>2, VerifyAccountStep, ChangeEmailVerifyStep, ChangeEmailInitiateStep
<1>3. ASSUME NEW r \in Req,
             \/ \E e \in Email : Register(r, e)
             \/ \E u \in User : Create(r, u)
             \/ MarkVerified(r) \/ Resend(r) \/ CheckTaken(r) \/ SetPending(r)
             \/ Before(r) \/ Commit(r) \/ Invalidate(r) \/ Fail(r)
      PROVE  IInv'
  BY <1>3, RegisterStep, CreateStep, MarkVerifiedStep, ResendStep, CheckTakenStep,
     SetPendingStep, BeforeStep, CommitStep, InvalidateStep, FailStep
<1>4. ASSUME NEW u \in User, ExpirePending(u)
      PROVE  IInv'
  BY <1>4, ExpirePendingStep
<1>5. ASSUME NEW n \in Node,
             \/ \E k \in CacheKey : Find(n, k)
             \/ \E f \in fill[n] : StoreL2(n, f) \/ StoreL1(n, f)
             \/ \E x \in l1[n] : ExpireL1(n, x)
             \/ Restart(n)
      PROVE  IInv'
  BY <1>5, FindStep, StoreL2Step, StoreL1Step, ExpireStep, RestartStep
<1>6. ASSUME NEW x \in l2, ExpireL2(x)
      PROVE  IInv'
  BY <1>6, ExpireStep
<1>7. CASE UNCHANGED vars
  <2>1. UNCHANGED <<row, job, otps, proven, movedBy, raced, l1, l2, fill>> /\ Types
    BY <1>7 DEF vars, row, change, IInv
  <2> QED
    BY <2>1, CacheStep DEF Types
<1> QED
  BY <1>1, <1>2, <1>3, <1>4, <1>5, <1>6, <1>7 DEF Next

\* Accounts, requests and caches agree in every reachable state: what L2 has of a user who
\* had no race is the account's address or is going to be invalidated there; so is what
\* the process has in L1 that changed the address last; a request at work reads nothing
\* old, and no fill is going to store an old row.
THEOREM Inductive == Spec => []IInv
<1> QED
  BY InitIsRight, NextIsRight, PTL DEF Spec

\* The columns, the caches and the requests have their types, a verified account has an
\* address, and no two accounts share one or wait for the same.
THEOREM TypeCorrect == Spec => []TypeOK
<1>1. IInv => TypeOK
  BY TypeOKParts DEF IInv
<1> QED
  BY <1>1, Inductive, PTL

\* However the requests that start, repeat and complete changes of address interleave, a
\* verified account only ever has an address that an OTP mailed there has proven for it.
THEOREM ProvenAddress == Spec => []AddressIsProven
<1>1. IInv => AddressIsProven
  BY DEF IInv, Types, UserInv, AddressIsProven
<1> QED
  BY <1>1, Inductive, PTL

\* The invalidations of UserDAO's writes are enough for one request per user at a time that
\* no fill overlaps: once they are done, what is in L2, in a fill, and in L1 of the process
\* that changed the address last, has the account's address.
THEOREM CurrentAddress == Spec => []AddressIsCurrentWhenSerial
<1>1. SUFFICES IInv => AddressIsCurrentWhenSerial
  BY <1>1, Inductive, PTL
<1>2. SUFFICES ASSUME IInv PROVE AddressIsCurrentWhenSerial
  OBVIOUS
<1>3. ASSUME NEW x, Settled(x.user)
      PROVE  /\ \A r \in Req : ~ Owes(r, x)
             /\ Current(x) => email[x.user] = x.email
  BY <1>3 DEF Settled, Evicting, Owes, Current
<1>4. \A x \in l2 : Settled(x.user) => email[x.user] = x.email
  BY <1>2, <1>3 DEF IInv, FreshInv
<1>5. \A n \in Node : \A f \in fill[n] :
        Settled(f.entry.user) => email[f.entry.user] = f.entry.email
  BY <1>2, <1>3 DEF IInv, FreshInv
<1>6. \A n \in Node : \A x \in l1[n] :
        movedBy[x.user] \in {n, None} => (Settled(x.user) => email[x.user] = x.email)
  BY <1>2, <1>3 DEF IInv, FreshInv
<1> QED
  BY <1>4, <1>5, <1>6 DEF AddressIsCurrentWhenSerial
=============================================================================
