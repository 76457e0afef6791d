--------------------------- MODULE SessionsProofs ---------------------------
(***************************************************************************)
(* Proofs about Sessions, for any number of users, sessions and requests.  *)
(*                                                                         *)
(* DeadStaysDead is not inductive: one has to know that a key which some   *)
(* in-flight login or refresh is still going to SET was never in Redis     *)
(* before, so that neither a logout nor the snapshot of a logout-all can   *)
(* have counted it, and that a SCAN pass owes or already holds every key   *)
(* of the snapshot that is still there.                                    *)
(*                                                                         *)
(* A second invariant on top of it is about families, the sessions that    *)
(* descend from one login: which of their refresh tokens Redis accepts,    *)
(* and which of these the client has or is about to get.                   *)
(***************************************************************************)
EXTENDS Sessions, TLAPS

\* Request r has minted a session and has not answered yet.
Minting(r) == job[r].pc \in {"setAccess", "setRefresh", "delOld", "respond"}

\* Key k was never in Redis, so no logout or scan ever saw it.
Unwritten(k) ==
  /\ k \notin store
  /\ k \notin dead
  /\ \A q \in Req : k \notin job[q].snapshot /\ k \notin job[q].batch

\* A session being minted belongs to one request and is unknown to the client.
MintInv ==
  \A r \in Req : Minting(r) =>
    /\ job[r].new \in Sid
    /\ owner[job[r].new] # NoUser
    /\ job[r].new \notin known
    /\ \A q \in Req : q # r /\ Minting(q) => job[q].new # job[r].new

\* The keys a request is about to SET were never in Redis.
PendingInv ==
  \A r \in Req :
    /\ job[r].pc = "setAccess" => Unwritten(<<"access", job[r].new>>)
    /\ job[r].pc \in {"setAccess", "setRefresh"} => Unwritten(<<"refresh", job[r].new>>)

\* A session that was minted belongs to a family.
RootInv == \A s \in Sid : owner[s] # NoUser => root[s] \in Sid

\* A session id that was not generated yet left no trace.
FreshInv ==
  \A s \in Sid : owner[s] = NoUser =>
    /\ s \notin known
    /\ Unwritten(<<"access", s>>)
    /\ Unwritten(<<"refresh", s>>)

\* A request past the guard presented a session the client was given.
GuardInv ==
  \A r \in Req :
    job[r].pc \in {"validate", "logout", "begin", "scan", "del"} => job[r].old \in known

\* How far a logout-all has got with the keys it found at its start.
ScanInv ==
  \A r \in Req :
    /\ job[r].snapshot # {} => job[r].pc \in {"begin", "scan", "del"}
    /\ \A k \in job[r].snapshot : owner[k[2]] = Sub(r)
    /\ job[r].pass = "access" =>
         \A k \in job[r].snapshot \cap store :
           k[1] = "access" => k \in job[r].due \cup job[r].batch
    /\ job[r].pass = "refresh" =>
         \A k \in job[r].snapshot \cap store :
           /\ k[1] = "refresh"
           /\ job[r].pc \in {"scan", "del"} => k \in job[r].due \cup job[r].batch
    /\ job[r].pc # "del" => job[r].batch = {}

IInv ==
  /\ TypeOK
  /\ MintInv
  /\ PendingInv
  /\ RootInv
  /\ FreshInv
  /\ GuardInv
  /\ ScanInv
  /\ DeadStaysDead

-----------------------------------------------------------------------------
(* IInv is inductive *)

\* What a step of request r leaves alone.
Others(r)   == \A q \in Req \ {r} : job'[q] = job[q]
SameScan(r) == /\ job'[r].pass = job[r].pass /\ job'[r].due = job[r].due
               /\ job'[r].batch = job[r].batch /\ job'[r].snapshot = job[r].snapshot
SameJob(r)  == SameScan(r) /\ job'[r].old = job[r].old /\ job'[r].new = job[r].new

\* Request r starts in pc l, or goes on to it.
Moves(r, l) == Others(r) /\ SameJob(r) /\ job'[r].pc = l

\* Request r ends.
Ends(r) == /\ Others(r)
           /\ job'[r].pc = "idle" /\ job'[r].pass = "access"
           /\ job'[r].snapshot = {} /\ job'[r].batch = {}

\* The keys of a session, by kind.
LEMMA KeyFacts ==
  ASSUME NEW s \in Sid
  PROVE  /\ <<"access", s>> \in Key /\ <<"refresh", s>> \in Key
         /\ Pair(s) \subseteq Key
  BY DEF Key, Kind, Pair

\* A key is an access or a refresh key of its session.
LEMMA KeyShape ==
  ASSUME NEW k \in Key
  PROVE  /\ k[1] \in {"access", "refresh"} /\ k[2] \in Sid
         /\ k = <<"access", k[2]>> \/ k = <<"refresh", k[2]>>
  BY DEF Key, Kind

\* The records that the steps of a request write are jobs again.
LEMMA JobUpdates ==
  ASSUME NEW j \in Job, NEW l \in PC
  PROVE  /\ [j EXCEPT !.pc = l] \in Job /\ [j EXCEPT !.pc = l, !.ok = FALSE] \in Job
         /\ \A x \in Sid : /\ [j EXCEPT !.pc = l, !.old = x] \in Job
                           /\ [j EXCEPT !.pc = l, !.new = x] \in Job
         /\ \A x, y \in Sid : [j EXCEPT !.pc = l, !.old = x, !.new = y] \in Job
         /\ \A D, A \in SUBSET Key : /\ [j EXCEPT !.pc = l, !.due = D, !.snapshot = A] \in Job
                                    /\ [j EXCEPT !.pc = l, !.due = D, !.batch = A] \in Job
         /\ \A A \in SUBSET Key : [j EXCEPT !.pc = l, !.batch = A] \in Job
  BY DEF Job

\* Ids stay fresh in a step that leaves traces of minted sessions only.
LEMMA FreshKept ==
  ASSUME FreshInv,
         \A x \in Sid : owner'[x] = NoUser => owner[x] = NoUser,
         \A x \in known' : x \in known \/ owner[x] # NoUser,
         \A k : ~ Unwritten(k)' => ~ Unwritten(k) \/ owner[k[2]] # NoUser
  PROVE  FreshInv'
  BY DEF FreshInv

\* Only sessions that were minted have keys.
LEMMA KeysAreMinted ==
  ASSUME IInv
  PROVE  /\ \A k \in store \cup dead : k[2] \in Sid /\ owner[k[2]] # NoUser
         /\ \A q \in Req : \A k \in job[q].snapshot \cup job[q].batch :
              k[2] \in Sid /\ owner[k[2]] # NoUser
<1> USE DEF IInv
<1>1. store \subseteq Key /\ dead \subseteq Key /\ \A q \in Req : job[q].snapshot \cup job[q].batch \subseteq Key
  BY DEF TypeOK, Job
<1>2. ASSUME NEW k \in Key, owner[k[2]] = NoUser PROVE Unwritten(k)
  BY <1>2, KeyShape DEF FreshInv
<1> QED
  BY <1>1, <1>2, KeyShape DEF Unwritten

\* Every step of every request, and every expiry, preserves IInv.
THEOREM Inductive == IInv /\ [Next]_vars => IInv'
<1> SUFFICES ASSUME IInv, [Next]_vars PROVE IInv'
  OBVIOUS
<1> USE SessionsAssumption DEF IInv
<1>1. ASSUME NEW r \in Req, NEW u \in User, NEW s \in Sid, Login(r, u, s)
      PROVE  IInv'
  <2>1. /\ job[r].pc = "idle" /\ owner[s] = NoUser
        /\ Others(r) /\ SameScan(r)
        /\ job'[r].pc = "setAccess" /\ job'[r].new = s
        /\ owner'[s] = u /\ \A x \in Sid \ {s} : owner'[x] = owner[x]
        /\ root'[s] = s /\ \A x \in Sid \ {s} : root'[x] = root[x]
        /\ UNCHANGED <<store, stale, known, dead, raced, ended>>
    BY <1>1 DEF Login, Mint, Others, SameScan, TypeOK, Job
  <2>2. TypeOK'
    <3>1. job' \in [Req -> Job]
      <4>1. [job[r] EXCEPT !.pc = "setAccess", !.new = s] \in Job
        BY JobUpdates DEF TypeOK, PC
      <4>2. job' = [job EXCEPT ![r] = [job[r] EXCEPT !.pc = "setAccess", !.new = s]]
        BY <1>1 DEF Login
      <4> QED
        BY <4>1, <4>2 DEF TypeOK
    <3> QED
      BY <1>1, <2>1, <3>1, KeyFacts, KeysAreMinted DEF Login, Mint, TypeOK, RootInv, FreshInv, GuardInv, MintInv, Minting
  <2>3. MintInv'
    <3>1. s \notin known /\ owner'[s] # NoUser
      BY <2>1 DEF FreshInv, TypeOK
    <3>2. ASSUME NEW q \in Req, q # r, Minting(q)'
          PROVE  /\ job'[q] = job[q] /\ job[q].new \in Sid /\ job[q].new # s
                 /\ owner'[job[q].new] # NoUser /\ job[q].new \notin known
                 /\ \A x \in Req : x # q /\ x # r /\ Minting(x)' => job'[x].new # job[q].new
      BY <2>1, <3>2 DEF MintInv, Minting, Others
    <3> QED
      BY <2>1, <3>1, <3>2 DEF MintInv, Minting
  <2>4. PendingInv'
    BY <2>1 DEF Others, SameScan, MintInv, Minting, PendingInv, FreshInv, GuardInv, Unwritten, Pair
  <2>5. RootInv'
    BY <2>1 DEF Others, SameScan, TypeOK, RootInv, FreshInv
  <2>6. FreshInv'
    <3>2. \A k : ~ Unwritten(k)' => ~ Unwritten(k) \/ owner[k[2]] # NoUser
      BY <2>1 DEF Unwritten, Others, SameScan
    <3> QED
      BY <2>1, <3>2, FreshKept
  <2>7. GuardInv'
    BY <2>1 DEF Others, SameScan, GuardInv
  <2>8. ScanInv'
    BY <2>1, KeysAreMinted DEF Others, SameScan, TypeOK, ScanInv, Sub, GuardInv, FreshInv, PendingInv, Unwritten, MintInv, Minting
  <2>9. DeadStaysDead'
    BY <2>1 DEF Others, SameScan, DeadStaysDead, PendingInv, Unwritten, ScanInv
  <2> QED
    BY <2>2, <2>3, <2>4, <2>5, <2>6, <2>7, <2>8, <2>9
<1>2. ASSUME NEW r \in Req, NEW p \in Sid, NEW s \in Sid, Refresh(r, p, s)
      PROVE  IInv'
  <2>1. /\ job[r].pc = "idle" /\ owner[s] = NoUser /\ p \in known
        /\ Others(r) /\ SameScan(r)
        /\ job'[r].pc = "setAccess" /\ job'[r].new = s
        /\ owner'[s] = owner[p] /\ \A x \in Sid \ {s} : owner'[x] = owner[x]
        /\ root'[s] = root[p] /\ \A x \in Sid \ {s} : root'[x] = root[x]
        /\ raced' \subseteq raced \cup {root[p]}
        /\ UNCHANGED <<store, stale, known, dead, ended>>
    BY <1>2 DEF Refresh, Mint, Others, SameScan, TypeOK, Job
  <2>2. TypeOK'
    <3>1. job' \in [Req -> Job]
      <4>1. [job[r] EXCEPT !.pc = "setAccess", !.old = p, !.new = s] \in Job
        BY JobUpdates DEF TypeOK, PC
      <4>2. job' = [job EXCEPT ![r] = [job[r] EXCEPT !.pc = "setAccess", !.old = p, !.new = s]]
        BY <1>2 DEF Refresh
      <4> QED
        BY <4>1, <4>2 DEF TypeOK
    <3> QED
      BY <1>2, <2>1, <3>1, KeyFacts, KeysAreMinted DEF Refresh, Mint, TypeOK, RootInv, FreshInv, GuardInv, MintInv, Minting
  <2>3. MintInv'
    <3>1. s \notin known /\ owner'[s] # NoUser
      BY <2>1 DEF FreshInv, TypeOK
    <3>2. ASSUME NEW q \in Req, q # r, Minting(q)'
          PROVE  /\ job'[q] = job[q] /\ job[q].new \in Sid /\ job[q].new # s
                 /\ owner'[job[q].new] # NoUser /\ job[q].new \notin known
                 /\ \A x \in Req : x # q /\ x # r /\ Minting(x)' => job'[x].new # job[q].new
      BY <2>1, <3>2 DEF MintInv, Minting, Others
    <3> QED
      BY <2>1, <3>1, <3>2 DEF MintInv, Minting
  <2>4. PendingInv'
    BY <2>1 DEF Others, SameScan, MintInv, Minting, PendingInv, FreshInv, GuardInv, Unwritten, Pair
  <2>5. RootInv'
    BY <2>1 DEF Others, SameScan, TypeOK, RootInv, FreshInv
  <2>6. FreshInv'
    <3>1. owner[p] # NoUser
      BY <2>1 DEF FreshInv
    <3>2. \A k : ~ Unwritten(k)' => ~ Unwritten(k) \/ owner[k[2]] # NoUser
      BY <2>1 DEF Unwritten, Others, SameScan
    <3> QED
      BY <2>1, <3>1, <3>2, FreshKept
  <2>7. GuardInv'
    BY <2>1 DEF Others, SameScan, GuardInv
  <2>8. ScanInv'
    <3>1. job[r].snapshot = {} /\ job'[r].snapshot = {}
      BY <2>1 DEF ScanInv, SameScan
    <3>2. ASSUME NEW q \in Req, q # r, job[q].snapshot # {}
          PROVE  /\ job[q].old \in known /\ owner[job[q].old] # NoUser
                 /\ \A k \in job[q].snapshot : owner'[k[2]] = owner[k[2]]
                 /\ owner'[job[q].old] = owner[job[q].old]
      <4>1. job[q].old \in known /\ owner[job[q].old] # NoUser
        BY <3>2 DEF ScanInv, GuardInv, FreshInv, TypeOK
      <4>2. \A k \in job[q].snapshot : owner[k[2]] # NoUser /\ k[2] \in Sid
        BY KeysAreMinted
      <4> QED
        BY <2>1, <4>1, <4>2 DEF TypeOK
    <3> QED
      BY <2>1, <3>1, <3>2 DEF ScanInv, Sub, Others, SameScan
  <2>9. DeadStaysDead'
    BY <2>1 DEF Others, SameScan, DeadStaysDead, PendingInv, Unwritten, ScanInv
  <2> QED
    BY <2>2, <2>3, <2>4, <2>5, <2>6, <2>7, <2>8, <2>9
<1>3. ASSUME NEW r \in Req, NEW p \in Sid, RefreshExpired(r, p)
      PROVE  IInv'
  <2>1. /\ job[r].pc = "idle"
        /\ Others(r) /\ SameScan(r)
        /\ job'[r].pc = "purge"
        /\ UNCHANGED <<store, stale, owner, root, known, dead, raced, ended>>
    BY <1>3 DEF RefreshExpired, Others, SameScan, TypeOK, Job
  <2>2. TypeOK'
    <3>1. job' \in [Req -> Job]
      <4>1. [job[r] EXCEPT !.pc = "purge", !.old = p] \in Job
        BY JobUpdates DEF TypeOK, PC
      <4>2. job' = [job EXCEPT ![r] = [job[r] EXCEPT !.pc = "purge", !.old = p]]
        BY <1>3 DEF RefreshExpired
      <4> QED
        BY <4>1, <4>2 DEF TypeOK
    <3> QED
      BY <1>3, <2>1, <3>1, KeyFacts, KeysAreMinted DEF RefreshExpired, TypeOK, RootInv, FreshInv, GuardInv, MintInv, Minting
  <2>3. MintInv'
    BY <2>1 DEF Others, SameScan, MintInv, Minting, FreshInv, GuardInv, TypeOK
  <2>4. PendingInv'
    BY <2>1 DEF Others, SameScan, MintInv, Minting, PendingInv, FreshInv, GuardInv, Unwritten, Pair
  <2>5. RootInv'
    BY <2>1 DEF Others, SameScan, TypeOK, RootInv, FreshInv
  <2>6. FreshInv'
    <3>2. \A k : ~ Unwritten(k)' => ~ Unwritten(k) \/ owner[k[2]] # NoUser
      BY <2>1 DEF Unwritten, Others, SameScan
    <3> QED
      BY <2>1, <3>2, FreshKept
  <2>7. GuardInv'
    BY <2>1 DEF Others, SameScan, GuardInv
  <2>8. ScanInv'
    BY <2>1, KeysAreMinted DEF Others, SameScan, TypeOK, ScanInv, Sub, GuardInv, FreshInv, PendingInv, Unwritten, MintInv, Minting
  <2>9. DeadStaysDead'
    BY <2>1 DEF Others, SameScan, DeadStaysDead, PendingInv, Unwritten, ScanInv
  <2> QED
    BY <2>2, <2>3, <2>4, <2>5, <2>6, <2>7, <2>8, <2>9
<1>4. ASSUME NEW r \in Req, NEW p \in Sid, GuardRead(r, p)
      PROVE  IInv'
  <2>1. /\ job[r].pc = "idle" /\ p \in known
        /\ Others(r) /\ SameScan(r)
        /\ job'[r].pc = "validate" /\ job'[r].old = p
        /\ UNCHANGED <<store, stale, owner, root, known, dead, raced, ended>>
    BY <1>4 DEF GuardRead, Others, SameScan, TypeOK, Job
  <2>2. TypeOK'
    <3>1. job' \in [Req -> Job]
      <4>1. [job[r] EXCEPT !.pc = "validate", !.old = p] \in Job
        BY JobUpdates DEF TypeOK, PC
      <4>2. job' = [job EXCEPT ![r] = [job[r] EXCEPT !.pc = "validate", !.old = p]]
        BY <1>4 DEF GuardRead
      <4> QED
        BY <4>1, <4>2 DEF TypeOK
    <3> QED
      BY <1>4, <2>1, <3>1, KeyFacts, KeysAreMinted DEF GuardRead, TypeOK, RootInv, FreshInv, GuardInv, MintInv, Minting
  <2>3. MintInv'
    BY <2>1 DEF Others, SameScan, MintInv, Minting, FreshInv, GuardInv, TypeOK
  <2>4. PendingInv'
    BY <2>1 DEF Others, SameScan, MintInv, Minting, PendingInv, FreshInv, GuardInv, Unwritten, Pair
  <2>5. RootInv'
    BY <2>1 DEF Others, SameScan, TypeOK, RootInv, FreshInv
  <2>6. FreshInv'
    <3>2. \A k : ~ Unwritten(k)' => ~ Unwritten(k) \/ owner[k[2]] # NoUser
      BY <2>1 DEF Unwritten, Others, SameScan
    <3> QED
      BY <2>1, <3>2, FreshKept
  <2>7. GuardInv'
    BY <2>1 DEF Others, SameScan, GuardInv
  <2>8. ScanInv'
    BY <2>1, KeysAreMinted DEF Others, SameScan, TypeOK, ScanInv, Sub, GuardInv, FreshInv, PendingInv, Unwritten, MintInv, Minting
  <2>9. DeadStaysDead'
    BY <2>1 DEF Others, SameScan, DeadStaysDead, PendingInv, Unwritten, ScanInv
  <2> QED
    BY <2>2, <2>3, <2>4, <2>5, <2>6, <2>7, <2>8, <2>9
<1>5. ASSUME NEW r \in Req, SetAccess(r)
      PROVE  IInv'
  <2>1. /\ job[r].pc = "setAccess" /\ Moves(r, "setRefresh")
        /\ store' \subseteq store \cup {<<"access", job[r].new>>}
        /\ ended' \subseteq ended \cup {root[job[r].new]}
        /\ UNCHANGED <<stale, owner, root, known, dead, raced>>
    BY <1>5 DEF SetAccess, SetKey, Goto, Fail, Others, SameScan, SameJob, Moves, TypeOK, Job
  <2>2. TypeOK'
    <3>1. job' \in [Req -> Job]
      BY <1>5 DEF SetAccess, SetKey, Goto, Fail, TypeOK, Job, NoJob, PC, Kind
    <3> QED
      <4>1. job[r].new \in Sid /\ root[job[r].new] \in Sid
        BY <2>1 DEF MintInv, Minting, RootInv
      <4>2. store' \subseteq Key /\ ended' \subseteq Sid
        BY <2>1, <4>1, KeyFacts DEF TypeOK
      <4> QED
        BY <2>1, <3>1, <4>2 DEF TypeOK
  <2>3. MintInv'
    BY <2>1 DEF Others, SameScan, SameJob, Moves, MintInv, Minting, FreshInv, GuardInv, TypeOK
  <2>4. PendingInv'
    BY <2>1 DEF Others, SameScan, SameJob, Moves, MintInv, Minting, PendingInv, FreshInv, GuardInv, Unwritten, Pair
  <2>5. RootInv'
    BY <2>1 DEF Others, SameScan, SameJob, Moves, TypeOK, RootInv, FreshInv
  <2>6. FreshInv'
    <3>1. owner[job[r].new] # NoUser
      BY <2>1 DEF MintInv, Minting
    <3>2. \A k : ~ Unwritten(k)' => ~ Unwritten(k) \/ owner[k[2]] # NoUser
      BY <2>1, <3>1 DEF Unwritten, Others, SameScan, SameJob, Moves
    <3> QED
      BY <2>1, <3>1, <3>2, FreshKept
  <2>7. GuardInv'
    BY <2>1 DEF Others, SameScan, SameJob, Moves, GuardInv
  <2>8. ScanInv'
    <3>1. Unwritten(<<"access", job[r].new>>) /\ job[r].snapshot = {}
      BY <2>1 DEF PendingInv, ScanInv
    <3>2. \A q \in Req : job'[q].snapshot \cap store' \subseteq job[q].snapshot \cap store
      BY <2>1, <3>1 DEF Unwritten, Others, SameScan, SameJob, Moves
    <3> QED
      BY <2>1, <3>1, <3>2 DEF ScanInv, Sub, Others, SameScan, SameJob, Moves
  <2>9. DeadStaysDead'
    BY <2>1 DEF Others, SameScan, SameJob, Moves, DeadStaysDead, PendingInv, Unwritten, ScanInv
  <2> QED
    BY <2>2, <2>3, <2>4, <2>5, <2>6, <2>7, <2>8, <2>9
<1>6. ASSUME NEW r \in Req, SetRefresh(r)
      PROVE  IInv'
  <2>1. /\ job[r].pc = "setRefresh" /\ (Moves(r, "respond") \/ Moves(r, "delOld"))
        /\ store' \subseteq store \cup {<<"refresh", job[r].new>>}
        /\ ended' \subseteq ended \cup {root[job[r].new]}
        /\ UNCHANGED <<stale, owner, root, known, dead, raced>>
    BY <1>6 DEF SetRefresh, SetKey, Goto, Fail, Others, SameScan, SameJob, Moves, TypeOK, Job
  <2>2. TypeOK'
    <3>1. job' \in [Req -> Job]
      <4>1. PICK l \in {"respond", "delOld"} :
              job' = [job EXCEPT ![r].pc = l] \/ job' = [job EXCEPT ![r].pc = l, ![r].ok = FALSE]
        BY <1>6 DEF SetRefresh, Goto, Fail
      <4>2. [job[r] EXCEPT !.pc = l] \in Job /\ [job[r] EXCEPT !.pc = l, !.ok = FALSE] \in Job
        BY JobUpdates DEF TypeOK, PC
      <4>3. \/ job' = [job EXCEPT ![r] = [job[r] EXCEPT !.pc = l]]
            \/ job' = [job EXCEPT ![r] = [job[r] EXCEPT !.pc = l, !.ok = FALSE]]
        BY <4>1
      <4> QED
        BY <4>2, <4>3 DEF TypeOK
    <3> QED
      <4>1. job[r].new \in Sid /\ root[job[r].new] \in Sid
        BY <2>1 DEF MintInv, Minting, RootInv
      <4>2. store' \subseteq Key /\ ended' \subseteq Sid
        BY <2>1, <4>1, KeyFacts DEF TypeOK
      <4> QED
        BY <2>1, <3>1, <4>2 DEF TypeOK
  <2>3. MintInv'
    BY <2>1 DEF Others, SameScan, SameJob, Moves, MintInv, Minting, FreshInv, GuardInv, TypeOK
  <2>4. PendingInv'
    BY <2>1 DEF Others, SameScan, SameJob, Moves, MintInv, Minting, PendingInv, FreshInv, GuardInv, Unwritten, Pair
  <2>5. RootInv'
    BY <2>1 DEF Others, SameScan, SameJob, Moves, TypeOK, RootInv, FreshInv
  <2>6. FreshInv'
    <3>1. owner[job[r].new] # NoUser
      BY <2>1 DEF MintInv, Minting
    <3>2. \A k : ~ Unwritten(k)' => ~ Unwritten(k) \/ owner[k[2]] # NoUser
      BY <2>1, <3>1 DEF Unwritten, Others, SameScan, SameJob, Moves
    <3> QED
      BY <2>1, <3>1, <3>2, FreshKept
  <2>7. GuardInv'
    BY <2>1 DEF Others, SameScan, SameJob, Moves, GuardInv
  <2>8. ScanInv'
    <3>1. Unwritten(<<"refresh", job[r].new>>) /\ job[r].snapshot = {}
      BY <2>1 DEF PendingInv, ScanInv
    <3>2. \A q \in Req : job'[q].snapshot \cap store' \subseteq job[q].snapshot \cap store
      BY <2>1, <3>1 DEF Unwritten, Others, SameScan, SameJob, Moves
    <3> QED
      BY <2>1, <3>1, <3>2 DEF ScanInv, Sub, Others, SameScan, SameJob, Moves
  <2>9. DeadStaysDead'
    BY <2>1 DEF Others, SameScan, SameJob, Moves, DeadStaysDead, PendingInv, Unwritten, ScanInv
  <2> QED
    BY <2>2, <2>3, <2>4, <2>5, <2>6, <2>7, <2>8, <2>9
<1>7. ASSUME NEW r \in Req, DelOld(r)
      PROVE  IInv'
  <2>1. /\ job[r].pc = "delOld" /\ Moves(r, "respond")
        /\ store' \subseteq store
        /\ UNCHANGED <<stale, owner, root, known, dead, raced, ended>>
    BY <1>7 DEF DelOld, Delete, Goto, Others, SameScan, SameJob, Moves, TypeOK, Job
  <2>2. TypeOK'
    <3>1. job' \in [Req -> Job]
      BY <1>7 DEF DelOld, Delete, Goto, TypeOK, Job, NoJob, PC, Kind
    <3> QED
      BY <1>7, <2>1, <3>1, KeyFacts, KeysAreMinted DEF DelOld, Delete, Goto, TypeOK, RootInv, FreshInv, GuardInv, MintInv, Minting
  <2>3. MintInv'
    BY <2>1 DEF Others, SameScan, SameJob, Moves, MintInv, Minting, FreshInv, GuardInv, TypeOK
  <2>4. PendingInv'
    BY <2>1 DEF Others, SameScan, SameJob, Moves, MintInv, Minting, PendingInv, FreshInv, GuardInv, Unwritten, Pair
  <2>5. RootInv'
    BY <2>1 DEF Others, SameScan, SameJob, Moves, TypeOK, RootInv, FreshInv
  <2>6. FreshInv'
    <3>2. \A k : ~ Unwritten(k)' => ~ Unwritten(k) \/ owner[k[2]] # NoUser
      BY <2>1 DEF Unwritten, Others, SameScan, SameJob, Moves
    <3> QED
      BY <2>1, <3>2, FreshKept
  <2>7. GuardInv'
    BY <2>1 DEF Others, SameScan, SameJob, Moves, GuardInv
  <2>8. ScanInv'
    BY <2>1, KeysAreMinted DEF Others, SameScan, SameJob, Moves, TypeOK, ScanInv, Sub, GuardInv, FreshInv, PendingInv, Unwritten, MintInv, Minting
  <2>9. DeadStaysDead'
    BY <2>1 DEF Others, SameScan, SameJob, Moves, DeadStaysDead, PendingInv, Unwritten, ScanInv
  <2> QED
    BY <2>2, <2>3, <2>4, <2>5, <2>6, <2>7, <2>8, <2>9
<1>8. ASSUME NEW r \in Req, Respond(r)
      PROVE  IInv'
  <2>1. /\ job[r].pc = "respond" /\ Ends(r)
        /\ known' \subseteq known \cup {job[r].new} /\ known \subseteq known'
        /\ UNCHANGED <<store, stale, owner, root, dead, raced, ended>>
    BY <1>8 DEF Respond, Finish, Others, Ends, TypeOK, Job, NoJob
  <2>2. TypeOK'
    <3>1. job' \in [Req -> Job]
      BY <1>8 DEF Respond, Finish, TypeOK, Job, NoJob, PC, Kind
    <3> QED
      BY <1>8, <2>1, <3>1, KeyFacts, KeysAreMinted DEF Respond, Finish, TypeOK, RootInv, FreshInv, GuardInv, MintInv, Minting
  <2>3. MintInv'
    BY <2>1 DEF Others, Ends, MintInv, Minting, FreshInv, GuardInv, TypeOK
  <2>4. PendingInv'
    BY <2>1 DEF Others, Ends, MintInv, Minting, PendingInv, FreshInv, GuardInv, Unwritten, Pair
  <2>5. RootInv'
    BY <2>1 DEF Others, Ends, TypeOK, RootInv, FreshInv
  <2>6. FreshInv'
    <3>1. owner[job[r].new] # NoUser
      BY <2>1 DEF MintInv, Minting
    <3>2. \A k : ~ Unwritten(k)' => ~ Unwritten(k) \/ owner[k[2]] # NoUser
      BY <2>1, <3>1 DEF Unwritten, Others, Ends
    <3> QED
      BY <2>1, <3>1, <3>2, FreshKept
  <2>7. GuardInv'
    BY <2>1 DEF Others, Ends, GuardInv
  <2>8. ScanInv'
    BY <2>1, KeysAreMinted DEF Others, Ends, TypeOK, ScanInv, Sub, GuardInv, FreshInv, PendingInv, Unwritten, MintInv, Minting
  <2>9. DeadStaysDead'
    BY <2>1 DEF Others, Ends, DeadStaysDead, PendingInv, Unwritten, ScanInv
  <2> QED
    BY <2>2, <2>3, <2>4, <2>5, <2>6, <2>7, <2>8, <2>9
<1>9. ASSUME NEW r \in Req, Purge(r)
      PROVE  IInv'
  <2>1. /\ Ends(r)
        /\ store' \subseteq store
        /\ UNCHANGED <<stale, owner, root, known, dead, raced, ended>>
    BY <1>9 DEF Purge, Delete, Finish, Others, Ends, TypeOK, Job, NoJob
  <2>2. TypeOK'
    <3>1. job' \in [Req -> Job]
      BY <1>9 DEF Purge, Delete, Finish, TypeOK, Job, NoJob, PC, Kind
    <3> QED
      BY <1>9, <2>1, <3>1, KeyFacts, KeysAreMinted DEF Purge, Delete, Finish, TypeOK, RootInv, FreshInv, GuardInv, MintInv, Minting
  <2>3. MintInv'
    BY <2>1 DEF Others, Ends, MintInv, Minting, FreshInv, GuardInv, TypeOK
  <2>4. PendingInv'
    BY <2>1 DEF Others, Ends, MintInv, Minting, PendingInv, FreshInv, GuardInv, Unwritten, Pair
  <2>5. RootInv'
    BY <2>1 DEF Others, Ends, TypeOK, RootInv, FreshInv
  <2>6. FreshInv'
    <3>2. \A k : ~ Unwritten(k)' => ~ Unwritten(k) \/ owner[k[2]] # NoUser
      BY <2>1 DEF Unwritten, Others, Ends
    <3> QED
      BY <2>1, <3>2, FreshKept
  <2>7. GuardInv'
    BY <2>1 DEF Others, Ends, GuardInv
  <2>8. ScanInv'
    BY <2>1, KeysAreMinted DEF Others, Ends, TypeOK, ScanInv, Sub, GuardInv, FreshInv, PendingInv, Unwritten, MintInv, Minting
  <2>9. DeadStaysDead'
    BY <2>1 DEF Others, Ends, DeadStaysDead, PendingInv, Unwritten, ScanInv
  <2> QED
    BY <2>2, <2>3, <2>4, <2>5, <2>6, <2>7, <2>8, <2>9
<1>10. ASSUME NEW r \in Req, Validate(r)
      PROVE  IInv'
  <2>1. /\ job[r].pc = "validate"
        /\ Ends(r) \/ Moves(r, "logout") \/ Moves(r, "begin")
        /\ UNCHANGED <<store, stale, owner, root, known, dead, raced, ended>>
    BY <1>10 DEF Validate, Goto, Finish, Others, SameScan, SameJob, Moves, Ends, TypeOK, Job, NoJob
  <2>2. TypeOK'
    <3>1. job' \in [Req -> Job]
      <4>1. ASSUME NEW l \in PC PROVE [job[r] EXCEPT !.pc = l] \in Job
        BY DEF TypeOK, Job
      <4>2. NoJob \in Job
        BY DEF NoJob, Job, PC, Kind
      <4>3. job' = [job EXCEPT ![r] = NoJob] \/ \E l \in PC : job' = [job EXCEPT ![r] = [job[r] EXCEPT !.pc = l]]
        BY <1>10 DEF Validate, Goto, Finish, PC
      <4> QED
        BY <4>1, <4>2, <4>3 DEF TypeOK
    <3> QED
      BY <1>10, <2>1, <3>1, KeyFacts, KeysAreMinted DEF Validate, Goto, Finish, TypeOK, RootInv, FreshInv, GuardInv, MintInv, Minting
  <2>3. MintInv'
    BY <2>1 DEF Others, SameScan, SameJob, Moves, Ends, MintInv, Minting, FreshInv, GuardInv, TypeOK
  <2>4. PendingInv'
    BY <2>1 DEF Others, SameScan, SameJob, Moves, Ends, MintInv, Minting, PendingInv, FreshInv, GuardInv, Unwritten, Pair
  <2>5. RootInv'
    BY <2>1 DEF Others, SameScan, SameJob, Moves, Ends, TypeOK, RootInv, FreshInv
  <2>6. FreshInv'
    <3>2. \A k : ~ Unwritten(k)' => ~ Unwritten(k) \/ owner[k[2]] # NoUser
      BY <2>1 DEF Unwritten, Others, SameScan, SameJob, Moves, Ends
    <3> QED
      BY <2>1, <3>2, FreshKept
  <2>7. GuardInv'
    BY <2>1 DEF Others, SameScan, SameJob, Moves, Ends, GuardInv
  <2>8. ScanInv'
    BY <2>1, KeysAreMinted DEF Others, SameScan, SameJob, Moves, Ends, TypeOK, ScanInv, Sub, GuardInv, FreshInv, PendingInv, Unwritten, MintInv, Minting
  <2>9. DeadStaysDead'
    BY <2>1 DEF Others, SameScan, SameJob, Moves, Ends, DeadStaysDead, PendingInv, Unwritten, ScanInv
  <2> QED
    BY <2>2, <2>3, <2>4, <2>5, <2>6, <2>7, <2>8, <2>9
<1>11. ASSUME NEW r \in Req, Logout(r)
      PROVE  IInv'
  <2>1. /\ job[r].pc = "logout" /\ Ends(r)
        /\ store' = store \ Pair(job[r].old) /\ dead' = dead \cup Pair(job[r].old)
        /\ ended' = ended \cup {root[job[r].old]}
        /\ UNCHANGED <<stale, owner, root, known, raced>>
    BY <1>11 DEF Logout, Delete, Finish, Others, Ends, TypeOK, Job, NoJob
  <2>2. TypeOK'
    <3>1. job' \in [Req -> Job]
      BY <1>11 DEF Logout, Delete, Finish, TypeOK, Job, NoJob, PC, Kind
    <3> QED
      BY <1>11, <2>1, <3>1, KeyFacts, KeysAreMinted DEF Logout, Delete, Finish, TypeOK, RootInv, FreshInv, GuardInv, MintInv, Minting
  <2>3. MintInv'
    BY <2>1 DEF Others, Ends, MintInv, Minting, FreshInv, GuardInv, TypeOK
  <2>4. PendingInv'
    BY <2>1 DEF Others, Ends, MintInv, Minting, PendingInv, FreshInv, GuardInv, Unwritten, Pair
  <2>5. RootInv'
    BY <2>1 DEF Others, Ends, TypeOK, RootInv, FreshInv
  <2>6. FreshInv'
    <3>1. owner[job[r].old] # NoUser
      BY <2>1 DEF GuardInv, FreshInv, TypeOK, Job
    <3>2. \A k : ~ Unwritten(k)' => ~ Unwritten(k) \/ owner[k[2]] # NoUser
      BY <2>1, <3>1 DEF Unwritten, Others, Ends, Pair
    <3> QED
      BY <2>1, <3>1, <3>2, FreshKept
  <2>7. GuardInv'
    BY <2>1 DEF Others, Ends, GuardInv
  <2>8. ScanInv'
    BY <2>1, KeysAreMinted DEF Others, Ends, TypeOK, ScanInv, Sub, GuardInv, FreshInv, PendingInv, Unwritten, MintInv, Minting
  <2>9. DeadStaysDead'
    BY <2>1 DEF Others, Ends, DeadStaysDead, PendingInv, Unwritten, ScanInv
  <2> QED
    BY <2>2, <2>3, <2>4, <2>5, <2>6, <2>7, <2>8, <2>9
<1>12. ASSUME NEW r \in Req, ScanBegin(r)
      PROVE  IInv'
  <2>1. /\ job[r].pc = "begin" /\ job'[r].pc = "scan"
        /\ Others(r) /\ job'[r].old = job[r].old /\ job'[r].pass = job[r].pass
        /\ job'[r].batch = job[r].batch
        /\ job'[r].due = {k \in store : k[1] = job[r].pass /\ owner[k[2]] = owner[job[r].old]}
        /\ job[r].pass = "access" => job'[r].snapshot \subseteq {k \in store : owner[k[2]] = owner[job[r].old]}
        /\ job[r].pass # "access" => job'[r].snapshot = job[r].snapshot
        /\ UNCHANGED <<store, stale, owner, root, known, dead, raced, ended>>
    BY <1>12 DEF ScanBegin, Matching, Sub, Others, TypeOK, Job
  <2>2. TypeOK'
    <3>1. job' \in [Req -> Job]
      <4> DEFINE D == Matching(Sub(r), job[r].pass)
                 all == Matching(Sub(r), "access") \cup Matching(Sub(r), "refresh")
                 A == IF job[r].pass = "access" THEN all ELSE job[r].snapshot
      <4>1. D \subseteq Key /\ A \subseteq Key
        BY DEF Matching, TypeOK, Job
      <4>2. job' = [job EXCEPT ![r] = [job[r] EXCEPT !.pc = "scan", !.due = D, !.snapshot = A]]
        BY <1>12 DEF ScanBegin
      <4> HIDE DEF D, A
      <4>3. [job[r] EXCEPT !.pc = "scan", !.due = D, !.snapshot = A] \in Job
        BY <4>1, JobUpdates DEF TypeOK, PC
      <4> QED
        BY <4>2, <4>3 DEF TypeOK
    <3> QED
      BY <1>12, <2>1, <3>1, KeyFacts, KeysAreMinted DEF ScanBegin, Matching, Sub, TypeOK, RootInv, FreshInv, GuardInv, MintInv, Minting, Job
  <2>3. MintInv'
    BY <2>1 DEF Others, MintInv, Minting, FreshInv, GuardInv, TypeOK
  <2>4. PendingInv'
    BY <2>1 DEF Others, MintInv, Minting, PendingInv, FreshInv, GuardInv, Unwritten, Pair
  <2>5. RootInv'
    BY <2>1 DEF Others, TypeOK, RootInv, FreshInv
  <2>6. FreshInv'
    <3>2. \A k : ~ Unwritten(k)' => ~ Unwritten(k) \/ owner[k[2]] # NoUser
      BY <2>1 DEF Unwritten, Others
    <3> QED
      BY <2>1, <3>2, FreshKept
  <2>7. GuardInv'
    BY <2>1 DEF Others, GuardInv
  <2>8. ScanInv'
    <3>1. \A k \in job'[r].snapshot \cap store : k \in Key /\ k[1] \in {"access", "refresh"}
      BY KeyShape DEF TypeOK
    <3>2. job[r].pass \in {"access", "refresh"}
      BY DEF TypeOK, Job, Kind
    <3>3. \A k \in job'[r].snapshot : owner[k[2]] = owner[job[r].old]
      BY <2>1, <3>2 DEF ScanInv, Sub
    <3>4. job[r].pass = "access" => \A k \in job'[r].snapshot \cap store : k[1] = "access" => k \in job'[r].due
      BY <2>1, <3>3
    <3>5. job[r].pass = "refresh" => \A k \in job'[r].snapshot \cap store : k[1] = "refresh" /\ k \in job'[r].due
      BY <2>1, <3>3 DEF ScanInv
    <3>6. job[r].batch = {}
      BY <2>1 DEF ScanInv
    <3> QED
      BY <2>1, <3>2, <3>3, <3>4, <3>5, <3>6 DEF ScanInv, Sub, Others
  <2>9. DeadStaysDead'
    BY <2>1 DEF Others, DeadStaysDead, PendingInv, Unwritten, ScanInv
  <2> QED
    BY <2>2, <2>3, <2>4, <2>5, <2>6, <2>7, <2>8, <2>9
<1>13. ASSUME NEW r \in Req, ScanBatch(r)
      PROVE  IInv'
  <2>1. /\ job[r].pc = "scan" /\ job'[r].pc = "del"
        /\ Others(r) /\ job'[r].old = job[r].old /\ job'[r].pass = job[r].pass
        /\ job'[r].snapshot = job[r].snapshot
        /\ job'[r].batch \subseteq store /\ job'[r].due = job[r].due \ job'[r].batch
        /\ UNCHANGED <<store, stale, owner, root, known, dead, raced, ended>>
    BY <1>13 DEF ScanBatch, Matching, Sub, Others, TypeOK, Job
  <2>2. TypeOK'
    <3>1. job' \in [Req -> Job]
      <4>1. ASSUME NEW B \in SUBSET Key
            PROVE  [job[r] EXCEPT !.pc = "del", !.due = @ \ B, !.batch = B] \in Job
        <5>1. job[r].due \ B \in SUBSET Key /\ job[r] \in Job
          BY DEF TypeOK, Job
        <5> QED
          BY <5>1, JobUpdates DEF PC
      <4>2. \E B \in SUBSET Key :
              job' = [job EXCEPT ![r] = [job[r] EXCEPT !.pc = "del", !.due = @ \ B, !.batch = B]]
        BY <1>13 DEF ScanBatch, Matching, TypeOK
      <4> QED
        BY <4>1, <4>2 DEF TypeOK
    <3> QED
      BY <1>13, <2>1, <3>1, KeyFacts, KeysAreMinted DEF ScanBatch, Matching, Sub, TypeOK, RootInv, FreshInv, GuardInv, MintInv, Minting, Job
  <2>3. MintInv'
    BY <2>1 DEF Others, MintInv, Minting, FreshInv, GuardInv, TypeOK
  <2>4. PendingInv'
    BY <2>1 DEF Others, MintInv, Minting, PendingInv, FreshInv, GuardInv, Unwritten, Pair
  <2>5. RootInv'
    BY <2>1 DEF Others, TypeOK, RootInv, FreshInv
  <2>6. FreshInv'
    <3>2. \A k : ~ Unwritten(k)' => ~ Unwritten(k) \/ owner[k[2]] # NoUser
      BY <2>1 DEF Unwritten, Others
    <3> QED
      BY <2>1, <3>2, FreshKept
  <2>7. GuardInv'
    BY <2>1 DEF Others, GuardInv
  <2>8. ScanInv'
    BY <2>1, KeysAreMinted DEF Others, TypeOK, ScanInv, Sub, GuardInv, FreshInv, PendingInv, Unwritten, MintInv, Minting
  <2>9. DeadStaysDead'
    BY <2>1 DEF Others, DeadStaysDead, PendingInv, Unwritten, ScanInv
  <2> QED
    BY <2>2, <2>3, <2>4, <2>5, <2>6, <2>7, <2>8, <2>9
<1>14. ASSUME NEW r \in Req, ScanDel(r)
      PROVE  IInv'
  <2>1. /\ job[r].pc = "del" /\ job'[r].pc = "scan"
        /\ Others(r) /\ job'[r].old = job[r].old /\ job'[r].pass = job[r].pass
        /\ job'[r].snapshot = job[r].snapshot /\ job'[r].due = job[r].due
        /\ store' = store \ job[r].batch /\ job'[r].batch = {}
        /\ ended' = ended \cup {root[k[2]] : k \in job[r].batch}
        /\ UNCHANGED <<stale, owner, root, known, dead, raced>>
    BY <1>14 DEF ScanDel, Delete, Others, TypeOK, Job
  <2>2. TypeOK'
    <3>1. job' \in [Req -> Job]
      <4>1. [job[r] EXCEPT !.pc = "scan", !.batch = {}] \in Job
        BY JobUpdates DEF TypeOK, PC
      <4>2. job' = [job EXCEPT ![r] = [job[r] EXCEPT !.pc = "scan", !.batch = {}]]
        BY <1>14 DEF ScanDel
      <4> QED
        BY <4>1, <4>2 DEF TypeOK
    <3> QED
      BY <1>14, <2>1, <3>1, KeyFacts, KeysAreMinted DEF ScanDel, Delete, TypeOK, RootInv, FreshInv, GuardInv, MintInv, Minting, Job
  <2>3. MintInv'
    BY <2>1 DEF Others, MintInv, Minting, FreshInv, GuardInv, TypeOK
  <2>4. PendingInv'
    BY <2>1 DEF Others, MintInv, Minting, PendingInv, FreshInv, GuardInv, Unwritten, Pair
  <2>5. RootInv'
    BY <2>1 DEF Others, TypeOK, RootInv, FreshInv
  <2>6. FreshInv'
    <3>2. \A k : ~ Unwritten(k)' => ~ Unwritten(k) \/ owner[k[2]] # NoUser
      BY <2>1 DEF Unwritten, Others
    <3> QED
      BY <2>1, <3>2, FreshKept
  <2>7. GuardInv'
    BY <2>1 DEF Others, GuardInv
  <2>8. ScanInv'
    BY <2>1, KeysAreMinted DEF Others, TypeOK, ScanInv, Sub, GuardInv, FreshInv, PendingInv, Unwritten, MintInv, Minting
  <2>9. DeadStaysDead'
    BY <2>1 DEF Others, DeadStaysDead, PendingInv, Unwritten, ScanInv
  <2> QED
    BY <2>2, <2>3, <2>4, <2>5, <2>6, <2>7, <2>8, <2>9
<1>15. ASSUME NEW r \in Req, NextPattern(r)
      PROVE  IInv'
  <2>1. /\ job[r].pc = "scan" /\ job'[r].pc = "begin"
        /\ job[r].pass = "access" /\ job'[r].pass = "refresh"
        /\ Others(r) /\ job'[r].old = job[r].old
        /\ job'[r].snapshot = job[r].snapshot /\ job'[r].batch = job[r].batch
        /\ job[r].due \cap store = {}
        /\ UNCHANGED <<store, stale, owner, root, known, dead, raced, ended>>
    BY <1>15 DEF NextPattern, Others, TypeOK, Job
  <2>2. TypeOK'
    <3>1. job' \in [Req -> Job]
      BY <1>15 DEF NextPattern, TypeOK, Job, NoJob, PC, Kind
    <3> QED
      BY <1>15, <2>1, <3>1, KeyFacts, KeysAreMinted DEF NextPattern, TypeOK, RootInv, FreshInv, GuardInv, MintInv, Minting
  <2>3. MintInv'
    BY <2>1 DEF Others, MintInv, Minting, FreshInv, GuardInv, TypeOK
  <2>4. PendingInv'
    BY <2>1 DEF Others, MintInv, Minting, PendingInv, FreshInv, GuardInv, Unwritten, Pair
  <2>5. RootInv'
    BY <2>1 DEF Others, TypeOK, RootInv, FreshInv
  <2>6. FreshInv'
    <3>2. \A k : ~ Unwritten(k)' => ~ Unwritten(k) \/ owner[k[2]] # NoUser
      BY <2>1 DEF Unwritten, Others
    <3> QED
      BY <2>1, <3>2, FreshKept
  <2>7. GuardInv'
    BY <2>1 DEF Others, GuardInv
  <2>8. ScanInv'
    <3>1. \A k \in job[r].snapshot \cap store : k[1] = "refresh"
      <4> SUFFICES ASSUME NEW k \in job[r].snapshot \cap store, k[1] # "refresh" PROVE FALSE
        OBVIOUS
      <4>1. k \in Key /\ k[1] = "access"
        BY KeyShape DEF TypeOK
      <4>2. k \in job[r].due \cup job[r].batch /\ job[r].batch = {}
        BY <2>1, <4>1 DEF ScanInv
      <4> QED
        BY <2>1, <4>2
    <3> QED
      BY <2>1, <3>1 DEF ScanInv, Sub, Others
  <2>9. DeadStaysDead'
    BY <2>1 DEF Others, DeadStaysDead, PendingInv, Unwritten, ScanInv
  <2> QED
    BY <2>2, <2>3, <2>4, <2>5, <2>6, <2>7, <2>8, <2>9
<1>16. ASSUME NEW r \in Req, LogoutAllEnds(r)
      PROVE  IInv'
  <2>1. /\ job[r].pc = "scan" /\ job[r].pass = "refresh" /\ Ends(r)
        /\ job[r].due \cap store = {} /\ dead' = dead \cup job[r].snapshot
        /\ UNCHANGED <<store, stale, owner, root, known, raced, ended>>
    BY <1>16 DEF LogoutAllEnds, Finish, Others, Ends, TypeOK, Job, NoJob
  <2>2. TypeOK'
    <3>1. job' \in [Req -> Job]
      BY <1>16 DEF LogoutAllEnds, Finish, TypeOK, Job, NoJob, PC, Kind
    <3> QED
      BY <1>16, <2>1, <3>1, KeyFacts, KeysAreMinted DEF LogoutAllEnds, Finish, TypeOK, RootInv, FreshInv, GuardInv, MintInv, Minting, Job
  <2>3. MintInv'
    BY <2>1 DEF Others, Ends, MintInv, Minting, FreshInv, GuardInv, TypeOK
  <2>4. PendingInv'
    BY <2>1 DEF Others, Ends, MintInv, Minting, PendingInv, FreshInv, GuardInv, Unwritten, Pair
  <2>5. RootInv'
    BY <2>1 DEF Others, Ends, TypeOK, RootInv, FreshInv
  <2>6. FreshInv'
    <3>2. \A k : ~ Unwritten(k)' => ~ Unwritten(k) \/ owner[k[2]] # NoUser
      BY <2>1 DEF Unwritten, Others, Ends
    <3> QED
      BY <2>1, <3>2, FreshKept
  <2>7. GuardInv'
    BY <2>1 DEF Others, Ends, GuardInv
  <2>8. ScanInv'
    BY <2>1, KeysAreMinted DEF Others, Ends, TypeOK, ScanInv, Sub, GuardInv, FreshInv, PendingInv, Unwritten, MintInv, Minting
  <2>9. DeadStaysDead'
    BY <2>1 DEF Others, Ends, DeadStaysDead, PendingInv, Unwritten, ScanInv
  <2> QED
    BY <2>2, <2>3, <2>4, <2>5, <2>6, <2>7, <2>8, <2>9
<1>17. ASSUME NEW r \in Req, Crash(r)
      PROVE  IInv'
  <2>1. /\ Ends(r)
        /\ \/ ended' = ended
           \/ Minting(r) /\ ended' = ended \cup {root[job[r].new]}
        /\ UNCHANGED <<store, stale, owner, root, known, dead, raced>>
    BY <1>17 DEF Crash, Finish, Minting, Others, Ends, TypeOK, Job, NoJob
  <2>2. TypeOK'
    <3>1. job' \in [Req -> Job]
      BY <1>17 DEF Crash, Finish, Minting, TypeOK, Job, NoJob, PC, Kind
    <3> QED
      BY <1>17, <2>1, <3>1, KeyFacts, KeysAreMinted DEF Crash, Finish, Minting, TypeOK, RootInv, FreshInv, GuardInv, MintInv, Minting
  <2>3. MintInv'
    BY <2>1 DEF Others, Ends, MintInv, Minting, FreshInv, GuardInv, TypeOK
  <2>4. PendingInv'
    BY <2>1 DEF Others, Ends, MintInv, Minting, PendingInv, FreshInv, GuardInv, Unwritten, Pair
  <2>5. RootInv'
    BY <2>1 DEF Others, Ends, TypeOK, RootInv, FreshInv
  <2>6. FreshInv'
    <3>2. \A k : ~ Unwritten(k)' => ~ Unwritten(k) \/ owner[k[2]] # NoUser
      BY <2>1 DEF Unwritten, Others, Ends
    <3> QED
      BY <2>1, <3>2, FreshKept
  <2>7. GuardInv'
    BY <2>1 DEF Others, Ends, GuardInv
  <2>8. ScanInv'
    BY <2>1, KeysAreMinted DEF Others, Ends, TypeOK, ScanInv, Sub, GuardInv, FreshInv, PendingInv, Unwritten, MintInv, Minting
  <2>9. DeadStaysDead'
    BY <2>1 DEF Others, Ends, DeadStaysDead, PendingInv, Unwritten, ScanInv
  <2> QED
    BY <2>2, <2>3, <2>4, <2>5, <2>6, <2>7, <2>8, <2>9
<1>18. ASSUME NEW k \in Key, ExpireJwt(k)
      PROVE  IInv'
  <2>1. /\ k \in store /\ stale' = stale \cup {k}
        /\ ended' \subseteq ended \cup {root[k[2]]}
        /\ UNCHANGED <<store, owner, root, known, job, dead, raced>>
    BY <1>18 DEF ExpireJwt, TypeOK, Job
  <2>2. TypeOK'
    BY <2>1, KeysAreMinted DEF TypeOK, RootInv
  <2>3. MintInv'
    BY <2>1 DEF MintInv, Minting, FreshInv, GuardInv, TypeOK
  <2>4. PendingInv'
    BY <2>1 DEF MintInv, Minting, PendingInv, FreshInv, GuardInv, Unwritten, Pair
  <2>5. RootInv'
    BY <2>1 DEF TypeOK, RootInv, FreshInv
  <2>6. FreshInv'
    BY <2>1 DEF TypeOK, FreshInv, Unwritten, MintInv, Minting, GuardInv, Pair
  <2>7. GuardInv'
    BY <2>1 DEF GuardInv
  <2>8. ScanInv'
    BY <2>1, KeysAreMinted DEF TypeOK, ScanInv, Sub, GuardInv, FreshInv, PendingInv, Unwritten, MintInv, Minting
  <2>9. DeadStaysDead'
    BY <2>1 DEF DeadStaysDead, PendingInv, Unwritten, ScanInv
  <2> QED
    BY <2>2, <2>3, <2>4, <2>5, <2>6, <2>7, <2>8, <2>9
<1>19. ASSUME NEW k \in Key, ExpireKey(k)
      PROVE  IInv'
  <2>1. /\ store' \subseteq store
        /\ UNCHANGED <<stale, owner, root, known, job, dead, raced, ended>>
    BY <1>19 DEF ExpireKey, Delete, TypeOK, Job
  <2>2. TypeOK'
    BY <2>1, KeysAreMinted DEF TypeOK, RootInv
  <2>3. MintInv'
    BY <2>1 DEF MintInv, Minting, FreshInv, GuardInv, TypeOK
  <2>4. PendingInv'
    BY <2>1 DEF MintInv, Minting, PendingInv, FreshInv, GuardInv, Unwritten, Pair
  <2>5. RootInv'
    BY <2>1 DEF TypeOK, RootInv, FreshInv
  <2>6. FreshInv'
    BY <2>1 DEF TypeOK, FreshInv, Unwritten, MintInv, Minting, GuardInv, Pair
  <2>7. GuardInv'
    BY <2>1 DEF GuardInv
  <2>8. ScanInv'
    BY <2>1, KeysAreMinted DEF TypeOK, ScanInv, Sub, GuardInv, FreshInv, PendingInv, Unwritten, MintInv, Minting
  <2>9. DeadStaysDead'
    BY <2>1 DEF DeadStaysDead, PendingInv, Unwritten, ScanInv
  <2> QED
    BY <2>2, <2>3, <2>4, <2>5, <2>6, <2>7, <2>8, <2>9
<1>20. CASE UNCHANGED vars
  BY <1>20 DEF vars, TypeOK, MintInv, PendingInv, RootInv, FreshInv, GuardInv, ScanInv, DeadStaysDead, Unwritten, Minting, Sub
<1> QED
  BY <1>1, <1>2, <1>3, <1>4, <1>5, <1>6, <1>7, <1>8, <1>9, <1>10, <1>11, <1>12, <1>13, <1>14, <1>15, <1>16, <1>17, <1>18, <1>19, <1>20 DEF Next, Step

\* Empty stores and idle requests satisfy IInv.
LEMMA InitIInv == Init => IInv
  BY SessionsAssumption DEF Init, IInv, TypeOK, MintInv, PendingInv, RootInv, FreshInv, GuardInv,
     ScanInv, DeadStaysDead, Minting, Unwritten, NoJob, Job, PC, Kind

\* Every value stays in the domain the handlers mean it to have; in particular a
\* response only ever carries a session id that was generated.
THEOREM TypeCorrect == Spec => []TypeOK
<1>1. IInv => TypeOK
  BY DEF IInv
<1> QED
  BY InitIInv, Inductive, <1>1, PTL DEF Spec

\* Whatever is in flight, what logout and logout-all removed stays removed.
THEOREM LogoutIsFinal == Spec => []DeadStaysDead
<1>1. IInv => DeadStaysDead
  BY DEF IInv
<1> QED
  BY InitIInv, Inductive, <1>1, PTL DEF Spec

-----------------------------------------------------------------------------
(* Families: the sessions that descend from one login *)

\* Redis would accept the refresh token of session s.
Live(s) == <<"refresh", s>> \in store

\* Ids that were not minted head no family, and a refresh token whose JWT expired
\* ended its family.
TraceInv ==
  /\ \A s, x \in Sid : owner[s] = NoUser => root[x] # s
  /\ \A k \in stale : /\ owner[k[2]] # NoUser
                      /\ k[1] = "refresh" => root[k[2]] \in ended

\* A refresh stays in the family of the session it exchanges; a login has its family
\* to itself until it is answered.
LineageInv ==
  \A r \in Req :
    /\ Minting(r) /\ job[r].old # NoSid =>
         job[r].old \in known /\ root[job[r].old] = root[job[r].new]
    /\ Minting(r) /\ job[r].old = NoSid =>
         \A x \in Sid : root[x] = root[job[r].new] => x = job[r].new
    /\ job[r].pc = "delOld" => job[r].old # NoSid
    /\ job[r].pc = "idle" => job[r].old = NoSid /\ job[r].ok = TRUE

\* Once its SET was sent the new refresh token is in Redis, and no SET has failed,
\* unless the family has ended.
StoredInv ==
  \A r \in Req : Minting(r) /\ root[job[r].new] \notin ended =>
    /\ job[r].pc \in {"delOld", "respond"} => Live(job[r].new)
    /\ job[r].pc # "respond" => job[r].ok = TRUE

\* Only tokens that expired are purged.
PurgeInv ==
  \A r \in Req : job[r].pc = "purge" =>
    job[r].old \in known /\ root[job[r].old] \in ended

\* Two requests at work on one family have raced.
RacedInv ==
  \A r, q \in Req :
    Minting(r) /\ Minting(q) /\ root[job[r].new] = root[job[q].new] =>
      r = q \/ root[job[r].new] \in raced

\* While one refresh is in flight the token it exchanges is the only one that the
\* client holds and Redis accepts, and after its DEL there is none.
RotationInv ==
  \A r \in Req : \A t \in known :
    /\ Minting(r) /\ job[r].old # NoSid
    /\ root[t] = root[job[r].new] /\ root[t] \notin raced
    /\ Live(t)
    => t = job[r].old /\ ~ (job[r].pc = "respond" /\ job[r].ok)

FamilyInv ==
  /\ TraceInv
  /\ LineageInv
  /\ StoredInv
  /\ PurgeInv
  /\ RacedInv
  /\ RotationInv
  /\ OneRefreshTokenWhenSerial
  /\ SignedInUntilEnded

\* What a step does to families when it mints nothing, stores nothing and tells the client
\* nothing: requests may give up minting, and refresh tokens may go if their family ended.
LEMMA QuietStep ==
  ASSUME IInv, FamilyInv,
         UNCHANGED <<owner, root, known, raced>>,
         ended \subseteq ended', store' \subseteq store,
         \A k \in stale' \ stale :
           k \in store /\ (k[1] = "refresh" => root[k[2]] \in ended'),
         \A x \in Sid : Live(x) /\ ~ Live(x)' => root[x] \in ended',
         \A q \in Req :
           \/ job'[q] = job[q]
           \/ /\ job[q].pc = "respond" => ~ job[q].ok \/ root[job[q].new] \in ended'
              /\ job'[q].pc \notin {"setAccess", "setRefresh", "delOld", "respond"}
              /\ job'[q].pc = "purge" => job'[q].old \in known /\ root[job'[q].old] \in ended'
              /\ job'[q].pc = "idle" => job'[q].old = NoSid /\ job'[q].ok = TRUE
  PROVE  FamilyInv'
<1> USE DEF FamilyInv
<1>1. \A q \in Req : Minting(q)' => Minting(q) /\ job'[q] = job[q]
  BY DEF Minting
<1>2. \A x : Live(x)' => Live(x)
  BY DEF Live
<1>3. TraceInv'
  BY KeysAreMinted DEF TraceInv
<1>4. LineageInv'
  BY <1>1 DEF LineageInv
<1>5. StoredInv'
  <2> SUFFICES ASSUME NEW q \in Req, Minting(q)', root[job[q].new] \notin ended'
               PROVE  /\ job'[q].pc \in {"delOld", "respond"} => Live(job[q].new)'
                      /\ job'[q].pc # "respond" => job'[q].ok = TRUE
    BY <1>1 DEF StoredInv
  <2>1. Minting(q) /\ job'[q] = job[q] /\ root[job[q].new] \notin ended /\ job[q].new \in Sid
    BY <1>1 DEF IInv, MintInv
  <2> QED
    BY <2>1 DEF StoredInv
<1>6. PurgeInv'
  BY DEF PurgeInv
<1>7. RacedInv'
  BY <1>1 DEF RacedInv
<1>8. RotationInv'
  BY <1>1, <1>2 DEF RotationInv
<1>9. OneRefreshTokenWhenSerial'
  BY DEF OneRefreshTokenWhenSerial
<1>10. SignedInUntilEnded'
  <2> SUFFICES ASSUME NEW f \in {root[s] : s \in known} \ ended'
               PROVE  \E t \in Sid : /\ root[t] = f /\ Live(t)'
                                     /\ \/ t \in known
                                        \/ \E r \in Req : job'[r].pc = "respond" /\ job'[r].ok /\ job'[r].new = t
    BY DEF SignedInUntilEnded, Live
  <2>1. PICK t \in Sid : /\ root[t] = f /\ Live(t)
                         /\ \/ t \in known
                            \/ \E r \in Req : job[r].pc = "respond" /\ job[r].ok /\ job[r].new = t
    BY DEF SignedInUntilEnded, Live
  <2>2. Live(t)'
    BY <2>1
  <2>3. ASSUME NEW r \in Req, job[r].pc = "respond", job[r].ok, job[r].new = t PROVE job'[r] = job[r]
    BY <2>1, <2>3
  <2> QED
    BY <2>1, <2>2, <2>3
<1> QED
  BY <1>3, <1>4, <1>5, <1>6, <1>7, <1>8, <1>9, <1>10

\* What a login or a refresh does to families when it mints session s: a login founds one,
\* a refresh extends the one of the token it presents.
LEMMA MintStep ==
  ASSUME IInv, FamilyInv, NEW r \in Req, NEW s \in Sid,
         job[r].pc = "idle", owner[s] = NoUser, Others(r),
         job'[r].pc = "setAccess", job'[r].new = s, job'[r].ok = TRUE,
         \A x \in Sid \ {s} : owner'[x] = owner[x] /\ root'[x] = root[x],
         owner'[s] # NoUser, raced \subseteq raced',
         UNCHANGED <<store, stale, known, ended>>,
         \/ root'[s] = s /\ job'[r].old = NoSid
         \/ \E p \in known : /\ root'[s] = root[p] /\ job'[r].old = p /\ Live(p)
                             /\ RefreshInFlight(root[p]) => root[p] \in raced'
  PROVE  FamilyInv'
<1> USE SessionsAssumption DEF FamilyInv
<1>1. known \subseteq Sid /\ s \notin known /\ ~ Live(s)
  BY DEF IInv, TypeOK, FreshInv, Unwritten, Live
<1>2. \A x \in known : root'[x] = root[x]
  BY <1>1
<1>3. ASSUME NEW q \in Req \ {r}
      PROVE  /\ job'[q] = job[q]
             /\ Minting(q)' <=> Minting(q)
             /\ Minting(q) => /\ job[q].new \in Sid /\ job[q].new # s /\ job[q].new \notin known
                              /\ root'[job[q].new] = root[job[q].new] /\ root[job[q].new] # s
  BY DEF Others, IInv, MintInv, Minting, TraceInv
<1>4. Minting(r)'
  BY DEF Minting
<1>5. TraceInv'
  <2>1. ASSUME NEW y \in Sid, NEW x \in Sid, owner'[y] = NoUser PROVE root'[x] # y
    BY <1>1, <2>1 DEF TraceInv
  <2>2. \A k \in stale : k[2] \in Sid
    BY KeyShape DEF IInv, TypeOK
  <2>3. \A k \in stale : /\ owner'[k[2]] # NoUser
                         /\ k[1] = "refresh" => root'[k[2]] \in ended
    BY <2>2 DEF TraceInv
  <2> QED
    BY <2>1, <2>3 DEF TraceInv
<1>6. ASSUME NEW q \in Req \ {r}, Minting(q), root'[s] = root[job[q].new]
      PROVE  job[q].old # NoSid /\ root'[s] \in raced'
  <2>1. PICK p \in known : root'[s] = root[p] /\ (RefreshInFlight(root[p]) => root[p] \in raced')
    BY <1>3, <1>6
  <2>2. job[q].old # NoSid
    <3>1. p \in Sid /\ p # job[q].new /\ root[p] = root[job[q].new]
      BY <1>1, <1>3, <1>6, <2>1
    <3> QED
      BY <1>6, <3>1 DEF LineageInv
  <2>3. RefreshInFlight(root[p])
    BY <1>3, <1>6, <2>1, <2>2 DEF RefreshInFlight
  <2> QED
    BY <2>1, <2>2, <2>3
<1>7. LineageInv'
  <2>1. ASSUME NEW q \in Req \ {r}, Minting(q), job[q].old = NoSid, NEW x \in Sid,
               root'[x] = root[job[q].new]
        PROVE  x = job[q].new
    BY <1>6, <2>1 DEF LineageInv
  <2>2. ASSUME job'[r].old = NoSid, NEW x \in Sid, root'[x] = root'[s] PROVE x = s
    <3>1. \A y \in known : y # NoSid
      BY <1>1
    <3>2. root'[s] = s
      BY <2>2, <3>1
    <3> QED
      BY <2>2, <3>2 DEF TraceInv
  <2>3. job'[r].old # NoSid => job'[r].old \in known /\ root'[job'[r].old] = root'[s]
    BY <1>2
  <2>4. \A q \in Req \ {r} :
          /\ Minting(q) /\ job[q].old # NoSid =>
               job[q].old \in known /\ root'[job[q].old] = root'[job[q].new]
          /\ job[q].pc = "delOld" => job[q].old # NoSid
          /\ job[q].pc = "idle" => job[q].old = NoSid /\ job[q].ok = TRUE
    BY <1>2, <1>3 DEF LineageInv
  <2> QED
    BY <1>3, <2>1, <2>2, <2>3, <2>4 DEF LineageInv
<1>8. StoredInv'
  BY <1>3 DEF StoredInv, Live
<1>9. PurgeInv'
  BY <1>2, <1>3 DEF PurgeInv
<1>10. RacedInv'
  <2>1. \A q \in Req \ {r} : Minting(q)' /\ root'[job'[q].new] = root'[s] => root'[s] \in raced'
    BY <1>3, <1>6
  <2>2. \A q, x \in Req \ {r} :
          Minting(q)' /\ Minting(x)' /\ root'[job'[q].new] = root'[job'[x].new] =>
            q = x \/ root'[job'[q].new] \in raced'
    BY <1>3 DEF RacedInv
  <2> QED
    BY <2>1, <2>2 DEF RacedInv
<1>11. RotationInv'
  <2>1. ASSUME NEW t \in known, job'[r].old # NoSid, root[t] = root'[s], root[t] \notin raced', Live(t)
        PROVE  t = job'[r].old
    <3>1. PICK p \in known : root'[s] = root[p] /\ job'[r].old = p /\ Live(p)
      BY <2>1
    <3> QED
      BY <2>1, <3>1 DEF OneRefreshTokenWhenSerial, Live
  <2>2. ASSUME NEW q \in Req \ {r}, NEW t \in known, Minting(q), job[q].old # NoSid,
               root[t] = root[job[q].new], root[t] \notin raced', Live(t)
        PROVE  t = job[q].old /\ ~ (job[q].pc = "respond" /\ job[q].ok)
    BY <2>2 DEF RotationInv
  <2>3. \A t : Live(t)' <=> Live(t)
    BY DEF Live
  <2> QED
    BY <1>2, <1>3, <2>1, <2>2, <2>3 DEF RotationInv
<1>12. OneRefreshTokenWhenSerial'
  BY <1>2 DEF OneRefreshTokenWhenSerial
<1>13. SignedInUntilEnded'
  <2> SUFFICES ASSUME NEW f \in {root[x] : x \in known} \ ended
               PROVE  \E t \in Sid : /\ root'[t] = f /\ Live(t)'
                                     /\ \/ t \in known
                                        \/ \E q \in Req : job'[q].pc = "respond" /\ job'[q].ok /\ job'[q].new = t
    BY <1>2 DEF SignedInUntilEnded, Live
  <2>1. PICK t \in Sid : /\ root[t] = f /\ Live(t)
                         /\ \/ t \in known
                            \/ \E q \in Req : job[q].pc = "respond" /\ job[q].ok /\ job[q].new = t
    BY DEF SignedInUntilEnded, Live
  <2>2. t # s /\ Live(t)'
    BY <1>1, <2>1 DEF Live
  <2>3. ASSUME NEW q \in Req, job[q].pc = "respond" PROVE job'[q] = job[q]
    BY <1>3, <2>3
  <2> QED
    BY <2>1, <2>2, <2>3
<1> QED
  BY <1>5, <1>7, <1>8, <1>9, <1>10, <1>11, <1>12, <1>13

\* What the SETs of request r do to families: the refresh token it mints may be stored,
\* and a SET that fails ends the family.
LEMMA StoreStep ==
  ASSUME IInv, FamilyInv, NEW r \in Req, Others(r),
         job[r].pc \in {"setAccess", "setRefresh"},
         job'[r].old = job[r].old, job'[r].new = job[r].new,
         \/ job[r].pc = "setAccess" /\ job'[r].pc = "setRefresh"
         \/ job[r].pc = "setRefresh" /\ job'[r].pc = "respond" /\ job[r].old = NoSid
         \/ job[r].pc = "setRefresh" /\ job'[r].pc = "delOld" /\ job[r].old # NoSid,
         \A x \in Sid \ {job[r].new} : Live(x)' <=> Live(x),
         Live(job[r].new) => Live(job[r].new)',
         ended \subseteq ended',
         \/ root[job[r].new] \in ended'
         \/ /\ job'[r].ok = job[r].ok
            /\ job[r].pc = "setRefresh" => Live(job[r].new)',
         UNCHANGED <<stale, owner, root, known, raced>>
  PROVE  FamilyInv'
<1> USE DEF FamilyInv
<1>1. /\ job[r].new \in Sid /\ job[r].new \notin known /\ known \subseteq Sid
      /\ Minting(r) /\ Minting(r)'
  BY DEF IInv, TypeOK, MintInv, Minting
<1>2. \A t \in known : Live(t)' <=> Live(t)
  BY <1>1
<1>3. \A q \in Req : (Minting(q)' <=> Minting(q)) /\ job'[q].new = job[q].new /\ job'[q].old = job[q].old
  BY <1>1 DEF Others, Minting
<1>4. \A q \in Req \ {r} : job'[q] = job[q]
  BY DEF Others
<1>5. \A x \in Sid : Live(x) => Live(x)'
  BY <1>1
<1>6. TraceInv'
  BY DEF TraceInv
<1>7. LineageInv'
  BY <1>3, <1>4 DEF LineageInv
<1>8. StoredInv'
  <2>1. ASSUME NEW q \in Req \ {r}, Minting(q), root[job[q].new] \notin ended'
        PROVE  /\ job[q].pc \in {"delOld", "respond"} => Live(job[q].new)'
               /\ job[q].pc # "respond" => job[q].ok = TRUE
    <3>1. job[q].new \in Sid /\ root[job[q].new] \notin ended
      BY <2>1 DEF IInv, MintInv
    <3> QED
      BY <1>4, <1>5, <2>1, <3>1 DEF StoredInv, Live
  <2>2. ASSUME root[job[r].new] \notin ended'
        PROVE  /\ job'[r].pc \in {"delOld", "respond"} => Live(job[r].new)'
               /\ job'[r].pc # "respond" => job'[r].ok = TRUE
    BY <1>1, <2>2 DEF StoredInv
  <2> QED
    BY <1>3, <1>4, <2>1, <2>2 DEF StoredInv
<1>9. PurgeInv'
  BY <1>4 DEF PurgeInv
<1>10. RacedInv'
  BY <1>3 DEF RacedInv
<1>11. RotationInv'
  BY <1>2, <1>3, <1>4 DEF RotationInv
<1>12. OneRefreshTokenWhenSerial'
  BY <1>2 DEF OneRefreshTokenWhenSerial, Live
<1>13. SignedInUntilEnded'
  <2> SUFFICES ASSUME NEW f \in {root[x] : x \in known} \ ended'
               PROVE  \E t \in Sid : /\ root[t] = f /\ Live(t)'
                                     /\ \/ t \in known
                                        \/ \E q \in Req : job'[q].pc = "respond" /\ job'[q].ok /\ job'[q].new = t
    BY DEF SignedInUntilEnded, Live
  <2>1. PICK t \in Sid : /\ root[t] = f /\ Live(t)
                         /\ \/ t \in known
                            \/ \E q \in Req : job[q].pc = "respond" /\ job[q].ok /\ job[q].new = t
    BY DEF SignedInUntilEnded, Live
  <2>2. ASSUME NEW q \in Req, job[q].pc = "respond" PROVE job'[q] = job[q]
    BY <1>4, <2>2
  <2> QED
    BY <1>5, <2>1, <2>2
<1> QED
  BY <1>6, <1>7, <1>8, <1>9, <1>10, <1>11, <1>12, <1>13

\* The DEL of the presented pair: from here the session about to be answered stands for the
\* family, unless the DEL failed.
LEMMA DelOldStep ==
  ASSUME IInv, FamilyInv, NEW r \in Req, DelOld(r)
  PROVE  FamilyInv'
<1> USE DEF FamilyInv
<1>1. /\ job[r].pc = "delOld" /\ Moves(r, "respond")
      /\ \/ /\ job'[r].ok = job[r].ok /\ ~ Live(job[r].old)'
            /\ \A x : x # job[r].old => (Live(x)' <=> Live(x))
         \/ job'[r].ok = FALSE /\ store' = store
      /\ store' \subseteq store
      /\ UNCHANGED <<stale, owner, root, known, dead, raced, ended>>
  BY DEF DelOld, Delete, Pair, Goto, Others, SameScan, SameJob, Moves, IInv, TypeOK, Job, Live
<1>2. /\ job[r].old # NoSid /\ job[r].old \in known /\ root[job[r].old] = root[job[r].new]
      /\ job[r].new \in Sid /\ job[r].new \notin known
      /\ Minting(r) /\ Minting(r)'
  BY <1>1 DEF LineageInv, Minting, IInv, MintInv, Moves
<1>3. \A q \in Req : (Minting(q)' <=> Minting(q)) /\ job'[q].new = job[q].new /\ job'[q].old = job[q].old
  BY <1>1, <1>2 DEF Others, Minting, Moves, SameJob
<1>4. \A q \in Req \ {r} : job'[q] = job[q]
  BY <1>1 DEF Others, Moves
<1>5. \A x : Live(x)' => Live(x)
  BY <1>1 DEF Live
<1>6. TraceInv'
  BY <1>1 DEF TraceInv
<1>7. LineageInv'
  BY <1>1, <1>2, <1>3, <1>4 DEF LineageInv, Moves
<1>8. ASSUME NEW x, Live(x), x # job[r].old PROVE Live(x)'
  BY <1>1, <1>8 DEF Live
<1>9. StoredInv'
  <2>1. ASSUME NEW q \in Req, Minting(q) PROVE job[q].new # job[r].old
    BY <1>2, <2>1 DEF IInv, MintInv
  <2>2. job[r].pc \in {"delOld", "respond"} /\ job'[r].pc = "respond"
    BY <1>1 DEF Moves
  <2> QED
    BY <1>1, <1>3, <1>4, <1>8, <2>1, <2>2 DEF StoredInv
<1>10. PurgeInv'
  BY <1>1, <1>4 DEF PurgeInv, Moves
<1>11. RacedInv'
  BY <1>1, <1>3 DEF RacedInv
<1>12. RotationInv'
  <2>1. ASSUME NEW t \in known, root[t] = root[job[r].new], root[t] \notin raced, Live(t)'
        PROVE  t = job[r].old /\ ~ job'[r].ok
    <3>1. t = job[r].old
      BY <1>2, <1>5, <2>1 DEF RotationInv
    <3> QED
      BY <1>1, <2>1, <3>1 DEF Live, Moves, SameJob
  <2> QED
    BY <1>1, <1>3, <1>4, <1>5, <2>1 DEF RotationInv
<1>13. OneRefreshTokenWhenSerial'
  BY <1>1, <1>5 DEF OneRefreshTokenWhenSerial, Live
<1>14. SignedInUntilEnded'
  <2> SUFFICES ASSUME NEW f \in {root[x] : x \in known} \ ended
               PROVE  \E t \in Sid : /\ root[t] = f /\ Live(t)'
                                     /\ \/ t \in known
                                        \/ \E q \in Req : job'[q].pc = "respond" /\ job'[q].ok /\ job'[q].new = t
    BY <1>1 DEF SignedInUntilEnded, Live
  <2>1. CASE f = root[job[r].new] /\ job'[r].ok
    <3>1. Live(job[r].new)
      BY <1>1, <1>2, <2>1 DEF StoredInv
    <3>2. Live(job[r].new)'
      BY <1>2, <1>3, <1>8, <3>1 DEF Live
    <3> QED
      BY <1>1, <1>2, <2>1, <3>2 DEF Moves, SameJob
  <2>2. CASE ~ (f = root[job[r].new] /\ job'[r].ok)
    <3>1. PICK t \in Sid : /\ root[t] = f /\ Live(t)
                           /\ \/ t \in known
                              \/ \E q \in Req : job[q].pc = "respond" /\ job[q].ok /\ job[q].new = t
      BY DEF SignedInUntilEnded, Live
    <3>2. Live(t)'
      <4>1. CASE f # root[job[r].new]
        BY <1>2, <1>8, <3>1, <4>1
      <4>2. CASE f = root[job[r].new]
        <5>1. job[r].ok = TRUE
          BY <1>1, <1>2, <4>2 DEF StoredInv
        <5> QED
          BY <1>1, <2>2, <3>1, <4>2, <5>1 DEF Live
      <4> QED
        BY <4>1, <4>2
    <3>3. ASSUME NEW q \in Req, job[q].pc = "respond" PROVE job'[q] = job[q]
      BY <1>1, <1>4, <3>3
    <3> QED
      BY <3>1, <3>2, <3>3
  <2> QED
    BY <2>1, <2>2
<1> QED
  BY <1>6, <1>7, <1>9, <1>10, <1>11, <1>12, <1>13, <1>14

\* The answer: the client learns the new session if everything it needs was done.
LEMMA RespondStep ==
  ASSUME IInv, FamilyInv, NEW r \in Req, Respond(r)
  PROVE  FamilyInv'
<1> USE DEF FamilyInv
<1>1. /\ job[r].pc = "respond" /\ Others(r) /\ job'[r] = NoJob
      /\ known' = IF job[r].ok THEN known \cup {job[r].new} ELSE known
      /\ UNCHANGED <<store, stale, owner, root, dead, raced, ended>>
  BY DEF Respond, Finish, Others, IInv, TypeOK
<1>2. Minting(r) /\ ~ Minting(r)' /\ job[r].new \in Sid /\ known \subseteq Sid
  BY <1>1 DEF Minting, NoJob, IInv, MintInv, TypeOK
<1>3. \A q \in Req \ {r} : job'[q] = job[q]
  BY <1>1 DEF Others
<1>4. \A q \in Req : Minting(q)' => q # r /\ Minting(q) /\ job'[q] = job[q]
  BY <1>2, <1>3 DEF Minting
<1>5. \A x : Live(x)' <=> Live(x)
  BY <1>1 DEF Live
<1>6. known \subseteq known'
  BY <1>1
<1>7. TraceInv'
  BY <1>1 DEF TraceInv
<1>8. LineageInv'
  BY <1>1, <1>3, <1>4, <1>6 DEF LineageInv, NoJob
<1>9. StoredInv'
  BY <1>1, <1>4, <1>5 DEF StoredInv
<1>10. PurgeInv'
  BY <1>1, <1>3, <1>6 DEF PurgeInv, NoJob
<1>11. RacedInv'
  BY <1>1, <1>4 DEF RacedInv
<1>12. RotationInv'
  <2>1. ASSUME NEW q \in Req, Minting(q)', root[job[q].new] = root[job[r].new]
        PROVE  root[job[q].new] \in raced
    BY <1>2, <1>4, <2>1 DEF RacedInv
  <2>2. ASSUME NEW q \in Req, NEW t \in known', Minting(q)', job[q].old # NoSid,
               root[t] = root[job[q].new], root[t] \notin raced, Live(t)
        PROVE  t = job[q].old /\ ~ (job[q].pc = "respond" /\ job[q].ok)
    <3>1. t \in known
      BY <1>1, <2>1, <2>2
    <3> QED
      BY <1>4, <2>2, <3>1 DEF RotationInv
  <2> QED
    BY <1>1, <1>4, <1>5, <2>2 DEF RotationInv
<1>13. OneRefreshTokenWhenSerial'
  <2>1. ASSUME job[r].ok, NEW t \in known, root[t] = root[job[r].new], root[t] \notin raced, Live(t)
        PROVE  t = job[r].new
    <3>1. job[r].old = NoSid
      BY <1>1, <1>2, <2>1 DEF RotationInv
    <3> QED
      BY <1>2, <2>1, <3>1 DEF LineageInv
  <2> QED
    BY <1>1, <1>5, <2>1 DEF OneRefreshTokenWhenSerial, Live
<1>14. SignedInUntilEnded'
  <2> SUFFICES ASSUME NEW f \in {root[x] : x \in known'} \ ended
               PROVE  \E t \in Sid : /\ root[t] = f /\ Live(t)
                                     /\ \/ t \in known'
                                        \/ \E q \in Req : job'[q].pc = "respond" /\ job'[q].ok /\ job'[q].new = t
    BY <1>1 DEF SignedInUntilEnded, Live
  <2>1. CASE f = root[job[r].new] /\ job[r].ok
    <3>1. Live(job[r].new)
      BY <1>1, <1>2, <2>1 DEF StoredInv
    <3> QED
      BY <1>1, <1>2, <2>1, <3>1
  <2>2. CASE ~ (f = root[job[r].new] /\ job[r].ok)
    <3>1. f \in {root[x] : x \in known}
      BY <1>1, <2>2
    <3>2. PICK t \in Sid : /\ root[t] = f /\ Live(t)
                           /\ \/ t \in known
                              \/ \E q \in Req : job[q].pc = "respond" /\ job[q].ok /\ job[q].new = t
      BY <3>1 DEF SignedInUntilEnded, Live
    <3>3. ASSUME NEW q \in Req, job[q].pc = "respond", job[q].ok, job[q].new = t PROVE job'[q] = job[q]
      BY <1>3, <2>2, <3>2, <3>3
    <3> QED
      BY <1>6, <3>2, <3>3
  <2> QED
    BY <2>1, <2>2
<1> QED
  BY <1>7, <1>8, <1>9, <1>10, <1>11, <1>12, <1>13, <1>14

\* No step makes a client hold two refresh tokens or none.
LEMMA FamiliesInductive == IInv /\ FamilyInv /\ [Next]_vars => FamilyInv'
<1> SUFFICES ASSUME IInv, FamilyInv, [Next]_vars PROVE FamilyInv'
  OBVIOUS
<1> USE SessionsAssumption
<1> DEFINE Idle(r) == job'[r].pc = "idle" /\ job'[r].old = NoSid /\ job'[r].ok = TRUE
<1>1. ASSUME NEW r \in Req, NEW u \in User, NEW s \in Sid, Login(r, u, s)
      PROVE  FamilyInv'
  <2>1. /\ job[r].pc = "idle" /\ owner[s] = NoUser /\ Others(r)
        /\ job'[r].pc = "setAccess" /\ job'[r].new = s
        /\ job'[r].old = job[r].old /\ job'[r].ok = job[r].ok
        /\ \A x \in Sid \ {s} : owner'[x] = owner[x] /\ root'[x] = root[x]
        /\ owner'[s] = u /\ root'[s] = s
        /\ UNCHANGED <<store, stale, known, raced, ended>>
    BY <1>1 DEF Login, Mint, Others, IInv, TypeOK, Job
  <2>2. job[r].old = NoSid /\ job[r].ok = TRUE
    BY <2>1 DEF FamilyInv, LineageInv
  <2> QED
    BY <2>1, <2>2, MintStep
<1>2. ASSUME NEW r \in Req, NEW p \in Sid, NEW s \in Sid, Refresh(r, p, s)
      PROVE  FamilyInv'
  <2>1. /\ job[r].pc = "idle" /\ owner[s] = NoUser /\ Others(r)
        /\ job'[r].pc = "setAccess" /\ job'[r].new = s
        /\ job'[r].old = p /\ job'[r].ok = job[r].ok
        /\ \A x \in Sid \ {s} : owner'[x] = owner[x] /\ root'[x] = root[x]
        /\ owner'[s] = owner[p] /\ root'[s] = root[p]
        /\ raced \subseteq raced' /\ (RefreshInFlight(root[p]) => root[p] \in raced')
        /\ p \in known /\ Live(p)
        /\ UNCHANGED <<store, stale, known, ended>>
    BY <1>2 DEF Refresh, Mint, Others, Live, IInv, TypeOK, Job
  <2>2. job[r].ok = TRUE /\ owner[p] # NoUser
    BY <2>1 DEF FamilyInv, LineageInv, IInv, FreshInv
  <2> QED
    BY <2>1, <2>2, MintStep
<1>3. ASSUME NEW r \in Req, NEW p \in Sid, RefreshExpired(r, p)
      PROVE  FamilyInv'
  <2>1. /\ job[r].pc = "idle" /\ Others(r) /\ job'[r].pc = "purge" /\ job'[r].old = p
        /\ p \in known /\ <<"refresh", p>> \in stale
        /\ UNCHANGED <<store, stale, owner, root, known, dead, raced, ended>>
    BY <1>3 DEF RefreshExpired, Others, IInv, TypeOK, Job
  <2>2. root[p] \in ended
    BY <2>1 DEF FamilyInv, TraceInv
  <2> QED
    BY <2>1, <2>2, QuietStep DEF Others, Live
<1>4. ASSUME NEW r \in Req, NEW p \in Sid, GuardRead(r, p)
      PROVE  FamilyInv'
  <2>1. /\ job[r].pc = "idle" /\ Others(r) /\ job'[r].pc = "validate"
        /\ UNCHANGED <<store, stale, owner, root, known, dead, raced, ended>>
    BY <1>4 DEF GuardRead, Others, IInv, TypeOK, Job
  <2> QED
    BY <2>1, QuietStep DEF Others, Live
<1>5. ASSUME NEW r \in Req, SetAccess(r)
      PROVE  FamilyInv'
  <2>1. /\ job[r].pc = "setAccess" /\ Moves(r, "setRefresh")
        /\ store' \subseteq store \cup {<<"access", job[r].new>>} /\ store \subseteq store'
        /\ \/ job'[r].ok = job[r].ok /\ ended' = ended
           \/ ended' = ended \cup {root[job[r].new]}
        /\ UNCHANGED <<stale, owner, root, known, dead, raced>>
    BY <1>5 DEF SetAccess, SetKey, Goto, Fail, Others, SameScan, SameJob, Moves, IInv, TypeOK, Job
  <2>2. \A x : Live(x)' <=> Live(x)
    BY <2>1 DEF Live
  <2>3. Live(job[r].new)' <=> Live(job[r].new)
    BY <2>1 DEF Live, Moves, SameJob
  <2> QED
    BY <2>1, <2>2, <2>3, StoreStep DEF Moves, SameJob
<1>6. ASSUME NEW r \in Req, SetRefresh(r)
      PROVE  FamilyInv'
  <2>1. /\ job[r].pc = "setRefresh"
        /\ \/ Moves(r, "respond") /\ job[r].old = NoSid
           \/ Moves(r, "delOld") /\ job[r].old # NoSid
        /\ \/ /\ job'[r].ok = job[r].ok /\ ended' = ended
              /\ store' = store \cup {<<"refresh", job[r].new>>}
           \/ ended' = ended \cup {root[job[r].new]} /\ store' = store
        /\ UNCHANGED <<stale, owner, root, known, dead, raced>>
    BY <1>6 DEF SetRefresh, SetKey, Goto, Fail, Others, SameScan, SameJob, Moves, IInv, TypeOK, Job
  <2>2. /\ \A x : x # job[r].new => (Live(x)' <=> Live(x))
        /\ Live(job[r].new) => Live(job[r].new)'
        /\ \/ root[job[r].new] \in ended'
           \/ job'[r].ok = job[r].ok /\ Live(job[r].new)'
    <3>1. job'[r].new = job[r].new
      BY <2>1 DEF Moves, SameJob
    <3> QED
      BY <2>1, <3>1 DEF Live
  <2> QED
    BY <2>1, <2>2, StoreStep DEF Moves, SameJob
<1>7. ASSUME NEW r \in Req, Purge(r)
      PROVE  FamilyInv'
  <2>1. /\ job[r].pc = "purge" /\ Others(r) /\ Idle(r)
        /\ store' = store \ {<<"refresh", job[r].old>>}
        /\ UNCHANGED <<stale, owner, root, known, dead, raced, ended>>
    BY <1>7 DEF Purge, Delete, Finish, NoJob, Others, IInv, TypeOK
  <2>2. \A x \in Sid : Live(x) /\ ~ Live(x)' => root[x] \in ended
    BY <2>1 DEF Live, FamilyInv, PurgeInv
  <2> QED
    BY <2>1, <2>2, QuietStep DEF Others
<1>8. ASSUME NEW r \in Req, Validate(r)
      PROVE  FamilyInv'
  <2>1. /\ job[r].pc = "validate" /\ Others(r)
        /\ Idle(r) \/ job'[r].pc \in {"logout", "begin"}
        /\ UNCHANGED <<store, stale, owner, root, known, dead, raced, ended>>
    BY <1>8 DEF Validate, Goto, Finish, NoJob, Others, IInv, TypeOK, Job
  <2> QED
    BY <2>1, QuietStep DEF Others, Live
<1>9. ASSUME NEW r \in Req, Logout(r)
      PROVE  FamilyInv'
  <2>1. /\ job[r].pc = "logout" /\ Others(r) /\ Idle(r)
        /\ store' = store \ Pair(job[r].old)
        /\ ended' = ended \cup {root[job[r].old]}
        /\ UNCHANGED <<stale, owner, root, known, raced>>
    BY <1>9 DEF Logout, Delete, Finish, NoJob, Others, IInv, TypeOK
  <2>2. \A x \in Sid : Live(x) /\ ~ Live(x)' => root[x] \in ended'
    BY <2>1 DEF Live, Pair
  <2> QED
    BY <2>1, <2>2, QuietStep DEF Others
<1>10. ASSUME NEW r \in Req, ScanDel(r)
      PROVE  FamilyInv'
  <2>1. /\ job[r].pc = "del" /\ Others(r) /\ job'[r].pc = "scan"
        /\ store' = store \ job[r].batch
        /\ ended' = ended \cup {root[k[2]] : k \in job[r].batch}
        /\ UNCHANGED <<stale, owner, root, known, raced>>
    BY <1>10 DEF ScanDel, Delete, Others, IInv, TypeOK, Job
  <2>2. \A x \in Sid : Live(x) /\ ~ Live(x)' => root[x] \in ended'
    BY <2>1 DEF Live
  <2> QED
    BY <2>1, <2>2, QuietStep DEF Others
<1>11. ASSUME NEW r \in Req, ScanBegin(r) \/ ScanBatch(r) \/ NextPattern(r) \/ LogoutAllEnds(r)
      PROVE  FamilyInv'
  <2>1. /\ job[r].pc \in {"begin", "scan"} /\ Others(r)
        /\ UNCHANGED <<store, stale, owner, root, known, raced, ended>>
    BY <1>11 DEF ScanBegin, ScanBatch, NextPattern, LogoutAllEnds, Finish, Others, IInv, TypeOK
  <2>2. Idle(r) \/ job'[r].pc \in {"scan", "del", "begin"}
    <3>1. CASE ScanBegin(r)
      BY <3>1 DEF ScanBegin, IInv, TypeOK, Job
    <3>2. CASE ScanBatch(r)
      BY <3>2 DEF ScanBatch, IInv, TypeOK, Job
    <3>3. CASE NextPattern(r)
      BY <3>3 DEF NextPattern, IInv, TypeOK, Job
    <3>4. CASE LogoutAllEnds(r)
      BY <3>4 DEF LogoutAllEnds, Finish, NoJob, IInv, TypeOK
    <3> QED
      BY <1>11, <3>1, <3>2, <3>3, <3>4
  <2> QED
    BY <2>1, <2>2, QuietStep DEF Others, Live
<1>12. ASSUME NEW r \in Req, Crash(r)
      PROVE  FamilyInv'
  <2>1. /\ Others(r) /\ Idle(r) /\ ended \subseteq ended'
        /\ job[r].pc = "respond" => root[job[r].new] \in ended'
        /\ UNCHANGED <<store, stale, owner, root, known, dead, raced>>
    BY <1>12 DEF Crash, Finish, NoJob, Others, IInv, TypeOK
  <2> QED
    BY <2>1, QuietStep DEF Others, Live
<1>13. ASSUME NEW k \in Key, ExpireJwt(k)
      PROVE  FamilyInv'
  <2>1. /\ k \in store /\ stale' = stale \cup {k} /\ ended \subseteq ended'
        /\ k[1] = "refresh" => root[k[2]] \in ended'
        /\ UNCHANGED <<store, owner, root, known, job, dead, raced>>
    BY <1>13 DEF ExpireJwt
  <2> QED
    BY <2>1, QuietStep DEF Live
<1>14. ASSUME NEW k \in Key, ExpireKey(k)
      PROVE  FamilyInv'
  <2>1. /\ k \in stale /\ store' = store \ {k}
        /\ UNCHANGED <<stale, owner, root, known, job, dead, raced, ended>>
    BY <1>14 DEF ExpireKey, Delete
  <2>2. \A x \in Sid : Live(x) /\ ~ Live(x)' => root[x] \in ended
    BY <2>1 DEF Live, FamilyInv, TraceInv
  <2> QED
    BY <2>1, <2>2, QuietStep
<1>15. CASE UNCHANGED vars
  BY <1>15, QuietStep DEF vars, Live
<1> QED
  BY <1>1, <1>2, <1>3, <1>4, <1>5, <1>6, <1>7, <1>8, <1>9, <1>10, <1>11, <1>12, <1>13, <1>14, <1>15,
     DelOldStep, RespondStep DEF Next, Step

\* Before the first login there is no family.
LEMMA InitFamilies == Init => FamilyInv
  BY SessionsAssumption DEF Init, FamilyInv, TraceInv, LineageInv, StoredInv, PurgeInv, RacedInv,
     RotationInv, OneRefreshTokenWhenSerial, SignedInUntilEnded, Minting, NoJob

\* Both invariants together.
LEMMA Families == Spec => []FamilyInv
BY InitIInv, Inductive, InitFamilies, FamiliesInductive, PTL DEF Spec

\* Rotation: a client that refreshes one token at a time never holds two that Redis accepts,
\* whatever SET or DEL failed on the way.
THEOREM RotationLeavesOne == Spec => []OneRefreshTokenWhenSerial
<1>1. FamilyInv => OneRefreshTokenWhenSerial
  BY DEF FamilyInv
<1> QED
  BY <1>1, Families, PTL

\* No refresh signs its client out, also when several of one login race.
THEOREM RefreshKeepsSignedIn == Spec => []SignedInUntilEnded
<1>1. FamilyInv => SignedInUntilEnded
  BY DEF FamilyInv
<1> QED
  BY <1>1, Families, PTL

=============================================================================
