----------------------------- MODULE CacheProofs -----------------------------
(***************************************************************************)
(* Proofs about CacheOrchestrator, for any number of nodes, keys, requests *)
(* and versions: coalescing, and the reads of a node that wrote.           *)
(*                                                                         *)
(* A key that is not in raced has no read and write at work together, so   *)
(* what a read carries is the row, what L2 holds is the row once no writer *)
(* is at work, and what L1 of a node holds is no older than the node's     *)
(* last settled write.                                                     *)
(***************************************************************************)
EXTENDS CacheOrchestrator, TLAPS

\* A request at work is at a node and is about a key.
PlaceInv ==
  \A r \in Req : job[r].pc # "idle" => job[r].node \in Node /\ job[r].key \in Key

\* The map names the requests whose promise is not settled.
PromiseInv ==
  \A n \in Node, k \in Key :
    inflight[n][k] # None => job[inflight[n][k]].pc \in Resolving

\* Who waits has joined a promise of its node and key that is not settled.
WaitInv ==
  \A q \in Req : job[q].pc = "wait" =>
    /\ job[q].on \in Req
    /\ job[job[q].on].pc \in Resolving
    /\ job[job[q].on].node = job[q].node /\ job[job[q].on].key = job[q].key

\* No node has settled a version that the row has not had, and a get starts from one
\* that its node has settled.
SettledInv ==
  /\ \A n \in Node, k \in Key : settled[n][k] <= db[k]
  /\ \A r \in Req : job[r].pc \in Writing => job[r].val <= db[job[r].key]
  /\ \A r \in Req : job[r].pc \in {"bloom", "wait"} \cup Resolving =>
       job[r].floor <= settled[job[r].node][job[r].key]

\* What Resolving requests carry.
Carrying == {"l2hit", "setex", "hydrate", "add"}

\* A key that did not race is not read and written at once.
ApartInv ==
  \A k \in Key \ raced : ~ (Busy(k, Resolving) /\ Busy(k, Writing))

\* ... a read of it carries the row, which exists, or found that there was none before any write,
ReadInv ==
  \A r \in Req : job[r].key \in Key \ raced =>
    /\ job[r].pc \in Carrying => job[r].val = db[job[r].key] /\ job[r].val # 0
    /\ job[r].pc = "noRow" => \A n \in Node : settled[n][job[r].key] = 0

\* ... L2 has the row or nothing, when nobody is about to invalidate it,
L2Inv ==
  \A k \in Key \ raced : Busy(k, Writing) \/ l2[k] \in {0, db[k]}

\* ... and L1 nothing older than what its node has settled, or is about to settle.
L1Inv ==
  /\ \A n \in Node, k \in Key \ raced : l1[n][k] = 0 \/ l1[n][k] >= settled[n][k]
  /\ \A r \in Req : job[r].pc = "evictL2" /\ job[r].key \in Key \ raced =>
       l1[job[r].node][job[r].key] = 0

\* The part of the invariant that is about promises only.
Promises == TypeOK /\ PlaceInv /\ PromiseInv /\ OneFetchPerKey /\ WaitInv

\* The part that is about versions.
Versions ==
  /\ SettledInv /\ ApartInv /\ ReadInv /\ L2Inv /\ L1Inv
  /\ ReadYourWritesWhenSerial

IInv == Promises /\ Versions

-----------------------------------------------------------------------------
(* Coalescing: Promises is inductive by itself *)

Others(r) == \A q \in Req \ {r} : job'[q] = job[q]

\* Request r is at the same node and key, with the same promise, before and after.
SamePlace(r) ==
  job'[r].node = job[r].node /\ job'[r].key = job[r].key /\ job'[r].on = job[r].on

\* What the types say about a request at work.
LEMMA AtWork ==
  ASSUME Promises, NEW r \in Req, job[r].pc # "idle"
  PROVE  /\ job[r] \in Job /\ job[r].node \in Node /\ job[r].key \in Key
         /\ job[r].val \in Version /\ job[r].floor \in Version /\ job[r].pc \in PC
         /\ l2[job[r].key] \in Version /\ db[job[r].key] \in Version
         /\ l1[job[r].node][job[r].key] \in Version
         /\ settled[job[r].node][job[r].key] \in Version
         /\ inflight[job[r].node][job[r].key] \in Req \cup {None}
  BY DEF Promises, TypeOK, PlaceInv, Job

\* What an empty slot is.
LEMMA NoJobFacts == /\ NoJob \in Job /\ NoJob.pc = "idle" /\ "idle" \in PC
                    /\ 0 \in Version /\ None \notin Node \cup Req
  BY CacheAssumption DEF Job, NoJob, Version, PC

\* The records that the steps write are jobs again.
LEMMA JobUpdates ==
  ASSUME NEW j \in Job, NEW l \in PC, NEW v \in Version
  PROVE  /\ [j EXCEPT !.pc = l] \in Job
         /\ [j EXCEPT !.pc = l, !.val = v] \in Job
         /\ [j EXCEPT !.val = v, !.pc = l] \in Job
         /\ \A o \in Req : [j EXCEPT !.on = o, !.pc = l] \in Job
         /\ \A ok \in BOOLEAN : [j EXCEPT !.pc = l, !.val = v, !.ok = ok] \in Job
         /\ \A n \in Node, k \in Key :
              /\ [NoJob EXCEPT !.node = n, !.key = k, !.floor = v] \in Job
              /\ [NoJob EXCEPT !.pc = l, !.node = n, !.key = k, !.val = v] \in Job
<1>2. \A n \in Node, k \in Key :
        /\ [NoJob EXCEPT !.node = n, !.key = k, !.floor = v] \in Job
        /\ [NoJob EXCEPT !.pc = l, !.node = n, !.key = k, !.val = v] \in Job
  BY NoJobFacts DEF Job, NoJob
<1>3. /\ [j EXCEPT !.pc = l] \in Job
      /\ [j EXCEPT !.pc = l, !.val = v] \in Job
      /\ [j EXCEPT !.val = v, !.pc = l] \in Job
      /\ \A o \in Req : [j EXCEPT !.on = o, !.pc = l] \in Job
      /\ \A ok \in BOOLEAN : [j EXCEPT !.pc = l, !.val = v, !.ok = ok] \in Job
  BY DEF Job
<1> QED
  BY <1>2, <1>3

\* A step that writes one job.
LEMMA OneJob ==
  ASSUME job \in [Req -> Job], NEW r \in Req, NEW j \in Job,
         job' = [job EXCEPT ![r] = j]
  PROVE  job' \in [Req -> Job] /\ job'[r] = j /\ Others(r)
  BY DEF Others

\* The conjunct of TypeOK that relates the map to the jobs.
MapInv ==
  \A n \in Node, k \in Key : LET r == inflight[n][k] IN
    r # None => job[r].node = n /\ job[r].key = k

\* A request goes on with the work its promise stands for.
LEMMA GoesOn ==
  ASSUME Promises, NEW r \in Req, job[r].pc \in Resolving, job'[r].pc \in Resolving,
         SamePlace(r), Others(r), UNCHANGED inflight
  PROVE  MapInv' /\ PlaceInv' /\ PromiseInv' /\ OneFetchPerKey' /\ WaitInv'
<1> USE DEF Promises, SamePlace, Others
<1>1. MapInv'
  BY DEF TypeOK, MapInv
<1>2. PlaceInv'
  BY DEF PlaceInv, Resolving
<1>3. PromiseInv'
  BY DEF TypeOK, PromiseInv
<1>4. OneFetchPerKey'
  BY DEF OneFetchPerKey
<1>5. WaitInv'
  BY DEF WaitInv, Resolving
<1> QED
  BY <1>1, <1>2, <1>3, <1>4, <1>5

\* A request that has no part in any promise begins, ends, or does something else.
LEMMA Elsewhere ==
  ASSUME Promises, NEW r \in Req, job[r].pc \notin Resolving,
         job'[r].pc \notin Resolving \cup {"wait"},
         job'[r].pc # "idle" => job'[r].node \in Node /\ job'[r].key \in Key,
         Others(r), UNCHANGED inflight
  PROVE  MapInv' /\ PlaceInv' /\ PromiseInv' /\ OneFetchPerKey' /\ WaitInv'
<1> USE DEF Promises, Others
<1>1. \A n \in Node, k \in Key : inflight[n][k] # r
  BY CacheAssumption DEF PromiseInv
<1>2. MapInv'
  BY <1>1 DEF TypeOK, MapInv
<1>3. PlaceInv'
  BY DEF PlaceInv
<1>4. PromiseInv'
  BY <1>1 DEF TypeOK, PromiseInv
<1>5. OneFetchPerKey'
  BY DEF OneFetchPerKey
<1>6. WaitInv'
  BY DEF WaitInv
<1> QED
  BY <1>2, <1>3, <1>4, <1>5, <1>6

\* A request that is idle or was at the filter joins the promise of its key, or makes it.
LEMMA Attaches ==
  ASSUME Promises, NEW r \in Req, NEW n \in Node, NEW k \in Key, NEW j \in Job,
         job[r].pc \in {"idle", "bloom"}, j.node = n, j.key = k,
         Attach(r, n, k, j)
  PROVE  /\ job' \in [Req -> Job] /\ inflight' \in [Node -> [Key -> Req \cup {None}]]
         /\ Others(r) /\ job'[r].node = n /\ job'[r].key = k
         /\ job'[r].floor = j.floor /\ job'[r].pc \in {"l2get", "wait"}
         /\ MapInv' /\ PlaceInv' /\ PromiseInv' /\ OneFetchPerKey' /\ WaitInv'
<1> USE DEF Promises
<1>0. \A m \in Node, x \in Key : inflight[m][x] # r
  BY CacheAssumption DEF PromiseInv, Resolving
<1>1. CASE inflight[n][k] = None
  <2> DEFINE i == [j EXCEPT !.on = r, !.pc = "l2get"]
  <2>1. i \in Job /\ i.node = n /\ i.key = k /\ i.pc = "l2get" /\ i.floor = j.floor
    BY DEF Job, PC, Resolving
  <2>2. job' = [job EXCEPT ![r] = i] /\ inflight' = [inflight EXCEPT ![n][k] = r]
    BY <1>1 DEF Attach, Start
  <2> HIDE DEF i
  <2>3. job' \in [Req -> Job] /\ job'[r] = i /\ Others(r)
    BY <2>1, <2>2, OneJob DEF TypeOK
  <2>4. /\ inflight' \in [Node -> [Key -> Req \cup {None}]]
        /\ inflight'[n][k] = r
        /\ \A m \in Node, x \in Key : m # n \/ x # k => inflight'[m][x] = inflight[m][x]
    BY <2>2 DEF TypeOK
  <2> USE DEF Others
  <2>5. MapInv'
    <3> SUFFICES ASSUME NEW m \in Node, NEW x \in Key, inflight'[m][x] # None
                 PROVE  job'[inflight'[m][x]].node = m /\ job'[inflight'[m][x]].key = x
      BY DEF MapInv
    <3>1. CASE m = n /\ x = k
      BY <2>1, <2>3, <2>4, <3>1
    <3>2. CASE m # n \/ x # k
      BY <1>0, <2>3, <2>4, <3>2 DEF TypeOK
    <3> QED
      BY <3>1, <3>2
  <2>6. PlaceInv'
    BY <2>1, <2>3 DEF PlaceInv
  <2>7. PromiseInv'
    BY <1>0, <2>1, <2>3, <2>4 DEF PromiseInv, TypeOK, Resolving
  <2>8. OneFetchPerKey'
    BY <1>1, <2>1, <2>3, <2>4, CacheAssumption DEF OneFetchPerKey, PlaceInv, Resolving
  <2>9. WaitInv'
    BY <2>1, <2>3 DEF WaitInv, Resolving
  <2> QED
    BY <2>1, <2>3, <2>4, <2>5, <2>6, <2>7, <2>8, <2>9
<1>2. CASE inflight[n][k] # None
  <2> DEFINE o == inflight[n][k]
             i == [j EXCEPT !.on = o, !.pc = "wait"]
  <2>1. o \in Req /\ job[o].pc \in Resolving /\ job[o].node = n /\ job[o].key = k /\ o # r
    BY <1>0, <1>2 DEF TypeOK, PromiseInv
  <2>2. /\ i \in Job /\ i.node = n /\ i.key = k /\ i.pc = "wait" /\ i.on = o
        /\ i.floor = j.floor
    BY <2>1 DEF Job, PC, Resolving
  <2>3. job' = [job EXCEPT ![r] = i] /\ UNCHANGED inflight
    BY <1>2 DEF Attach
  <2> HIDE DEF i, o
  <2>4. job' \in [Req -> Job] /\ job'[r] = i /\ Others(r)
    BY <2>2, <2>3, OneJob DEF TypeOK
  <2> USE DEF Others
  <2>5. MapInv'
    BY <1>0, <2>3, <2>4 DEF MapInv, TypeOK
  <2>6. PlaceInv'
    BY <2>2, <2>4 DEF PlaceInv
  <2>7. PromiseInv'
    BY <1>0, <2>3, <2>4 DEF PromiseInv, TypeOK
  <2>8. OneFetchPerKey'
    BY <2>2, <2>3, <2>4 DEF OneFetchPerKey, Resolving
  <2>9. WaitInv'
    BY <2>1, <2>2, <2>4 DEF WaitInv, Resolving
  <2> QED
    BY <2>2, <2>3, <2>4, <2>5, <2>6, <2>7, <2>8, <2>9 DEF TypeOK
<1> QED
  BY <1>1, <1>2

\* A promise settles: whoever waits for it has its answer.
LEMMA Settles ==
  ASSUME Promises, NEW r \in Req, NEW v \in Version, NEW ok \in BOOLEAN,
         job[r].pc \in Resolving, Settle(r, v, ok)
  PROVE  /\ job' \in [Req -> Job] /\ inflight' \in [Node -> [Key -> Req \cup {None}]]
         /\ MapInv' /\ PlaceInv' /\ PromiseInv' /\ OneFetchPerKey' /\ WaitInv'
<1> USE DEF Promises
<1> DEFINE Told(q) == q = r \/ (job[q].on = r /\ job[q].pc = "wait")
           n == job[r].node
           k == job[r].key
<1>1. n \in Node /\ k \in Key /\ inflight[n][k] = r
  BY DEF PlaceInv, OneFetchPerKey, Resolving
<1>2. /\ \A q \in Req : Told(q) => /\ job'[q] = [job[q] EXCEPT !.pc = "return", !.val = v, !.ok = ok]
                                  /\ job'[q].pc = "return"
                                  /\ job'[q].node = job[q].node /\ job'[q].key = job[q].key
      /\ \A q \in Req : ~ Told(q) => job'[q] = job[q]
      /\ DOMAIN job' = Req /\ job' = [q \in Req |-> job'[q]]
  BY DEF Settle, Outcome, TypeOK, Job
<1>3. /\ inflight' \in [Node -> [Key -> Req \cup {None}]]
      /\ inflight'[n][k] = None
      /\ \A m \in Node, x \in Key : m # n \/ x # k => inflight'[m][x] = inflight[m][x]
  BY <1>1 DEF Settle, TypeOK
<1>4. job' \in [Req -> Job]
  <2>1. \A q \in Req : job'[q] \in Job
    <3> TAKE q \in Req
    <3>1. job[q] \in Job /\ "return" \in PC
      BY DEF TypeOK, PC
    <3>2. [job[q] EXCEPT !.pc = "return", !.val = v, !.ok = ok] \in Job
      BY <3>1, JobUpdates
    <3> QED
      BY <1>2, <3>1, <3>2
  <2> QED
    BY <1>2, <2>1
<1>5. \A m \in Node, x \in Key : inflight'[m][x] # None =>
        /\ inflight'[m][x] = inflight[m][x] /\ inflight[m][x] \in Req
        /\ ~ Told(inflight[m][x])
  <2> SUFFICES ASSUME NEW m \in Node, NEW x \in Key, inflight'[m][x] # None
               PROVE  /\ inflight'[m][x] = inflight[m][x] /\ inflight[m][x] \in Req
                      /\ ~ Told(inflight[m][x])
    OBVIOUS
  <2>1. inflight'[m][x] = inflight[m][x] /\ (m # n \/ x # k)
    BY <1>3
  <2>2. inflight[m][x] \in Req /\ job[inflight[m][x]].pc \in Resolving
    BY <2>1 DEF TypeOK, PromiseInv
  <2>3. job[inflight[m][x]].node = m /\ job[inflight[m][x]].key = x
    BY <2>1 DEF TypeOK
  <2> QED
    BY <2>1, <2>2, <2>3 DEF Resolving
<1> HIDE DEF Told, n, k
<1>6. MapInv'
  <2> SUFFICES ASSUME NEW m \in Node, NEW x \in Key, inflight'[m][x] # None
               PROVE  job'[inflight'[m][x]].node = m /\ job'[inflight'[m][x]].key = x
    BY DEF MapInv
  <2>1. inflight'[m][x] = inflight[m][x] /\ job'[inflight[m][x]] = job[inflight[m][x]]
    BY <1>2, <1>5
  <2> QED
    BY <2>1 DEF TypeOK
<1>7. PlaceInv'
  BY <1>2 DEF PlaceInv, Told, Resolving
<1>8. PromiseInv'
  <2> SUFFICES ASSUME NEW m \in Node, NEW x \in Key, inflight'[m][x] # None
               PROVE  job'[inflight'[m][x]].pc \in Resolving
    BY DEF PromiseInv
  <2>1. /\ inflight'[m][x] = inflight[m][x] /\ job'[inflight[m][x]] = job[inflight[m][x]]
        /\ job[inflight[m][x]].pc \in Resolving
    BY <1>2, <1>5 DEF PromiseInv
  <2> QED
    BY <2>1
<1>9. OneFetchPerKey'
  <2> SUFFICES ASSUME NEW q \in Req, job'[q].pc \in Resolving
               PROVE  inflight'[job'[q].node][job'[q].key] = q
    BY DEF OneFetchPerKey
  <2>1. ~ Told(q) /\ job'[q] = job[q]
    BY <1>2 DEF Resolving
  <2>2. inflight[job[q].node][job[q].key] = q /\ q # r /\ job[q].node \in Node /\ job[q].key \in Key
    BY <2>1 DEF OneFetchPerKey, Told, PlaceInv, Resolving
  <2> QED
    BY <1>1, <1>3, <2>1, <2>2
<1>10. WaitInv'
  <2> SUFFICES ASSUME NEW q \in Req, job'[q].pc = "wait"
               PROVE  /\ job'[q].on \in Req
                      /\ job'[job'[q].on].pc \in Resolving
                      /\ job'[job'[q].on].node = job'[q].node
                      /\ job'[job'[q].on].key = job'[q].key
    BY DEF WaitInv
  <2>1. ~ Told(q) /\ job'[q] = job[q]
    BY <1>2
  <2>2. job[q].on \in Req /\ job[job[q].on].pc \in Resolving /\ ~ Told(job[q].on)
    BY <2>1 DEF WaitInv, Told, Resolving
  <2> QED
    <3>1. job'[job[q].on] = job[job[q].on]
      BY <1>2, <2>2
    <3> QED
      BY <2>1, <2>2, <3>1 DEF WaitInv
<1> QED
  BY <1>3, <1>4, <1>6, <1>7, <1>8, <1>9, <1>10

\* The types of what is not a promise.
StoreTypes ==
  /\ db \in [Key -> Version] /\ l2 \in [Key -> Version]
  /\ l1 \in [Node -> [Key -> Version]] /\ settled \in [Node -> [Key -> Version]]
  /\ raced \subseteq Key

\* A step that gives request r the record j.
LEMMA Moves ==
  ASSUME Promises, NEW r \in Req, NEW j \in Job, job' = [job EXCEPT ![r] = j],
         UNCHANGED inflight, StoreTypes',
         \/ /\ job[r].pc \in Resolving /\ j.pc \in Resolving
            /\ j.node = job[r].node /\ j.key = job[r].key /\ j.on = job[r].on
         \/ /\ job[r].pc \notin Resolving /\ j.pc \notin Resolving \cup {"wait"}
            /\ j.pc # "idle" => j.node \in Node /\ j.key \in Key
  PROVE  Promises' /\ Others(r) /\ job'[r] = j
<1>1. job' \in [Req -> Job] /\ job'[r] = j /\ Others(r)
  BY OneJob DEF Promises, TypeOK
<1>2. MapInv' /\ PlaceInv' /\ PromiseInv' /\ OneFetchPerKey' /\ WaitInv'
  BY <1>1, GoesOn, Elsewhere DEF SamePlace
<1>3. inflight' \in [Node -> [Key -> Req \cup {None}]]
  BY DEF Promises, TypeOK
<1> QED
  BY <1>1, <1>2, <1>3 DEF Promises, TypeOK, MapInv, StoreTypes

\* Every step keeps it.
LEMMA PromisesStep ==
  ASSUME Promises, [Next]_vars
  PROVE  Promises'
<1>0. StoreTypes /\ job \in [Req -> Job] /\ 0 \in Version
  BY CacheAssumption DEF Promises, TypeOK, StoreTypes, Version
<1>1. ASSUME NEW r \in Req, NEW n \in Node, NEW k \in Key, NEW b \in BOOLEAN, Get(r, n, k, b)
      PROVE  Promises'
  <2> DEFINE j == [NoJob EXCEPT !.node = n, !.key = k, !.floor = settled[n][k]]
             i == [j EXCEPT !.pc = "return", !.val = l1[n][k]]
             h == [j EXCEPT !.pc = "bloom"]
  <2>1. j \in Job /\ j.node = n /\ j.key = k /\ job[r].pc = "idle" /\ StoreTypes'
    <3>1. settled[n][k] \in Version /\ "idle" \in PC
      BY <1>0 DEF StoreTypes, PC
    <3> QED
      BY <1>1, <3>1, <1>0, JobUpdates DEF Get, Attach, Start, StoreTypes, NoJob
  <2>2. CASE l1[n][k] # 0
    <3>1. i \in Job /\ i.pc = "return" /\ i.node = n /\ i.key = k
      <4>1. l1[n][k] \in Version /\ "return" \in PC
        BY <1>0 DEF StoreTypes, PC
      <4> HIDE DEF j
      <4> QED
        BY <2>1, <4>1 DEF Job
    <3> QED
      BY <1>1, <2>1, <2>2, <3>1, Moves DEF Get, Resolving
  <2>3. CASE l1[n][k] = 0 /\ b
    <3>1. Attach(r, n, k, j)
      BY <1>1, <2>3 DEF Get
    <3> QED
      BY <2>1, <3>1, Attaches DEF Promises, TypeOK, MapInv, StoreTypes
  <2>4. CASE l1[n][k] = 0 /\ ~ b
    <3>1. h \in Job /\ h.pc = "bloom" /\ h.node = n /\ h.key = k
      BY <1>0, <2>1 DEF Job, PC
    <3> QED
      BY <1>1, <2>1, <2>4, <3>1, Moves DEF Get, Resolving
  <2> QED
    BY <2>2, <2>3, <2>4
<1>2. ASSUME NEW r \in Req, BloomAnswers(r)
      PROVE  Promises'
  <2>1. StoreTypes' /\ job[r].pc = "bloom" /\ job[r] \in Job
        /\ job[r].node \in Node /\ job[r].key \in Key
    BY <1>0, <1>2, AtWork DEF BloomAnswers, Attach, Start, StoreTypes
  <2>2. CASE job' = [job EXCEPT ![r] = NoJob] /\ UNCHANGED inflight
    BY <2>1, <2>2, NoJobFacts, Moves DEF Resolving
  <2>3. CASE Attach(r, job[r].node, job[r].key, job[r])
    BY <2>1, <2>3, Attaches DEF Promises, TypeOK, MapInv, StoreTypes
  <2> QED
    BY <1>2, <2>2, <2>3 DEF BloomAnswers
<1>3. ASSUME NEW r \in Req, L2Get(r)
      PROVE  Promises'
  <2> DEFINE i == [job[r] EXCEPT !.pc = "l2hit", !.val = l2[job[r].key]]
             h == [job[r] EXCEPT !.pc = "fetch"]
  <2>1. job[r].pc = "l2get" /\ job[r] \in Job /\ l2[job[r].key] \in Version /\ StoreTypes'
    BY <1>0, <1>3, AtWork DEF L2Get, StoreTypes
  <2>2. /\ i \in Job /\ i.pc = "l2hit" /\ i.node = job[r].node /\ i.key = job[r].key /\ i.on = job[r].on
        /\ h \in Job /\ h.pc = "fetch" /\ h.node = job[r].node /\ h.key = job[r].key /\ h.on = job[r].on
    BY <2>1 DEF Job, PC, Resolving
  <2>3. CASE job' = [job EXCEPT ![r] = i]
    BY <1>3, <2>1, <2>2, <2>3, Moves DEF L2Get, Resolving
  <2>4. CASE job' = [job EXCEPT ![r] = h]
    BY <1>3, <2>1, <2>2, <2>4, Moves DEF L2Get, Resolving
  <2> QED
    BY <1>3, <2>3, <2>4 DEF L2Get, Goto
<1>4. ASSUME NEW r \in Req, L2Hit(r)
      PROVE  Promises'
  <2>1. job[r].pc = "l2hit" /\ job[r].val \in Version /\ job[r].node \in Node /\ job[r].key \in Key
    BY <1>4, AtWork DEF L2Hit
  <2>2. StoreTypes'
    BY <1>0, <1>4, <2>1 DEF L2Hit, SetL1, StoreTypes
  <2> QED
    BY <1>4, <2>1, <2>2, Settles DEF L2Hit, Resolving, Promises, TypeOK, MapInv, StoreTypes
<1>5. ASSUME NEW r \in Req, Fetch(r)
      PROVE  Promises'
  <2> DEFINE i == [job[r] EXCEPT !.val = db[job[r].key],
                                 !.pc = IF db[job[r].key] = 0 THEN "noRow" ELSE "setex"]
  <2>1. job[r].pc = "fetch" /\ job[r] \in Job /\ db[job[r].key] \in Version /\ StoreTypes'
    BY <1>0, <1>5, AtWork DEF Fetch, StoreTypes
  <2>2. CASE job' = [job EXCEPT ![r] = i] /\ UNCHANGED inflight
    <3>1. /\ i \in Job /\ i.pc \in Resolving
          /\ i.node = job[r].node /\ i.key = job[r].key /\ i.on = job[r].on
      BY <2>1 DEF Job, PC, Resolving
    <3> QED
      BY <2>1, <2>2, <3>1, Moves DEF Resolving
  <2>3. CASE Settle(r, 0, FALSE)
    BY <1>0, <2>1, <2>3, Settles DEF Resolving, Promises, TypeOK, MapInv, StoreTypes
  <2> QED
    BY <1>5, <2>2, <2>3 DEF Fetch
<1>6. ASSUME NEW r \in Req, NoRow(r)
      PROVE  Promises'
  <2>1. job[r].pc = "noRow" /\ StoreTypes' /\ Settle(r, 0, TRUE)
    BY <1>0, <1>6 DEF NoRow, StoreTypes
  <2> QED
    BY <1>0, <2>1, Settles DEF Resolving, Promises, TypeOK, MapInv, StoreTypes
<1>7. ASSUME NEW r \in Req, SetEx(r)
      PROVE  Promises'
  <2> DEFINE i == [job[r] EXCEPT !.pc = "hydrate"]
  <2>1. job[r].pc = "setex" /\ job[r] \in Job /\ job[r].val \in Version
    BY <1>7, AtWork DEF SetEx
  <2>2. StoreTypes'
    BY <1>0, <1>7, <2>1 DEF SetEx, StoreTypes
  <2>3. /\ i \in Job /\ i.pc = "hydrate"
        /\ i.node = job[r].node /\ i.key = job[r].key /\ i.on = job[r].on
    BY <2>1 DEF Job, PC, Resolving
  <2> QED
    BY <1>7, <2>1, <2>2, <2>3, Moves DEF SetEx, Goto, Resolving
<1>8. ASSUME NEW r \in Req, Hydrate(r)
      PROVE  Promises'
  <2> DEFINE i == [job[r] EXCEPT !.pc = "add"]
  <2>1. job[r].pc = "hydrate" /\ job[r] \in Job /\ job[r].val \in Version
        /\ job[r].node \in Node /\ job[r].key \in Key
    BY <1>8, AtWork DEF Hydrate
  <2>2. StoreTypes'
    BY <1>0, <1>8, <2>1 DEF Hydrate, SetL1, StoreTypes
  <2>3. /\ i \in Job /\ i.pc = "add"
        /\ i.node = job[r].node /\ i.key = job[r].key /\ i.on = job[r].on
    BY <2>1 DEF Job, PC, Resolving
  <2> QED
    BY <1>8, <2>1, <2>2, <2>3, Moves DEF Hydrate, Goto, Resolving
<1>9. ASSUME NEW r \in Req, BloomAdded(r)
      PROVE  Promises'
  <2>1. job[r].pc = "add" /\ StoreTypes' /\ Settle(r, job[r].val, TRUE) /\ job[r].val \in Version
    BY <1>0, <1>9, AtWork DEF BloomAdded, StoreTypes
  <2> QED
    BY <2>1, Settles DEF Resolving, Promises, TypeOK, MapInv, StoreTypes
<1>10. ASSUME NEW r \in Req, Return(r)
       PROVE  Promises'
  <2>1. job[r].pc = "return" /\ StoreTypes' /\ NoJob \in Job /\ NoJob.pc = "idle"
    BY <1>0, <1>10, NoJobFacts DEF Return, StoreTypes
  <2> QED
    BY <1>10, <2>1, Moves DEF Return, Resolving
<1>11. ASSUME NEW k \in Key, Create(k)
       PROVE  Promises'
  <2>1. StoreTypes'
    BY <1>0, <1>11, CacheAssumption DEF Create, StoreTypes, Version
  <2> QED
    BY <1>11, <2>1 DEF Create, Promises, TypeOK, StoreTypes, PlaceInv, PromiseInv, OneFetchPerKey, WaitInv
<1>12. ASSUME NEW r \in Req, NEW n \in Node, NEW k \in Key, Update(r, n, k)
       PROVE  Promises'
  <2> DEFINE i == [NoJob EXCEPT !.pc = "evictL1", !.node = n, !.key = k, !.val = db[k] + 1]
  <2>1. job[r].pc = "idle" /\ db[k] + 1 \in Version
    BY <1>0, <1>12, CacheAssumption DEF Update, StoreTypes, Version
  <2>2. StoreTypes'
    BY <1>0, <1>12, <2>1 DEF Update, StoreTypes
  <2>3. i \in Job /\ i.pc = "evictL1" /\ i.node = n /\ i.key = k
    <3>1. "evictL1" \in PC
      BY DEF PC, Writing
    <3> QED
      BY <1>0, <2>1, <3>1, JobUpdates DEF NoJob
  <2> QED
    BY <1>12, <2>1, <2>2, <2>3, Moves DEF Update, Resolving
<1>13. ASSUME NEW r \in Req, EvictL1(r)
       PROVE  Promises'
  <2> DEFINE i == [job[r] EXCEPT !.pc = "evictL2"]
  <2>1. job[r].pc = "evictL1" /\ job[r] \in Job /\ job[r].node \in Node /\ job[r].key \in Key
    BY <1>13, AtWork DEF EvictL1
  <2>2. StoreTypes'
    BY <1>0, <1>13, <2>1 DEF EvictL1, StoreTypes
  <2>3. i \in Job /\ i.pc = "evictL2" /\ i.node = job[r].node /\ i.key = job[r].key
    BY <2>1 DEF Job, PC, Writing
  <2> QED
    BY <1>13, <2>1, <2>2, <2>3, Moves DEF EvictL1, Goto, Resolving
<1>14. ASSUME NEW r \in Req, EvictL2(r)
       PROVE  Promises'
  <2>1. /\ job[r].pc = "evictL2" /\ job[r].val \in Version
        /\ job[r].node \in Node /\ job[r].key \in Key
        /\ settled[job[r].node][job[r].key] \in Version
    BY <1>14, AtWork DEF EvictL2
  <2>2. StoreTypes'
    <3> DEFINE w == IF settled[job[r].node][job[r].key] < job[r].val
                    THEN job[r].val ELSE settled[job[r].node][job[r].key]
    <3>1. w \in Version /\ 0 \in Version
      BY <2>1, NoJobFacts
    <3>2. \/ /\ settled' = [settled EXCEPT ![job[r].node][job[r].key] = w]
             /\ l2' = [l2 EXCEPT ![job[r].key] = 0] /\ UNCHANGED raced
          \/ raced' = raced \cup {job[r].key} /\ UNCHANGED <<l2, settled>>
      BY <1>14 DEF EvictL2
    <3> HIDE DEF w
    <3>3. settled' \in [Node -> [Key -> Version]]
      <4> SUFFICES ASSUME settled' = [settled EXCEPT ![job[r].node][job[r].key] = w]
                   PROVE  settled' \in [Node -> [Key -> Version]]
        BY <1>0, <3>2 DEF StoreTypes
      <4>1. settled \in [Node -> [Key -> Version]]
        BY <1>0 DEF StoreTypes
      <4> QED
        BY <2>1, <3>1, <4>1
    <3>4. l2' \in [Key -> Version] /\ raced' \subseteq Key
      BY <1>0, <2>1, <3>1, <3>2 DEF StoreTypes
    <3> QED
      BY <1>0, <1>14, <3>3, <3>4 DEF EvictL2, StoreTypes
  <2> QED
    BY <1>14, <2>1, <2>2, NoJobFacts, Moves DEF EvictL2, Resolving
<1>15. ASSUME NEW n \in Node, NEW k \in Key, Forget(n, k)
       PROVE  Promises'
  <2>1. StoreTypes'
    BY <1>0, <1>15 DEF Forget, StoreTypes
  <2> QED
    BY <1>15, <2>1 DEF Forget, Promises, TypeOK, StoreTypes, PlaceInv, PromiseInv, OneFetchPerKey, WaitInv
<1>16. ASSUME NEW k \in Key, ExpireL2(k)
       PROVE  Promises'
  <2>1. StoreTypes'
    BY <1>0, <1>16 DEF ExpireL2, StoreTypes
  <2> QED
    BY <1>16, <2>1 DEF ExpireL2, Promises, TypeOK, StoreTypes, PlaceInv, PromiseInv, OneFetchPerKey, WaitInv
<1>17. ASSUME NEW n \in Node, Restart(n)
       PROVE  Promises'
  <2> USE DEF Promises
  <2>1. StoreTypes'
    BY <1>0, <1>17 DEF Restart, StoreTypes
  <2>2. /\ job' \in [Req -> Job]
        /\ \A q \in Req : job[q].node = n => job'[q] = NoJob
        /\ \A q \in Req : job[q].node # n => job'[q] = job[q]
    BY <1>0, <1>17, NoJobFacts DEF Restart
  <2>3. /\ inflight' \in [Node -> [Key -> Req \cup {None}]]
        /\ \A k \in Key : inflight'[n][k] = None
        /\ \A m \in Node \ {n}, k \in Key : inflight'[m][k] = inflight[m][k]
    BY <1>17 DEF Restart, TypeOK
  <2>4. \A m \in Node, k \in Key : inflight'[m][k] # None =>
          /\ inflight'[m][k] = inflight[m][k] /\ inflight[m][k] \in Req
          /\ job'[inflight[m][k]] = job[inflight[m][k]]
    <3> SUFFICES ASSUME NEW m \in Node, NEW k \in Key, inflight'[m][k] # None
                 PROVE  /\ inflight'[m][k] = inflight[m][k] /\ inflight[m][k] \in Req
                        /\ job'[inflight[m][k]] = job[inflight[m][k]]
      OBVIOUS
    <3>1. inflight'[m][k] = inflight[m][k] /\ m # n /\ inflight[m][k] \in Req
      BY <2>3 DEF TypeOK
    <3>2. job[inflight[m][k]].node = m
      BY <3>1 DEF TypeOK
    <3> QED
      BY <2>2, <3>1, <3>2
  <2>5. MapInv'
    BY <2>4 DEF MapInv, TypeOK
  <2>6. PlaceInv'
    BY <2>2 DEF PlaceInv, NoJob
  <2>7. PromiseInv'
    BY <2>4 DEF PromiseInv
  <2>8. OneFetchPerKey'
    <3> SUFFICES ASSUME NEW q \in Req, job'[q].pc \in Resolving
                 PROVE  inflight'[job'[q].node][job'[q].key] = q
      BY DEF OneFetchPerKey
    <3>1. job'[q] = job[q] /\ job[q].node # n
      BY <2>2 DEF NoJob, Resolving
    <3> QED
      BY <2>3, <3>1 DEF OneFetchPerKey, PlaceInv, Resolving
  <2>9. WaitInv'
    BY <2>2 DEF WaitInv, NoJob
  <2> QED
    BY <2>1, <2>2, <2>3, <2>5, <2>6, <2>7, <2>8, <2>9 DEF TypeOK, MapInv, StoreTypes
<1>18. CASE UNCHANGED vars
  BY <1>18 DEF vars, Promises, TypeOK, PlaceInv, PromiseInv, OneFetchPerKey, WaitInv
<1> QED
  BY <1>1, <1>2, <1>3, <1>4, <1>5, <1>6, <1>7, <1>8, <1>9, <1>10, <1>11, <1>12, <1>13,
     <1>14, <1>15, <1>16, <1>17, <1>18 DEF Next, Serve, Resolve

\* It holds at the start.
LEMMA PromisesInit == Init => Promises
<1> SUFFICES ASSUME Init
             PROVE  Promises
  OBVIOUS
<1>1. 0 \in Version /\ NoJob \in Job
  BY NoJobFacts
<1> QED
  BY <1>1 DEF Init, Promises, TypeOK, PlaceInv, PromiseInv, OneFetchPerKey, WaitInv, NoJob, Resolving

\* Type correctness.
THEOREM TypeCorrect == Spec => []TypeOK
<1>1. Promises => TypeOK
  BY DEF Promises
<1> QED
  BY <1>1, PromisesInit, PromisesStep, PTL DEF Spec

\* A node has at most one promise per key at work, whatever awaits lie between the
\* look at the map and the entry, whatever fails and whenever a node restarts.
THEOREM Coalescing == Spec => []OneFetchPerKey
<1>1. Promises => OneFetchPerKey
  BY DEF Promises
<1> QED
  BY <1>1, PromisesInit, PromisesStep, PTL DEF Spec

-----------------------------------------------------------------------------
(* Coalescing as SingleFlight states it *)

\* Nothing that it sees changes.
LEMMA Unseen ==
  ASSUME \A r \in Req : /\ Asks(r)' = Asks(r) /\ Tells(r)' = Tells(r)
                        /\ job'[r].pc \in Resolving <=> job[r].pc \in Resolving
  PROVE  UNCHANGED Flight!flight
<1>1. [r \in Req |-> Asks(r)]' = [r \in Req |-> Asks(r)]
  OBVIOUS
<1>2. [r \in Req |-> Tells(r)]' = [r \in Req |-> Tells(r)]
  OBVIOUS
<1>3. {r \in Req : job[r].pc \in Resolving}' = {r \in Req : job[r].pc \in Resolving}
  OBVIOUS
<1> QED
  BY <1>1, <1>2, <1>3 DEF Flight!flight

\* A request that moves, but neither into nor out of what SingleFlight sees.
LEMMA MovesUnseen ==
  ASSUME NEW r \in Req, Others(r),
         \/ /\ job[r].pc \in Resolving /\ job'[r].pc \in Resolving
            /\ job'[r].node = job[r].node /\ job'[r].key = job[r].key
         \/ {job[r].pc, job'[r].pc} \cap (Resolving \cup {"wait", "return"}) = {}
  PROVE  UNCHANGED Flight!flight
<1>1. \A q \in Req : /\ Asks(q)' = Asks(q) /\ Tells(q)' = Tells(q)
                     /\ job'[q].pc \in Resolving <=> job[q].pc \in Resolving
  <2> TAKE q \in Req
  <2>1. CASE q = r
    BY <2>1 DEF Asks, Tells, Resolving
  <2>2. CASE q # r
    BY <2>2 DEF Others, Asks, Tells
  <2> QED
    BY <2>1, <2>2
<1> QED
  BY <1>1, Unseen

\* Whoever joins the promise of its key, or makes it, asks for the key at its node.
LEMMA AttachAsks ==
  ASSUME Promises, NEW r \in Req, NEW n \in Node, NEW k \in Key, NEW j \in Job,
         job[r].pc \in {"idle", "bloom"}, j.node = n, j.key = k, Attach(r, n, k, j)
  PROVE  Flight!Ask(r, <<n, k>>)
<1> DEFINE asks == [q \in Req |-> Asks(q)]
           lead == {q \in Req : job[q].pc \in Resolving}
           busy == \E d \in lead : asks[d] = {<<n, k>>}
<1>1. /\ Others(r) /\ job'[r].node = n /\ job'[r].key = k
      /\ job'[r].pc \in {"l2get", "wait"}
  BY Attaches
<1>2. asks[r] = {} /\ Tells(r) = {}
  BY DEF Asks, Tells, Resolving
<1>3. asks' = [asks EXCEPT ![r] = {<<n, k>>}]
  <2>1. Asks(r)' = {<<n, k>>} /\ \A q \in Req \ {r} : Asks(q)' = Asks(q)
    BY <1>1 DEF Asks, Resolving, Others
  <2> QED
    BY <2>1
<1>4. [q \in Req |-> Tells(q)]' = [q \in Req |-> Tells(q)]
  <2>1. \A q \in Req : Tells(q)' = Tells(q)
    BY <1>1, <1>2 DEF Tells, Others
  <2> QED
    BY <2>1
<1>5. busy <=> inflight[n][k] # None
  <2>1. ASSUME inflight[n][k] # None PROVE busy
    <3>1. /\ inflight[n][k] \in Req /\ job[inflight[n][k]].pc \in Resolving
          /\ job[inflight[n][k]].node = n /\ job[inflight[n][k]].key = k
      BY <2>1 DEF Promises, PromiseInv, TypeOK
    <3> QED
      BY <3>1 DEF Asks
  <2>2. ASSUME busy PROVE inflight[n][k] # None
    <3>1. PICK d \in Req : job[d].pc \in Resolving /\ Asks(d) = {<<n, k>>}
      BY <2>2
    <3>2. <<job[d].node, job[d].key>> \in {<<n, k>>}
      BY <3>1 DEF Asks
    <3>3. job[d].node = n /\ job[d].key = k
      BY <3>2
    <3> QED
      BY <3>1, <3>3, CacheAssumption DEF Promises, OneFetchPerKey
  <2> QED
    BY <2>1, <2>2
<1>6. job'[r].pc \in Resolving <=> inflight[n][k] = None
  <2>1. /\ [j EXCEPT !.on = r, !.pc = "l2get"].pc = "l2get"
        /\ [j EXCEPT !.on = inflight[n][k], !.pc = "wait"].pc = "wait"
    BY DEF Job
  <2>2. job \in [Req -> Job]
    BY DEF Promises, TypeOK
  <2> QED
    BY <2>1, <2>2 DEF Attach, Start, Resolving
<1>7. lead' = IF busy THEN lead ELSE lead \cup {r}
  <2>1. r \notin lead
    BY DEF Resolving
  <2>2. \A q \in Req \ {r} : q \in lead' <=> q \in lead
    BY <1>1 DEF Others
  <2>3. r \in lead' <=> ~ busy
    BY <1>5, <1>6
  <2>4. lead \subseteq Req /\ lead' \subseteq Req
    OBVIOUS
  <2> HIDE DEF lead, busy
  <2> QED
    BY <2>1, <2>2, <2>3, <2>4
<1> QED
  BY <1>2, <1>3, <1>4, <1>7 DEF Flight!Ask, Flight!Free, Flight!Busy

\* When a promise settles, whoever asks for its place is told, and nobody else.
LEMMA SettleLands ==
  ASSUME Promises, NEW r \in Req, NEW v \in Version, NEW ok \in BOOLEAN,
         job[r].pc \in Resolving, Settle(r, v, ok)
  PROVE  Flight!Land(r, <<v, ok>>)
<1> DEFINE asks == [q \in Req |-> Asks(q)]
           told == [q \in Req |-> Tells(q)]
           lead == {q \in Req : job[q].pc \in Resolving}
           Joined(q) == q = r \/ (job[q].on = r /\ job[q].pc = "wait")
<1>1. Asks(r) = {<<job[r].node, job[r].key>>}
  BY DEF Asks
<1>2. \A q \in Req : Asks(q) = Asks(r) <=> Joined(q)
  <2> TAKE q \in Req
  <2>1. ASSUME Joined(q) PROVE Asks(q) = Asks(r)
    BY <2>1, <1>1 DEF Promises, WaitInv, Asks
  <2>2. ASSUME Asks(q) = Asks(r) PROVE Joined(q)
    <3>1. /\ job[q].pc \in Resolving \cup {"wait"}
          /\ job[q].node = job[r].node /\ job[q].key = job[r].key
      <4>1. Asks(q) = {<<job[r].node, job[r].key>>}
        BY <1>1, <2>2
      <4>2. job[q].pc \in Resolving \cup {"wait"}
        BY <4>1 DEF Asks
      <4>3. <<job[q].node, job[q].key>> \in {<<job[r].node, job[r].key>>}
        BY <4>1, <4>2 DEF Asks
      <4> QED
        BY <4>2, <4>3
    <3>2. inflight[job[r].node][job[r].key] = r
      BY DEF Promises, OneFetchPerKey
    <3>3. CASE job[q].pc \in Resolving
      BY <3>1, <3>2, <3>3 DEF Promises, OneFetchPerKey
    <3>4. CASE job[q].pc = "wait"
      <4>1. /\ job[q].on \in Req /\ job[job[q].on].pc \in Resolving
            /\ job[job[q].on].node = job[r].node /\ job[job[q].on].key = job[r].key
        BY <3>1, <3>4 DEF Promises, WaitInv
      <4> QED
        BY <3>2, <3>4, <4>1 DEF Promises, OneFetchPerKey
    <3> QED
      BY <3>1, <3>3, <3>4
  <2> QED
    BY <2>1, <2>2
<1>3. /\ \A q \in Req : Joined(q) => job'[q].pc = "return" /\ job'[q].val = v /\ job'[q].ok = ok
      /\ \A q \in Req : ~Joined(q) => job'[q] = job[q]
  BY DEF Settle, Outcome, Promises, TypeOK, Job
<1>4. \A q \in Req : Joined(q) => /\ Asks(q)' = {} /\ Tells(q)' = {<<v, ok>>}
                                  /\ job'[q].pc \notin Resolving
  BY <1>3 DEF Asks, Tells, Resolving
<1>5. \A q \in Req : ~Joined(q) => /\ Asks(q)' = Asks(q) /\ Tells(q)' = Tells(q)
                                   /\ job'[q].pc \in Resolving <=> job[q].pc \in Resolving
  BY <1>3 DEF Asks, Tells
<1>6. \A q \in Req : Joined(q) /\ job[q].pc \in Resolving <=> q = r
  BY DEF Resolving
<1> HIDE DEF Joined
<1>7. asks' = [q \in Req |-> IF asks[q] = asks[r] THEN {} ELSE asks[q]]
  BY <1>2, <1>4, <1>5
<1>8. told' = [q \in Req |-> IF asks[q] = asks[r] THEN {<<v, ok>>} ELSE told[q]]
  BY <1>2, <1>4, <1>5
<1>9. lead' = lead \ {r} /\ r \in lead
  BY <1>4, <1>5, <1>6
<1> QED
  BY <1>7, <1>8, <1>9 DEF Flight!Land

\* A request that finds its answer in the L1 has it at once.
LEMMA AnswersAtOnce ==
  ASSUME NEW r \in Req, job[r].pc = "idle", job'[r].pc = "return", Others(r)
  PROVE  Flight!Hit(r, <<job'[r].val, job'[r].ok>>)
<1>1. /\ Asks(r) = {} /\ Tells(r) = {} /\ job[r].pc \notin Resolving
      /\ Asks(r)' = {} /\ Tells(r)' = {<<job'[r].val, job'[r].ok>>}
      /\ job'[r].pc \notin Resolving
  BY DEF Asks, Tells, Resolving
<1>2. \A q \in Req \ {r} : Asks(q)' = Asks(q) /\ Tells(q)' = Tells(q) /\ job'[q] = job[q]
  BY DEF Asks, Tells, Others
<1>3. [q \in Req |-> Asks(q)]' = [q \in Req |-> Asks(q)]
  BY <1>1, <1>2
<1>4. [q \in Req |-> Tells(q)]'
        = [[q \in Req |-> Tells(q)] EXCEPT ![r] = {<<job'[r].val, job'[r].ok>>}]
  BY <1>1, <1>2
<1>5. {q \in Req : job[q].pc \in Resolving}' = {q \in Req : job[q].pc \in Resolving}
  BY <1>1, <1>2
<1> QED
  BY <1>1, <1>3, <1>4, <1>5 DEF Flight!Hit, Flight!Free

\* A request that returns its answer has none any more.
LEMMA ReturnsAnswer ==
  ASSUME NEW r \in Req, job[r].pc = "return", job'[r].pc = "idle", Others(r)
  PROVE  Flight!Return(r)
<1>1. /\ Asks(r) = {} /\ Tells(r) # {} /\ job[r].pc \notin Resolving
      /\ Asks(r)' = {} /\ Tells(r)' = {} /\ job'[r].pc \notin Resolving
  BY DEF Asks, Tells, Resolving
<1>2. \A q \in Req \ {r} : Asks(q)' = Asks(q) /\ Tells(q)' = Tells(q) /\ job'[q] = job[q]
  BY DEF Asks, Tells, Others
<1>3. [q \in Req |-> Asks(q)]' = [q \in Req |-> Asks(q)]
  BY <1>1, <1>2
<1>4. [q \in Req |-> Tells(q)]' = [[q \in Req |-> Tells(q)] EXCEPT ![r] = {}]
  BY <1>1, <1>2
<1>5. {q \in Req : job[q].pc \in Resolving}' = {q \in Req : job[q].pc \in Resolving}
  BY <1>1, <1>2
<1> QED
  BY <1>1, <1>3, <1>4, <1>5 DEF Flight!Return

\* A node that restarts takes with it all its requests, and those that wait for them.
LEMMA RestartKills ==
  ASSUME Promises, NEW n \in Node, Restart(n)
  PROVE  \E C \in SUBSET Req : Flight!Die(C)
<1>0. PICK C \in SUBSET Req : C = {q \in Req : job[q].node = n}
  OBVIOUS
<1>1. /\ \A q \in C : job'[q].pc = "idle"
      /\ \A q \in Req \ C : job'[q] = job[q]
  BY <1>0, NoJobFacts DEF Restart
<1>2. /\ \A q \in C : Asks(q)' = {} /\ Tells(q)' = {} /\ job'[q].pc \notin Resolving
      /\ \A q \in Req \ C : Asks(q)' = Asks(q) /\ Tells(q)' = Tells(q) /\ job'[q] = job[q]
  BY <1>1 DEF Asks, Tells, Resolving
<1>3. \A c \in C, d \in Req : Asks(c) # {} /\ Asks(d) = Asks(c) => d \in C
  <2> SUFFICES ASSUME NEW c \in C, NEW d \in Req, Asks(c) # {}, Asks(d) = Asks(c)
               PROVE  job[d].node = n
    BY <1>0
  <2>1. Asks(c) = {<<job[c].node, job[c].key>>} /\ Asks(d) = {<<job[d].node, job[d].key>>}
    BY DEF Asks
  <2>2. <<job[d].node, job[d].key>> \in {<<job[c].node, job[c].key>>}
    BY <2>1
  <2> QED
    BY <1>0, <2>2
<1>4. [q \in Req |-> Asks(q)]' = [q \in Req |-> IF q \in C THEN {} ELSE Asks(q)]
  BY <1>2
<1>5. [q \in Req |-> Tells(q)]' = [q \in Req |-> IF q \in C THEN {} ELSE Tells(q)]
  BY <1>2
<1>6. {q \in Req : job[q].pc \in Resolving}' = {q \in Req : job[q].pc \in Resolving} \ C
  BY <1>2
<1>7. Flight!Die(C)
  BY <1>3, <1>4, <1>5, <1>6 DEF Flight!Die
<1> QED
  BY <1>7

\* Every step of the cache is a step of SingleFlight, or none.
LEMMA FlightStep ==
  ASSUME Promises, [Next]_vars
  PROVE  [Flight!Next]_(Flight!flight)
<1> USE DEF Flight!Next
<1>0. job \in [Req -> Job] /\ Promises' /\ NoJob \in Job /\ NoJob.pc = "idle"
  BY PromisesStep, NoJobFacts DEF Promises, TypeOK
<1>1. ASSUME NEW r \in Req, NEW n \in Node, NEW k \in Key, NEW b \in BOOLEAN, Get(r, n, k, b)
      PROVE  [Flight!Next]_(Flight!flight)
  <2> DEFINE j == [NoJob EXCEPT !.node = n, !.key = k, !.floor = settled[n][k]]
             i == [j EXCEPT !.pc = "return", !.val = l1[n][k]]
  <2>1. /\ j \in Job /\ j.node = n /\ j.key = k /\ j.pc = "idle" /\ j.ok = TRUE
        /\ job[r].pc = "idle" /\ l1[n][k] \in Version
    <3>1. settled[n][k] \in Version /\ l1[n][k] \in Version
      BY DEF Promises, TypeOK
    <3>2. "idle" \in PC
      BY DEF PC
    <3> QED
      BY <1>1, <3>1, <3>2, NoJobFacts, JobUpdates DEF Get, NoJob
  <2>2. CASE l1[n][k] # 0
    <3>1. i.pc = "return" /\ i.val = l1[n][k] /\ i.ok = TRUE
      <4> HIDE DEF j
      <4> QED
        BY <2>1 DEF Job
    <3>2. job' = [job EXCEPT ![r] = i]
      BY <1>1, <2>2 DEF Get
    <3> HIDE DEF i
    <3>3. job'[r] = i /\ Others(r)
      BY <1>0, <3>2 DEF Others
    <3>4. <<l1[n][k], TRUE>> \in Version \X BOOLEAN
      BY <2>1
    <3>5. Flight!Hit(r, <<l1[n][k], TRUE>>)
      BY <2>1, <3>1, <3>3, AnswersAtOnce
    <3> QED
      BY <3>4, <3>5
  <2>3. CASE l1[n][k] = 0 /\ b
    <3>1. Attach(r, n, k, j)
      BY <1>1, <2>3 DEF Get
    <3>2. Flight!Ask(r, <<n, k>>) /\ <<n, k>> \in Node \X Key
      <4> HIDE DEF j
      <4> QED
        BY <2>1, <3>1, AttachAsks
    <3> QED
      BY <3>2
  <2>4. CASE l1[n][k] = 0 /\ ~ b
    <3>1. job' = [job EXCEPT ![r] = [j EXCEPT !.pc = "bloom"]] /\ [j EXCEPT !.pc = "bloom"].pc = "bloom"
      BY <1>1, <2>1, <2>4 DEF Get, Job
    <3> HIDE DEF j
    <3>2. job'[r].pc = "bloom" /\ Others(r)
      BY <1>0, <3>1 DEF Others
    <3> QED
      BY <2>1, <3>2, MovesUnseen DEF Resolving
  <2> QED
    BY <2>2, <2>3, <2>4
<1>2. ASSUME NEW r \in Req, BloomAnswers(r)
      PROVE  [Flight!Next]_(Flight!flight)
  <2>1. job[r].pc = "bloom" /\ job[r] \in Job /\ job[r].node \in Node /\ job[r].key \in Key
    BY <1>2, AtWork DEF BloomAnswers
  <2>2. CASE job' = [job EXCEPT ![r] = NoJob]
    <3>1. job'[r].pc = "idle" /\ Others(r)
      BY <1>0, <2>2 DEF Others
    <3> QED
      BY <2>1, <3>1, MovesUnseen DEF Resolving
  <2>3. CASE Attach(r, job[r].node, job[r].key, job[r])
    <3>1. PICK n \in Node, k \in Key : n = job[r].node /\ k = job[r].key
      BY <2>1
    <3>2. Attach(r, n, k, job[r])
      BY <2>3, <3>1
    <3>3. Flight!Ask(r, <<n, k>>)
      BY <2>1, <3>1, <3>2, AttachAsks
    <3>4. <<n, k>> \in Node \X Key
      OBVIOUS
    <3> QED
      BY <3>3, <3>4
  <2> QED
    BY <1>2, <2>2, <2>3 DEF BloomAnswers
<1>3. ASSUME NEW r \in Req, NEW v \in Version, NEW ok \in BOOLEAN, job[r].pc \in Resolving,
             Settle(r, v, ok)
      PROVE  [Flight!Next]_(Flight!flight)
  <2>1. Flight!Land(r, <<v, ok>>) /\ <<v, ok>> \in Version \X BOOLEAN
    BY <1>3, SettleLands
  <2> QED
    BY <2>1
<1>4. ASSUME NEW r \in Req, L2Hit(r) \/ NoRow(r) \/ BloomAdded(r)
      PROVE  [Flight!Next]_(Flight!flight)
  <2>1. job[r].pc \in {"l2hit", "noRow", "add"} /\ job[r].val \in Version /\ 0 \in Version
    BY <1>4, AtWork, NoJobFacts DEF L2Hit, NoRow, BloomAdded
  <2>2. Settle(r, job[r].val, TRUE) \/ Settle(r, 0, TRUE)
    BY <1>4 DEF L2Hit, NoRow, BloomAdded
  <2> QED
    BY <1>3, <2>1, <2>2 DEF Resolving
<1>5. ASSUME NEW r \in Req, L2Get(r) \/ SetEx(r) \/ Hydrate(r)
      PROVE  [Flight!Next]_(Flight!flight)
  <2>1. job[r] \in Job /\ job[r].pc \in {"l2get", "setex", "hydrate"}
    BY <1>5, AtWork DEF L2Get, SetEx, Hydrate
  <2>2. /\ job'[r].pc \in {"l2hit", "fetch", "hydrate", "add"} /\ Others(r)
        /\ job'[r].node = job[r].node /\ job'[r].key = job[r].key
    BY <1>0, <1>5, <2>1 DEF L2Get, SetEx, Hydrate, Goto, Others, Job
  <2> QED
    BY <2>1, <2>2, MovesUnseen DEF Resolving
<1>6. ASSUME NEW r \in Req, Fetch(r)
      PROVE  [Flight!Next]_(Flight!flight)
  <2>1. job[r].pc = "fetch" /\ job[r] \in Job /\ 0 \in Version
    BY <1>6, AtWork, NoJobFacts DEF Fetch
  <2>2. CASE Settle(r, 0, FALSE)
    BY <1>3, <2>1, <2>2 DEF Resolving
  <2>3. CASE job' = [job EXCEPT ![r].val = db[job[r].key],
                                ![r].pc = IF db[job[r].key] = 0 THEN "noRow" ELSE "setex"]
    <3>1. /\ job'[r].pc \in {"noRow", "setex"} /\ Others(r)
          /\ job'[r].node = job[r].node /\ job'[r].key = job[r].key
      BY <1>0, <2>1, <2>3 DEF Others, Job
    <3> QED
      BY <2>1, <3>1, MovesUnseen DEF Resolving
  <2> QED
    BY <1>6, <2>2, <2>3 DEF Fetch
<1>7. ASSUME NEW r \in Req, Return(r)
      PROVE  [Flight!Next]_(Flight!flight)
  <2>1. job[r].pc = "return" /\ job'[r].pc = "idle" /\ Others(r)
    BY <1>0, <1>7 DEF Return, Others
  <2>2. Flight!Return(r)
    BY <2>1, ReturnsAnswer
  <2> QED
    BY <2>2
<1>8. ASSUME NEW r \in Req, NEW n \in Node, NEW k \in Key, Update(r, n, k)
      PROVE  [Flight!Next]_(Flight!flight)
  <2>1. job[r].pc = "idle" /\ job'[r].pc = "evictL1" /\ Others(r)
    BY <1>0, <1>8 DEF Update, Others, NoJob
  <2> QED
    BY <2>1, MovesUnseen DEF Resolving
<1>9. ASSUME NEW r \in Req, EvictL1(r) \/ EvictL2(r)
      PROVE  [Flight!Next]_(Flight!flight)
  <2>1. job[r] \in Job /\ job[r].pc \in Writing
    BY <1>0, <1>9 DEF EvictL1, EvictL2, Writing
  <2>2. job'[r].pc \in {"evictL2", "idle"} /\ Others(r)
    BY <1>0, <1>9, <2>1 DEF EvictL1, EvictL2, Goto, Others, Job
  <2> QED
    BY <2>1, <2>2, MovesUnseen DEF Resolving, Writing
<1>10. ASSUME NEW n \in Node, Restart(n)
       PROVE  [Flight!Next]_(Flight!flight)
  BY <1>10, RestartKills
<1>11. CASE UNCHANGED job
  BY <1>11, Unseen DEF Asks, Tells
<1> QED
  BY <1>1, <1>2, <1>4, <1>5, <1>6, <1>7, <1>8, <1>9, <1>10, <1>11
     DEF Next, Serve, Resolve, Create, ExpireL2, Forget, vars

\* The cache implements coalescing: of all requests that ask a node for a key one works,
\* and when its promise settles, with a row, without one or with an error, all are told.
THEOREM CoalescesAlways == Spec => Coalesces
<1>1. Init => Flight!Init
  <2> SUFFICES ASSUME Init PROVE Flight!Init
    OBVIOUS
  <2>1. \A r \in Req : job[r].pc = "idle"
    BY NoJobFacts DEF Init
  <2>2. \A r \in Req : Asks(r) = {} /\ Tells(r) = {} /\ job[r].pc \notin Resolving
    BY <2>1 DEF Asks, Tells, Resolving
  <2> QED
    BY <2>2 DEF Flight!Init
<1> QED
  BY <1>1, PromisesInit, PromisesStep, FlightStep, PTL DEF Spec, Coalesces, Flight!Spec

-----------------------------------------------------------------------------
(* Read your writes: Versions, step by step *)

\* Request r moves, without writing: the stores are as they were.
LEMMA Reads ==
  ASSUME Promises, Versions, NEW r \in Req, job' \in [Req -> Job], Others(r),
         UNCHANGED <<db, l2, l1, settled>>, raced \subseteq raced',
         job[r].pc \notin Writing, job'[r].pc \notin Writing,
         job'[r].pc \in {"bloom", "wait"} \cup Resolving =>
           job'[r].floor <= settled[job'[r].node][job'[r].key],
         job'[r].key \in Key \ raced' =>
           /\ job'[r].pc \in Resolving => ~ Busy(job'[r].key, Writing)
           /\ job'[r].pc \in Carrying => job'[r].val = db[job'[r].key] /\ job'[r].val # 0
           /\ job'[r].pc = "noRow" => \A n \in Node : settled[n][job'[r].key] = 0,
         job'[r].pc = "return" /\ job'[r].ok /\ job'[r].key \notin raced' =>
           job'[r].val >= job'[r].floor
  PROVE  Versions'
<1> USE DEF Versions, Others
<1>1. SettledInv'
  BY DEF SettledInv
<1>2. ApartInv'
  BY DEF ApartInv, Busy
<1>3. ReadInv'
  BY DEF ReadInv
<1>4. L2Inv'
  BY DEF L2Inv, Busy
<1>5. L1Inv'
  BY DEF L1Inv, Writing
<1>6. ReadYourWritesWhenSerial'
  BY DEF ReadYourWritesWhenSerial
<1> QED
  BY <1>1, <1>2, <1>3, <1>4, <1>5, <1>6

\* The promise of r settles with a value that no waiter finds too old.
LEMMA Answers ==
  ASSUME Promises, Versions, NEW r \in Req, NEW v \in Version, NEW ok \in BOOLEAN,
         job[r].pc \in Resolving, Settle(r, v, ok),
         ok /\ job[r].key \notin raced => v >= settled[job[r].node][job[r].key],
         UNCHANGED <<db, l2, settled, raced>>, L1Inv'
  PROVE  Versions'
<1> USE DEF Versions
<1>1. \A q \in Req :
        \/ /\ q = r \/ (job[q].on = r /\ job[q].pc = "wait")
           /\ job'[q].pc = "return" /\ job'[q].val = v /\ job'[q].ok = ok
           /\ job'[q].node = job[q].node /\ job'[q].key = job[q].key
           /\ job'[q].floor = job[q].floor
           /\ job[q].pc \in {"wait"} \cup Resolving
        \/ job'[q] = job[q]
  <2> TAKE q \in Req
  <2>1. job[q] \in Job /\ DOMAIN job = Req
    BY DEF Promises, TypeOK
  <2>2. CASE q = r \/ (job[q].on = r /\ job[q].pc = "wait")
    <3>1. job'[q] = [job[q] EXCEPT !.pc = "return", !.val = v, !.ok = ok]
      BY <2>2 DEF Settle, Outcome
    <3> QED
      BY <2>1, <2>2, <3>1 DEF Job
  <2>3. CASE ~ (q = r \/ (job[q].on = r /\ job[q].pc = "wait"))
    BY <2>3 DEF Settle, Outcome
  <2> QED
    BY <2>2, <2>3
<1>2. \A q \in Req : job[q].pc \in Writing => job'[q] = job[q]
  BY <1>1 DEF Writing, Resolving
<1>3. SettledInv'
  BY <1>1 DEF SettledInv, Writing, Resolving
<1>4. ApartInv'
  BY <1>1 DEF ApartInv, Busy, Writing, Resolving
<1>5. ReadInv'
  BY <1>1 DEF ReadInv, Carrying
<1>6. L2Inv'
  BY <1>2 DEF L2Inv, Busy
<1>7. ReadYourWritesWhenSerial'
  <2> SUFFICES ASSUME NEW q \in Req, job'[q].pc = "return", job'[q].ok, job'[q].key \notin raced
               PROVE  job'[q].val >= job'[q].floor
    BY DEF ReadYourWritesWhenSerial
  <2>1. CASE job'[q] = job[q]
    BY <2>1 DEF ReadYourWritesWhenSerial
  <2>2. CASE job'[q] # job[q]
    <3>1. /\ q = r \/ (job[q].on = r /\ job[q].pc = "wait")
          /\ job'[q].val = v /\ job'[q].ok = ok /\ job'[q].key = job[q].key
          /\ job'[q].floor = job[q].floor /\ job[q].pc \in {"wait"} \cup Resolving
      BY <1>1, <2>2
    <3>2. job[q].node = job[r].node /\ job[q].key = job[r].key
      BY <3>1 DEF Promises, WaitInv
    <3>3. job[q].floor <= settled[job[r].node][job[r].key]
      BY <3>1, <3>2 DEF SettledInv
    <3>4. v >= settled[job[r].node][job[r].key]
      BY <3>1, <3>2
    <3>5. /\ v \in Nat /\ job[q].floor \in Nat /\ settled[job[r].node][job[r].key] \in Nat
      <4>1. job[r].pc # "idle"
        BY DEF Resolving
      <4> QED
        BY <4>1, AtWork DEF Version, Promises, TypeOK, Job
    <3> QED
      BY <3>1, <3>3, <3>4, <3>5
  <2> QED
    BY <2>1, <2>2
<1> QED
  BY <1>3, <1>4, <1>5, <1>6, <1>7

\* A read that has its value puts it into the L1 of its node.
LEMMA Hydrates ==
  ASSUME Promises, Versions, NEW r \in Req, job[r].pc \in {"l2hit", "hydrate"}, SetL1(r),
         UNCHANGED <<db, settled, raced>>,
         \A q \in Req : job'[q].pc = "evictL2" => job'[q] = job[q]
  PROVE  L1Inv'
<1> DEFINE n == job[r].node
           k == job[r].key
<1>1. /\ n \in Node /\ k \in Key /\ l1' = [l1 EXCEPT ![n][k] = job[r].val]
      /\ l1 \in [Node -> [Key -> Version]] /\ job[r].val \in Version
      /\ job[r].pc \in Resolving \cap Carrying
  BY AtWork DEF SetL1, Promises, TypeOK, Resolving, Carrying
<1> HIDE DEF n, k
<1>2. /\ l1'[n][k] = job[r].val
      /\ \A m \in Node, x \in Key : m # n \/ x # k => l1'[m][x] = l1[m][x]
  BY <1>1
<1>3. k \notin raced => job[r].val >= settled[n][k]
  BY <1>1 DEF n, k, Versions, ReadInv, SettledInv, Promises, TypeOK, Version
<1>4. k \notin raced => \A q \in Req : job[q].pc = "evictL2" => job[q].key # k
  BY <1>1 DEF k, Versions, ApartInv, Busy, Writing
<1>5. \A m \in Node, x \in Key \ raced : l1'[m][x] = 0 \/ l1'[m][x] >= settled[m][x]
  BY <1>2, <1>3 DEF Versions, L1Inv
<1>6. \A q \in Req : job'[q].pc = "evictL2" /\ job'[q].key \in Key \ raced =>
        l1'[job'[q].node][job'[q].key] = 0
  <2> SUFFICES ASSUME NEW q \in Req, job'[q].pc = "evictL2", job'[q].key \in Key \ raced
               PROVE  l1'[job'[q].node][job'[q].key] = 0
    OBVIOUS
  <2>1. job'[q] = job[q] /\ job[q].node \in Node /\ job[q].key # k
    BY <1>4 DEF Promises, PlaceInv
  <2> QED
    BY <1>2, <2>1 DEF Versions, L1Inv
<1> QED
  BY <1>5, <1>6 DEF L1Inv

\* A get joins the promise of its key or makes it.
LEMMA Joins ==
  ASSUME Promises, Versions, NEW r \in Req, NEW n \in Node, NEW k \in Key, NEW j \in Job,
         job[r].pc \in {"idle", "bloom"}, j.node = n, j.key = k, j.floor <= settled[n][k],
         Attach(r, n, k, j), UNCHANGED <<db, l2, l1, settled>>
  PROVE  Versions'
<1>1. /\ job' \in [Req -> Job] /\ Others(r)
      /\ job'[r].node = n /\ job'[r].key = k /\ job'[r].floor = j.floor
      /\ job'[r].pc \in {"l2get", "wait"}
  BY Attaches
<1>2. raced \subseteq raced'
  BY DEF Attach, Start
<1>3. k \notin raced' /\ job'[r].pc \in Resolving => ~ Busy(k, Writing)
  <2>1. CASE inflight[n][k] = None
    BY <2>1 DEF Attach, Start
  <2>2. CASE inflight[n][k] # None
    <3>1. job'[r].pc = "wait"
      <4>1. job' = [job EXCEPT ![r] = [j EXCEPT !.on = inflight[n][k], !.pc = "wait"]]
        BY <2>2 DEF Attach
      <4>2. DOMAIN job = Req
        BY DEF Promises, TypeOK
      <4> QED
        BY <4>1, <4>2 DEF Job
    <3> QED
      BY <3>1 DEF Resolving
  <2> QED
    BY <2>1, <2>2
<1>4. job[r].pc \notin Writing /\ job'[r].pc \notin Writing \cup Carrying \cup {"noRow", "return"}
  BY <1>1 DEF Writing, Carrying
<1> QED
  BY <1>1, <1>2, <1>3, <1>4, Reads

\* Every step keeps Versions.
LEMMA VersionsStep ==
  ASSUME Promises, Versions, [Next]_vars
  PROVE  Versions'
<1>0. /\ job \in [Req -> Job] /\ db \in [Key -> Version] /\ l2 \in [Key -> Version]
      /\ l1 \in [Node -> [Key -> Version]] /\ settled \in [Node -> [Key -> Version]]
      /\ raced \subseteq Key /\ 0 \in Version /\ Version \subseteq Nat
  BY CacheAssumption DEF Promises, TypeOK, Version
<1>1. ASSUME NEW r \in Req, NEW n \in Node, NEW k \in Key, NEW b \in BOOLEAN, Get(r, n, k, b)
      PROVE  Versions'
  <2> DEFINE j == [NoJob EXCEPT !.node = n, !.key = k, !.floor = settled[n][k]]
             i == [j EXCEPT !.pc = "return", !.val = l1[n][k]]
             h == [j EXCEPT !.pc = "bloom"]
  <2>1. /\ j \in Job /\ j.node = n /\ j.key = k /\ j.floor = settled[n][k]
        /\ job[r].pc = "idle" /\ settled[n][k] \in Nat
        /\ UNCHANGED <<db, l2, l1, settled>>
    <3>1. settled[n][k] \in Version /\ "idle" \in PC
      BY <1>0 DEF PC
    <3> QED
      BY <1>0, <1>1, <3>1, JobUpdates DEF Get, NoJob
  <2>2. CASE l1[n][k] # 0
    <3>1. /\ i \in Job /\ i.pc = "return" /\ i.node = n /\ i.key = k
          /\ i.val = l1[n][k] /\ i.floor = settled[n][k]
      <4>1. l1[n][k] \in Version /\ "return" \in PC
        BY <1>0 DEF PC
      <4> HIDE DEF j
      <4> QED
        BY <2>1, <4>1 DEF Job
    <3>2. job' = [job EXCEPT ![r] = i] /\ UNCHANGED raced
      BY <1>1, <2>2 DEF Get
    <3> HIDE DEF i, j
    <3>3. job' \in [Req -> Job] /\ job'[r] = i /\ Others(r)
      BY <1>0, <3>1, <3>2, OneJob
    <3>4. k \notin raced => l1[n][k] >= settled[n][k]
      BY <2>2 DEF Versions, L1Inv
    <3> QED
      BY <2>1, <3>1, <3>2, <3>3, <3>4, Reads DEF Writing, Resolving, Carrying
  <2>3. CASE l1[n][k] = 0 /\ b
    <3>1. Attach(r, n, k, j)
      BY <1>1, <2>3 DEF Get
    <3> HIDE DEF j
    <3> QED
      BY <2>1, <3>1, Joins
  <2>4. CASE l1[n][k] = 0 /\ ~ b
    <3>1. h \in Job /\ h.pc = "bloom" /\ h.node = n /\ h.key = k /\ h.floor = settled[n][k]
      BY <1>0, <2>1 DEF Job, PC
    <3>2. job' = [job EXCEPT ![r] = h] /\ UNCHANGED raced
      BY <1>1, <2>4 DEF Get
    <3> HIDE DEF h, j
    <3>3. job' \in [Req -> Job] /\ job'[r] = h /\ Others(r)
      BY <1>0, <3>1, <3>2, OneJob
    <3> QED
      BY <2>1, <3>1, <3>2, <3>3, Reads DEF Writing, Resolving, Carrying
  <2> QED
    BY <2>2, <2>3, <2>4
<1>2. ASSUME NEW r \in Req, BloomAnswers(r)
      PROVE  Versions'
  <2>1. /\ job[r].pc = "bloom" /\ job[r] \in Job /\ job[r].node \in Node /\ job[r].key \in Key
        /\ job[r].floor <= settled[job[r].node][job[r].key]
        /\ UNCHANGED <<db, l2, l1, settled>>
    BY <1>2, AtWork DEF BloomAnswers, Versions, SettledInv
  <2>2. CASE job' = [job EXCEPT ![r] = NoJob] /\ UNCHANGED raced
    <3>1. job' \in [Req -> Job] /\ job'[r] = NoJob /\ Others(r)
      BY <1>0, <2>2, NoJobFacts, OneJob
    <3> QED
      BY <2>1, <2>2, <3>1, NoJobFacts, Reads DEF Writing, Resolving, Carrying
  <2>3. CASE Attach(r, job[r].node, job[r].key, job[r])
    BY <2>1, <2>3, Joins
  <2> QED
    BY <1>2, <2>2, <2>3 DEF BloomAnswers
<1>3. ASSUME NEW r \in Req, L2Get(r)
      PROVE  Versions'
  <2> DEFINE i == [job[r] EXCEPT !.pc = "l2hit", !.val = l2[job[r].key]]
             h == [job[r] EXCEPT !.pc = "fetch"]
             k == job[r].key
  <2>1. /\ job[r].pc = "l2get" /\ job[r] \in Job /\ l2[k] \in Version /\ k \in Key
        /\ job[r].floor <= settled[job[r].node][k]
        /\ UNCHANGED <<db, l2, l1, settled, raced>>
    BY <1>3, AtWork DEF L2Get, Versions, SettledInv, Resolving
  <2>2. /\ i \in Job /\ i.pc = "l2hit" /\ i.node = job[r].node /\ i.key = k
        /\ i.floor = job[r].floor /\ i.val = l2[k]
        /\ h \in Job /\ h.pc = "fetch" /\ h.node = job[r].node /\ h.key = k
        /\ h.floor = job[r].floor
    BY <2>1 DEF Job, PC, Resolving
  <2>3. k \notin raced => ~ Busy(k, Writing) /\ l2[k] \in {0, db[k]}
    BY <2>1 DEF Versions, ApartInv, L2Inv, Busy, Resolving
  <2> HIDE DEF i, h
  <2>4. CASE job' = [job EXCEPT ![r] = i] /\ l2[k] # 0
    <3>1. job' \in [Req -> Job] /\ job'[r] = i /\ Others(r)
      BY <1>0, <2>2, <2>4, OneJob
    <3> QED
      BY <2>1, <2>2, <2>3, <2>4, <3>1, Reads DEF Resolving, Writing
  <2>5. CASE job' = [job EXCEPT ![r] = h]
    <3>1. job' \in [Req -> Job] /\ job'[r] = h /\ Others(r)
      BY <1>0, <2>2, <2>5, OneJob
    <3> QED
      BY <2>1, <2>2, <2>3, <3>1, Reads DEF Resolving, Writing, Carrying
  <2> QED
    BY <1>3, <2>4, <2>5 DEF L2Get, Goto, i, h
<1>4. ASSUME NEW r \in Req, L2Hit(r)
      PROVE  Versions'
  <2>1. /\ job[r].pc = "l2hit" /\ job[r].val \in Version /\ job[r].node \in Node /\ job[r].key \in Key
        /\ SetL1(r) /\ Settle(r, job[r].val, TRUE)
        /\ UNCHANGED <<db, l2, settled, raced>>
    BY <1>4, AtWork DEF L2Hit
  <2>2. \A q \in Req : job'[q].pc = "evictL2" => job'[q] = job[q]
    BY <1>0, <2>1 DEF Settle, Outcome, Job
  <2>3. L1Inv'
    BY <2>1, <2>2, Hydrates
  <2>4. job[r].key \notin raced => job[r].val >= settled[job[r].node][job[r].key]
    BY <1>0, <2>1 DEF Versions, ReadInv, SettledInv, Carrying
  <2> QED
    BY <2>1, <2>3, <2>4, Answers DEF Resolving
<1>5. ASSUME NEW r \in Req, Fetch(r)
      PROVE  Versions'
  <2> DEFINE k == job[r].key
             i == [job[r] EXCEPT !.val = db[k], !.pc = IF db[k] = 0 THEN "noRow" ELSE "setex"]
  <2>1. /\ job[r].pc = "fetch" /\ job[r] \in Job /\ db[k] \in Version /\ k \in Key
        /\ job[r].floor <= settled[job[r].node][k]
        /\ UNCHANGED <<db, l2, l1, settled, raced>>
    BY <1>5, AtWork DEF Fetch, Versions, SettledInv, Resolving
  <2>2. CASE job' = [job EXCEPT ![r] = i]
    <3>1. /\ i \in Job /\ i.pc = IF db[k] = 0 THEN "noRow" ELSE "setex"
          /\ i.node = job[r].node /\ i.key = k /\ i.floor = job[r].floor /\ i.val = db[k]
      BY <2>1 DEF Job, PC, Resolving
    <3>2. k \notin raced => ~ Busy(k, Writing)
      BY <2>1 DEF Versions, ApartInv, Busy, Resolving
    <3>3. db[k] = 0 => \A n \in Node : settled[n][k] = 0
      <4> SUFFICES ASSUME db[k] = 0, NEW n \in Node
                   PROVE  settled[n][k] = 0
        OBVIOUS
      <4>1. settled[n][k] <= 0
        BY <2>1 DEF Versions, SettledInv
      <4>2. settled[n][k] \in Nat
        BY <1>0, <2>1
      <4> QED
        BY <4>1, <4>2
    <3> HIDE DEF i
    <3>4. job' \in [Req -> Job] /\ job'[r] = i /\ Others(r)
      BY <1>0, <2>2, <3>1, OneJob
    <3> QED
      BY <2>1, <3>1, <3>2, <3>3, <3>4, Reads DEF Resolving, Writing, Carrying
  <2>3. CASE Settle(r, 0, FALSE)
    <3>1. \A q \in Req : job'[q].pc = "evictL2" => job'[q] = job[q]
      BY <1>0, <2>3 DEF Settle, Outcome, Job
    <3>2. L1Inv'
      BY <2>1, <3>1 DEF Versions, L1Inv
    <3> QED
      BY <1>0, <2>1, <2>3, <3>2, Answers DEF Resolving
  <2> QED
    BY <1>5, <2>2, <2>3 DEF Fetch
<1>6. ASSUME NEW r \in Req, NoRow(r)
      PROVE  Versions'
  <2>1. /\ job[r].pc = "noRow" /\ job[r].node \in Node /\ job[r].key \in Key
        /\ Settle(r, 0, TRUE) /\ UNCHANGED <<db, l2, l1, settled, raced>>
    BY <1>6, AtWork DEF NoRow
  <2>2. \A q \in Req : job'[q].pc = "evictL2" => job'[q] = job[q]
    BY <1>0, <2>1 DEF Settle, Outcome, Job
  <2>3. L1Inv'
    BY <2>1, <2>2 DEF Versions, L1Inv
  <2>4. job[r].key \notin raced => 0 >= settled[job[r].node][job[r].key]
    BY <2>1 DEF Versions, ReadInv
  <2> QED
    BY <1>0, <2>1, <2>3, <2>4, Answers DEF Resolving
<1>9. ASSUME NEW r \in Req, BloomAdded(r)
      PROVE  Versions'
  <2>1. /\ job[r].pc = "add" /\ job[r].val \in Version /\ job[r].node \in Node /\ job[r].key \in Key
        /\ Settle(r, job[r].val, TRUE) /\ UNCHANGED <<db, l2, l1, settled, raced>>
    BY <1>9, AtWork DEF BloomAdded
  <2>2. \A q \in Req : job'[q].pc = "evictL2" => job'[q] = job[q]
    BY <1>0, <2>1 DEF Settle, Outcome, Job
  <2>3. L1Inv'
    BY <2>1, <2>2 DEF Versions, L1Inv
  <2>4. job[r].key \notin raced => job[r].val >= settled[job[r].node][job[r].key]
    BY <1>0, <2>1 DEF Versions, ReadInv, SettledInv, Carrying
  <2> QED
    BY <2>1, <2>3, <2>4, Answers DEF Resolving
<1>10. ASSUME NEW r \in Req, Return(r)
       PROVE  Versions'
  <2>1. job' \in [Req -> Job] /\ job'[r] = NoJob /\ Others(r)
    BY <1>0, <1>10, NoJobFacts, OneJob DEF Return
  <2> QED
    BY <1>10, <2>1, NoJobFacts, Reads DEF Return, Writing, Resolving, Carrying
<1>7. ASSUME NEW r \in Req, SetEx(r)
      PROVE  Versions'
  <2> DEFINE i == [job[r] EXCEPT !.pc = "hydrate"]
             k == job[r].key
  <2>1. /\ job[r].pc = "setex" /\ job[r] \in Job /\ k \in Key /\ job[r].val \in Version
        /\ UNCHANGED <<db, l1, settled, raced>>
        /\ l2' = [l2 EXCEPT ![k] = job[r].val] \/ UNCHANGED l2
    BY <1>7, AtWork DEF SetEx
  <2>2. /\ i \in Job /\ i.pc = "hydrate" /\ i.node = job[r].node /\ i.key = k
        /\ i.floor = job[r].floor /\ i.val = job[r].val
    BY <2>1 DEF Job, PC, Resolving
  <2> HIDE DEF i
  <2>3. job' \in [Req -> Job] /\ job'[r] = i /\ Others(r)
    BY <1>0, <1>7, <2>2, OneJob DEF SetEx, Goto, i
  <2>4. k \notin raced => job[r].val = db[k]
    BY <2>1 DEF Versions, ReadInv, Carrying
  <2>5. \A x \in Key : l2'[x] = l2[x] \/ (x = k /\ l2'[x] = job[r].val)
    BY <1>0, <2>1
  <2> USE DEF Versions, Others
  <2>6. SettledInv' /\ ApartInv'
    BY <2>1, <2>2, <2>3 DEF SettledInv, ApartInv, Busy, Writing, Resolving
  <2>7. ReadInv'
    BY <2>1, <2>2, <2>3 DEF ReadInv, Carrying
  <2>8. L2Inv'
    BY <2>1, <2>2, <2>3, <2>4, <2>5 DEF L2Inv, Busy, Writing
  <2>9. L1Inv'
    BY <2>1, <2>2, <2>3 DEF L1Inv
  <2>10. ReadYourWritesWhenSerial'
    BY <2>1, <2>2, <2>3 DEF ReadYourWritesWhenSerial
  <2> QED
    BY <2>6, <2>7, <2>8, <2>9, <2>10
<1>8. ASSUME NEW r \in Req, Hydrate(r)
      PROVE  Versions'
  <2> DEFINE i == [job[r] EXCEPT !.pc = "add"]
             k == job[r].key
  <2>1. /\ job[r].pc = "hydrate" /\ job[r] \in Job /\ k \in Key /\ SetL1(r)
        /\ UNCHANGED <<db, l2, settled, raced>>
    BY <1>8, AtWork DEF Hydrate
  <2>2. /\ i \in Job /\ i.pc = "add" /\ i.node = job[r].node /\ i.key = k
        /\ i.floor = job[r].floor /\ i.val = job[r].val
    BY <2>1 DEF Job, PC, Resolving
  <2> HIDE DEF i
  <2>3. job' \in [Req -> Job] /\ job'[r] = i /\ Others(r)
    BY <1>0, <1>8, <2>2, OneJob DEF Hydrate, Goto, i
  <2>4. \A q \in Req : job'[q].pc = "evictL2" => job'[q] = job[q]
    BY <2>2, <2>3 DEF Others
  <2>5. L1Inv'
    BY <2>1, <2>4, Hydrates
  <2> USE DEF Versions, Others
  <2>6. SettledInv' /\ ApartInv'
    BY <2>1, <2>2, <2>3 DEF SettledInv, ApartInv, Busy, Writing, Resolving
  <2>7. ReadInv'
    BY <2>1, <2>2, <2>3 DEF ReadInv, Carrying
  <2>8. L2Inv'
    BY <2>1, <2>2, <2>3 DEF L2Inv, Busy, Writing
  <2>9. ReadYourWritesWhenSerial'
    BY <2>1, <2>2, <2>3 DEF ReadYourWritesWhenSerial
  <2> QED
    BY <2>5, <2>6, <2>7, <2>8, <2>9
<1>11. ASSUME NEW k \in Key, Create(k)
       PROVE  Versions'
  <2>1. /\ db[k] = 0 /\ db'[k] = 1 /\ \A x \in Key \ {k} : db'[x] = db[x]
        /\ UNCHANGED <<l2, l1, job, settled, raced>>
    BY <1>0, <1>11 DEF Create
  <2>2. \A x \in Key : db[x] <= db'[x] /\ db[x] \in Nat /\ db'[x] \in Nat
    <3> TAKE x \in Key
    <3>1. db[x] \in Nat
      BY <1>0
    <3> QED
      BY <2>1, <3>1
  <2> USE DEF Versions
  <2>3. SettledInv'
    <3>1. \A n \in Node, x \in Key : settled[n][x] <= db'[x]
      <4> TAKE n \in Node, x \in Key
      <4>1. settled[n][x] \in Nat /\ settled[n][x] <= db[x]
        BY <1>0 DEF SettledInv
      <4> QED
        BY <2>2, <4>1
    <3>2. \A r \in Req : job[r].pc \in Writing => job[r].val <= db'[job[r].key]
      <4> SUFFICES ASSUME NEW r \in Req, job[r].pc \in Writing
                   PROVE  job[r].val <= db'[job[r].key]
        OBVIOUS
      <4>1. job[r].key \in Key /\ job[r].val \in Nat
        BY <1>0, AtWork DEF Writing
      <4> QED
        BY <2>2, <4>1 DEF SettledInv
    <3> QED
      BY <2>1, <3>1, <3>2 DEF SettledInv
  <2>4. ApartInv'
    BY <2>1 DEF ApartInv, Busy
  <2>5. ReadInv'
    BY <2>1 DEF ReadInv
  <2>6. L2Inv'
    BY <2>1 DEF L2Inv, Busy
  <2>7. L1Inv' /\ ReadYourWritesWhenSerial'
    BY <2>1 DEF L1Inv, ReadYourWritesWhenSerial
  <2> QED
    BY <2>3, <2>4, <2>5, <2>6, <2>7
<1>12. ASSUME NEW r \in Req, NEW n \in Node, NEW k \in Key, Update(r, n, k)
       PROVE  Versions'
  <2> DEFINE i == [NoJob EXCEPT !.pc = "evictL1", !.node = n, !.key = k, !.val = db[k] + 1]
  <2>1. /\ job[r].pc = "idle" /\ db[k] + 1 \in Version /\ job' = [job EXCEPT ![r] = i]
        /\ db' = [db EXCEPT ![k] = db[k] + 1]
        /\ raced' = IF Busy(k, Resolving) THEN raced \cup {k} ELSE raced
        /\ UNCHANGED <<l2, l1, settled>>
    BY <1>0, <1>12, CacheAssumption DEF Update, Version
  <2>2. i \in Job /\ i.pc = "evictL1" /\ i.node = n /\ i.key = k /\ i.val = db[k] + 1
    <3>1. "evictL1" \in PC
      BY DEF PC, Writing
    <3> QED
      BY <1>0, <2>1, <3>1, JobUpdates DEF NoJob
  <2> HIDE DEF i
  <2>3. job' \in [Req -> Job] /\ job'[r] = i /\ Others(r)
    BY <1>0, <2>1, <2>2, OneJob
  <2>4. /\ db'[k] = db[k] + 1 /\ \A x \in Key \ {k} : db'[x] = db[x]
        /\ \A x \in Key : db[x] <= db'[x] /\ db[x] \in Nat /\ db'[x] \in Nat
    <3>1. db'[k] = db[k] + 1 /\ \A x \in Key \ {k} : db'[x] = db[x]
      BY <1>0, <2>1
    <3>2. \A x \in Key : db[x] \in Nat
      BY <1>0
    <3> QED
      BY <3>1, <3>2
  <2>5. k \notin raced' => ~ Busy(k, Resolving)
    BY <2>1
  <2>6. raced \subseteq raced'
    BY <2>1
  <2> USE DEF Versions, Others
  <2>7. SettledInv'
    <3>1. \A m \in Node, x \in Key : settled[m][x] <= db'[x]
      <4> TAKE m \in Node, x \in Key
      <4>1. settled[m][x] \in Nat /\ settled[m][x] <= db[x]
        BY <1>0 DEF SettledInv
      <4> QED
        BY <2>4, <4>1
    <3>2. \A q \in Req : job'[q].pc \in Writing => job'[q].val <= db'[job'[q].key]
      <4> SUFFICES ASSUME NEW q \in Req, q # r, job[q].pc \in Writing
                   PROVE  job[q].val <= db'[job[q].key]
        BY <2>2, <2>3, <2>4
      <4>1. job[q].key \in Key /\ job[q].val \in Nat
        BY <1>0, AtWork DEF Writing
      <4> QED
        BY <2>4, <4>1 DEF SettledInv
    <3> QED
      BY <2>1, <2>2, <2>3, <3>1, <3>2 DEF SettledInv, Resolving
  <2>8. ApartInv'
    BY <2>2, <2>3, <2>5, <2>6 DEF ApartInv, Busy, Writing, Resolving
  <2>9. ReadInv'
    <3> SUFFICES ASSUME NEW q \in Req, job'[q].key \in Key \ raced',
                        job'[q].pc \in Carrying \cup {"noRow"}
                 PROVE  job'[q] = job[q] /\ job[q].key # k
      BY <2>1, <2>4, <2>6 DEF ReadInv
    <3> QED
      BY <2>2, <2>3, <2>5 DEF Busy, Resolving, Carrying
  <2>10. L2Inv'
    BY <2>1, <2>2, <2>3, <2>4, <2>6 DEF L2Inv, Busy, Writing
  <2>11. L1Inv' /\ ReadYourWritesWhenSerial'
    BY <2>1, <2>2, <2>3, <2>6 DEF L1Inv, ReadYourWritesWhenSerial
  <2> QED
    BY <2>7, <2>8, <2>9, <2>10, <2>11
<1>13. ASSUME NEW r \in Req, EvictL1(r)
       PROVE  Versions'
  <2> DEFINE i == [job[r] EXCEPT !.pc = "evictL2"]
             n == job[r].node
             k == job[r].key
  <2>1. /\ job[r].pc = "evictL1" /\ job[r] \in Job /\ n \in Node /\ k \in Key
        /\ l1' = [l1 EXCEPT ![n][k] = 0] /\ job' = [job EXCEPT ![r] = i]
        /\ UNCHANGED <<db, l2, settled, raced>>
    BY <1>13, AtWork DEF EvictL1, Goto
  <2>2. /\ i \in Job /\ i.pc = "evictL2" /\ i.node = n /\ i.key = k
        /\ i.val = job[r].val /\ i.floor = job[r].floor
    BY <2>1 DEF Job, PC, Writing
  <2> HIDE DEF i
  <2>3. job' \in [Req -> Job] /\ job'[r] = i /\ Others(r)
    BY <1>0, <2>1, <2>2, OneJob
  <2>4. l1'[n][k] = 0 /\ \A m \in Node, x \in Key : l1'[m][x] \in {0, l1[m][x]}
    BY <1>0, <2>1
  <2> USE DEF Versions, Others
  <2>5. SettledInv' /\ ApartInv'
    BY <2>1, <2>2, <2>3 DEF SettledInv, ApartInv, Busy, Writing, Resolving
  <2>6. ReadInv'
    BY <2>1, <2>2, <2>3 DEF ReadInv, Carrying
  <2>7. L2Inv'
    BY <2>1, <2>2, <2>3 DEF L2Inv, Busy, Writing
  <2>8. L1Inv'
    <3>1. \A m \in Node, x \in Key \ raced : l1'[m][x] = 0 \/ l1'[m][x] >= settled[m][x]
      BY <2>4 DEF L1Inv
    <3>2. ASSUME NEW q \in Req, job'[q].pc = "evictL2", job'[q].key \in Key \ raced
          PROVE  l1'[job'[q].node][job'[q].key] = 0
      <4>1. CASE q = r
        BY <2>2, <2>3, <2>4, <4>1
      <4>2. CASE q # r
        <5>1. job'[q] = job[q] /\ job[q].node \in Node /\ job[q].key \in Key
              /\ l1[job[q].node][job[q].key] = 0
          BY <2>3, <3>2, <4>2 DEF L1Inv, Promises, PlaceInv
        <5> QED
          BY <2>4, <5>1
      <4> QED
        BY <4>1, <4>2
    <3> QED
      BY <2>1, <3>1, <3>2 DEF L1Inv
  <2>9. ReadYourWritesWhenSerial'
    BY <2>1, <2>2, <2>3 DEF ReadYourWritesWhenSerial
  <2> QED
    BY <2>5, <2>6, <2>7, <2>8, <2>9
<1>15. ASSUME NEW n \in Node, NEW k \in Key, Forget(n, k)
       PROVE  Versions'
  <2>1. /\ \A m \in Node, x \in Key : l1'[m][x] \in {0, l1[m][x]}
        /\ UNCHANGED <<db, l2, job, settled, raced>>
    BY <1>0, <1>15 DEF Forget
  <2> USE DEF Versions
  <2>2. SettledInv' /\ ApartInv' /\ ReadInv' /\ L2Inv' /\ ReadYourWritesWhenSerial'
    BY <2>1 DEF SettledInv, ApartInv, ReadInv, L2Inv, ReadYourWritesWhenSerial, Busy
  <2>3. L1Inv'
    BY <2>1 DEF L1Inv, Promises, PlaceInv
  <2> QED
    BY <2>2, <2>3
<1>16. ASSUME NEW k \in Key, ExpireL2(k)
       PROVE  Versions'
  <2>1. /\ \A x \in Key : l2'[x] \in {0, l2[x]}
        /\ UNCHANGED <<db, l1, job, settled, raced>>
    BY <1>0, <1>16 DEF ExpireL2
  <2> USE DEF Versions
  <2>2. SettledInv' /\ ApartInv' /\ ReadInv' /\ L1Inv' /\ ReadYourWritesWhenSerial'
    BY <2>1 DEF SettledInv, ApartInv, ReadInv, L1Inv, ReadYourWritesWhenSerial, Busy
  <2>3. L2Inv'
    BY <2>1 DEF L2Inv, Busy
  <2> QED
    BY <2>2, <2>3
<1>14. ASSUME NEW r \in Req, EvictL2(r)
       PROVE  Versions'
  <2> DEFINE n == job[r].node
             k == job[r].key
             v == job[r].val
             w == IF settled[n][k] < v THEN v ELSE settled[n][k]
  <2>1. /\ job[r].pc = "evictL2" /\ n \in Node /\ k \in Key
        /\ v \in Version /\ settled[n][k] \in Version /\ db[k] \in Version
        /\ settled[n][k] <= db[k] /\ v <= db[k]
        /\ UNCHANGED <<db, l1>>
    BY <1>14, AtWork DEF EvictL2, Versions, SettledInv, Writing
  <2>2. job' \in [Req -> Job] /\ job'[r] = NoJob /\ Others(r)
    BY <1>0, <1>14, NoJobFacts, OneJob DEF EvictL2
  <2>3. w \in Nat /\ settled[n][k] <= w /\ w <= db[k]
    <3>1. settled[n][k] \in Nat /\ v \in Nat /\ db[k] \in Nat
      BY <1>0, <2>1
    <3> HIDE DEF n, k, v
    <3> QED
      BY <2>1, <3>1
  <2> USE DEF Versions, Others
  <2>4. raced \subseteq raced' /\ ApartInv'
    BY <1>14, <2>2, NoJobFacts DEF EvictL2, ApartInv, Busy, Writing, Resolving
  <2>5. CASE raced' = raced \cup {k} /\ UNCHANGED <<l2, settled>>
    <3>1. SettledInv'
      BY <2>1, <2>2, <2>5, NoJobFacts DEF SettledInv, Writing, Resolving
    <3>2. ReadInv'
      BY <2>1, <2>2, <2>5, NoJobFacts DEF ReadInv, Carrying
    <3>3. L2Inv'
      BY <2>1, <2>2, <2>5 DEF L2Inv, Busy
    <3>4. L1Inv'
      BY <2>1, <2>2, <2>5, NoJobFacts DEF L1Inv
    <3>5. ReadYourWritesWhenSerial'
      BY <2>1, <2>2, <2>5, NoJobFacts DEF ReadYourWritesWhenSerial
    <3> QED
      BY <2>4, <3>1, <3>2, <3>3, <3>4, <3>5
  <2>6. CASE /\ l2' = [l2 EXCEPT ![k] = 0] /\ settled' = [settled EXCEPT ![n][k] = w]
             /\ UNCHANGED raced
    <3> HIDE DEF w
    <3>1. /\ l2'[k] = 0 /\ \A x \in Key \ {k} : l2'[x] = l2[x]
          /\ settled'[n][k] = w
          /\ \A m \in Node, x \in Key : m # n \/ x # k => settled'[m][x] = settled[m][x]
      BY <1>0, <2>1, <2>6
    <3>2. \A m \in Node, x \in Key : settled[m][x] <= settled'[m][x]
      <4> TAKE m \in Node, x \in Key
      <4>1. settled[m][x] \in Nat
        BY <1>0
      <4> QED
        BY <2>3, <3>1, <4>1
    <3>3. k \notin raced => ~ Busy(k, Resolving) /\ l1[n][k] = 0
      BY <2>1 DEF ApartInv, L1Inv, Busy, Writing
    <3>4. SettledInv'
      <4>1. \A m \in Node, x \in Key : settled'[m][x] <= db[x]
        BY <2>1, <2>3, <3>1 DEF SettledInv
      <4>2. \A q \in Req : job'[q].pc \in Writing => job'[q].val <= db[job'[q].key]
        BY <2>2, NoJobFacts DEF SettledInv, Writing
      <4>3. ASSUME NEW q \in Req, job'[q].pc \in {"bloom", "wait"} \cup Resolving
            PROVE  job'[q].floor <= settled'[job'[q].node][job'[q].key]
        <5>1. job'[q] = job[q] /\ job[q].node \in Node /\ job[q].key \in Key
              /\ job[q].floor \in Nat /\ job[q].floor <= settled[job[q].node][job[q].key]
              /\ settled[job[q].node][job[q].key] \in Nat
          <6>1. q # r /\ job'[q] = job[q]
            BY <2>2, <4>3, NoJobFacts DEF Resolving
          <6>2. job[q].pc # "idle"
            BY <4>3, <6>1 DEF Resolving
          <6> QED
            BY <1>0, <4>3, <6>1, <6>2, AtWork DEF SettledInv
        <5>2. settled'[job[q].node][job[q].key] \in Nat
          BY <1>0, <2>3, <3>1, <5>1
        <5> QED
          BY <3>2, <5>1, <5>2
      <4> QED
        BY <2>1, <4>1, <4>2, <4>3 DEF SettledInv
    <3>5. ReadInv'
      <4>1. ASSUME NEW q \in Req, job'[q].key \in Key \ raced, job'[q].pc = "noRow"
            PROVE  \A m \in Node : settled'[m][job'[q].key] = 0
        <5>1. job'[q] = job[q] /\ job[q].key # k
          BY <2>2, <3>3, <4>1, NoJobFacts DEF Busy, Resolving
        <5> QED
          BY <3>1, <4>1, <5>1 DEF ReadInv
      <4> QED
        BY <2>1, <2>2, <2>6, <4>1, NoJobFacts DEF ReadInv, Carrying
    <3>6. L2Inv'
      BY <2>1, <2>2, <2>6, <3>1 DEF L2Inv, Busy
    <3>7. L1Inv'
      BY <2>1, <2>2, <2>6, <3>1, <3>3, NoJobFacts DEF L1Inv
    <3>8. ReadYourWritesWhenSerial'
      BY <2>1, <2>2, <2>6, NoJobFacts DEF ReadYourWritesWhenSerial
    <3> QED
      BY <2>4, <3>4, <3>5, <3>6, <3>7, <3>8
  <2> QED
    BY <1>14, <2>5, <2>6 DEF EvictL2
<1>17. ASSUME NEW n \in Node, Restart(n)
       PROVE  Versions'
  <2>1. /\ \A q \in Req : job[q].node = n => job'[q] = NoJob
        /\ \A q \in Req : job[q].node # n => job'[q] = job[q]
        /\ UNCHANGED <<db, l2, settled>>
    BY <1>0, <1>17, NoJobFacts DEF Restart
  <2>2. /\ \A k \in Key : l1'[n][k] = 0
        /\ \A m \in Node, k \in Key : l1'[m][k] \in {0, l1[m][k]}
    <3>1. l1' = [l1 EXCEPT ![n] = [k \in Key |-> 0]]
      BY <1>17 DEF Restart
    <3> QED
      BY <1>0, <3>1
  <2>3. /\ raced \subseteq raced'
        /\ \A q \in Req : job[q].pc \in Writing /\ job[q].key \in Key \ raced' => job'[q] = job[q]
    BY <1>17, <2>1 DEF Restart
  <2> USE DEF Versions
  <2>4. SettledInv'
    BY <2>1, NoJobFacts DEF SettledInv, Writing, Resolving
  <2>5. ApartInv'
    BY <2>1, <2>3, NoJobFacts DEF ApartInv, Busy, Writing, Resolving
  <2>6. ReadInv'
    BY <2>1, <2>3, NoJobFacts DEF ReadInv, Carrying
  <2>7. L2Inv'
    BY <2>1, <2>3 DEF L2Inv, Busy
  <2>8. L1Inv'
    BY <2>1, <2>2, <2>3, NoJobFacts DEF L1Inv, Promises, PlaceInv
  <2>9. ReadYourWritesWhenSerial'
    BY <2>1, <2>3, NoJobFacts DEF ReadYourWritesWhenSerial
  <2> QED
    BY <2>4, <2>5, <2>6, <2>7, <2>8, <2>9
<1>18. CASE UNCHANGED vars
  BY <1>18 DEF vars, Versions, SettledInv, ApartInv, ReadInv, L2Inv, L1Inv,
               ReadYourWritesWhenSerial, Busy
<1> QED
  BY <1>1, <1>2, <1>3, <1>4, <1>5, <1>6, <1>7, <1>8, <1>9, <1>10, <1>11, <1>12, <1>13,
     <1>14, <1>15, <1>16, <1>17, <1>18 DEF Next, Serve, Resolve

\* It holds at the start.
LEMMA VersionsInit == Init => Versions
<1> SUFFICES ASSUME Init
             PROVE  Versions
  OBVIOUS
<1>1. \A k \in Key : db[k] \in Nat
  BY DEF Init, Version
<1> QED
  BY <1>1 DEF Init, Versions, SettledInv, ApartInv, ReadInv, L2Inv, L1Inv,
              ReadYourWritesWhenSerial, Busy, NoJob, Writing, Resolving, Carrying

\* A node reads what it wrote: a get that begins after a write of its own node was
\* invalidated answers with that version or a later one, for keys without a race.
THEOREM ReadsItsWrites == Spec => []ReadYourWritesWhenSerial
<1>1. Init => IInv
  BY PromisesInit, VersionsInit DEF IInv
<1>2. IInv /\ [Next]_vars => IInv'
  BY PromisesStep, VersionsStep DEF IInv
<1>3. IInv => ReadYourWritesWhenSerial
  BY DEF IInv, Versions
<1> QED
  BY <1>1, <1>2, <1>3, PTL DEF Spec
=============================================================================
