-------------------------- MODULE CacheOrchestrator --------------------------
(***************************************************************************)
(* CacheOrchestratorService: reads through an in-process L1 and a shared   *)
(* Redis L2 with request coalescing, and the writers that update a row and *)
(* then invalidate it (the UserDAO pattern).                               *)
(*                                                                         *)
(* A row is its version number, 0 for no row; a cache holds a version or 0 *)
(* for a miss (null is never cached).  JavaScript runs to its next await   *)
(* without interruption, so a step is either one continuation of a node or *)
(* one command that Redis or PostgreSQL executes.                          *)
(*                                                                         *)
(* Every request belongs to a node: the L1 and the inflight map are in the *)
(* memory of a process, L2 and the rows are shared.                        *)
(***************************************************************************)
EXTENDS Naturals

CONSTANTS
  Node,       \* API processes
  Key,        \* cache keys `namespace:id`
  Req,        \* slots for gets and writes being served
  None,       \* no request, no node
  MaxVersion  \* bound: versions of a row

ASSUME CacheAssumption == None \notin Req \cup Node /\ MaxVersion \in Nat

VARIABLES
  db,       \* db[k]: version of the row in PostgreSQL
  l2,       \* l2[k]: the Redis entry
  l1,       \* l1[n][k]: the entry in the memory of node n
  inflight, \* inflight[n][k]: the request whose promise is shared
  job,      \* job[r]: what request r is doing
  settled,  \* history: settled[n][k] is the version that node n has written
            \* and invalidated
  raced     \* history: keys that were read and written at the same time, or
            \* whose invalidation was lost

vars == <<db, l2, l1, inflight, job, settled, raced>>

Version == 0..MaxVersion

\* A get that found the L1 empty, by what it waits for, and a write.
Resolving == {"l2get", "l2hit", "fetch", "noRow", "setex", "hydrate", "add"}
Writing == {"evictL1", "evictL2"}
PC == {"idle", "bloom", "wait", "return"} \cup Resolving \cup Writing

Job == [pc : PC,
        node : Node \cup {None},
        key : Key \cup {None},
        on : Req \cup {None},   \* the request whose promise this one awaits
        val : Version,          \* the value on its way to the caller, or written
        ok : BOOLEAN,           \* the promise did not reject
        floor : Version]        \* history: settled version when the get began

NoJob == [pc |-> "idle", node |-> None, key |-> None, on |-> None,
          val |-> 0, ok |-> TRUE, floor |-> 0]

TypeOK ==
  /\ db \in [Key -> Version]
  /\ l2 \in [Key -> Version]
  /\ l1 \in [Node -> [Key -> Version]]
  /\ inflight \in [Node -> [Key -> Req \cup {None}]]
  /\ \A n \in Node, k \in Key : LET r == inflight[n][k] IN
       r # None => job[r].node = n /\ job[r].key = k
  /\ job \in [Req -> Job]
  /\ settled \in [Node -> [Key -> Version]]
  /\ raced \subseteq Key

Init ==
  /\ db \in [Key -> {0, 1} \cap Version]
  /\ l2 = [k \in Key |-> 0]
  /\ l1 = [n \in Node |-> [k \in Key |-> 0]]
  /\ inflight = [n \in Node |-> [k \in Key |-> None]]
  /\ job = [r \in Req |-> NoJob]
  /\ settled = [n \in Node |-> [k \in Key |-> 0]]
  /\ raced = {}

Busy(k, labels) == \E q \in Req : job[q].key = k /\ job[q].pc \in labels

-----------------------------------------------------------------------------
(* get *)

Goto(r, label) == job' = [job EXCEPT ![r].pc = label]

\* r makes the promise for key k on node n, or awaits the one that is there.
Start(r, n, k, j) ==
  /\ job' = [job EXCEPT ![r] = [j EXCEPT !.on = r, !.pc = "l2get"]]
  /\ inflight' = [inflight EXCEPT ![n][k] = r]
  /\ raced' = IF Busy(k, Writing) THEN raced \cup {k} ELSE raced

Attach(r, n, k, j) ==
  IF inflight[n][k] = None
  THEN Start(r, n, k, j)
  ELSE /\ job' = [job EXCEPT ![r] = [j EXCEPT !.on = inflight[n][k], !.pc = "wait"]]
       /\ UNCHANGED <<inflight, raced>>

\* The synchronous part of get: an L1 hit returns, a miss goes to the Bloom filter
\* or, with bypassBloom, straight to coalescing.
Get(r, n, k, bypassBloom) ==
  /\ job[r].pc = "idle"
  /\ LET j == [NoJob EXCEPT !.node = n, !.key = k, !.floor = settled[n][k]]
     IN  IF l1[n][k] # 0
         THEN /\ job' = [job EXCEPT ![r] = [j EXCEPT !.pc = "return", !.val = l1[n][k]]]
              /\ UNCHANGED <<inflight, raced>>
         ELSE IF bypassBloom
         THEN Attach(r, n, k, j)
         ELSE /\ job' = [job EXCEPT ![r] = [j EXCEPT !.pc = "bloom"]]
              /\ UNCHANGED <<inflight, raced>>
  /\ UNCHANGED <<db, l2, l1, settled>>

\* Mutant of BloomAnswers: the inflight map is not looked at after the await.
BloomAnswersStarts(r) ==
  /\ job[r].pc = "bloom"
  /\ Start(r, job[r].node, job[r].key, job[r])
  /\ UNCHANGED <<db, l2, l1, settled>>

\* mightExist resolves: false answers null at once (a row the filter does not know,
\* see BloomRebuild), true goes on; an error counts as either.
BloomAnswers(r) ==
  /\ job[r].pc = "bloom"
  /\ \/ job' = [job EXCEPT ![r] = NoJob] /\ UNCHANGED <<inflight, raced>>
     \/ Attach(r, job[r].node, job[r].key, job[r])
  /\ UNCHANGED <<db, l2, l1, settled>>

-----------------------------------------------------------------------------
(* _resolve *)

\* GET of the L2 key; an error counts as a miss.
L2Get(r) ==
  /\ job[r].pc = "l2get"
  /\ \/ /\ l2[job[r].key] # 0
        /\ job' = [job EXCEPT ![r].pc = "l2hit", ![r].val = l2[job[r].key]]
     \/ Goto(r, "fetch")
  /\ UNCHANGED <<db, l2, l1, inflight, settled, raced>>

\* The requests that await the promise of r get its outcome.
Outcome(r, v, ok) ==
  job' = [q \in Req |->
            IF q = r \/ (job[q].on = r /\ job[q].pc = "wait")
            THEN [job[q] EXCEPT !.pc = "return", !.val = v, !.ok = ok]
            ELSE job[q]]

\* Mutant of Settle: no finally, a promise that rejected stays in the map.
SettleNoFinally(r, v, ok) ==
  /\ Outcome(r, v, ok)
  /\ inflight' = IF ok THEN [inflight EXCEPT ![job[r].node][job[r].key] = None]
                 ELSE inflight

\* The promise of r resolves or rejects, and r's finally removes it from the map (in
\* microtasks that run before the node turns to anything else).
Settle(r, v, ok) ==
  /\ Outcome(r, v, ok)
  /\ inflight' = [inflight EXCEPT ![job[r].node][job[r].key] = None]

\* L1 entries are bounded in number and time; what set evicts is left to Forget.
SetL1(r) == l1' = [l1 EXCEPT ![job[r].node][job[r].key] = job[r].val]

\* The continuation of an L2 hit: hydrate L1 and return.
L2Hit(r) ==
  /\ job[r].pc = "l2hit"
  /\ SetL1(r)
  /\ Settle(r, job[r].val, TRUE)
  /\ UNCHANGED <<db, l2, settled, raced>>

\* The fetcher's SELECT: a row to cache, no row, or an error.
Fetch(r) ==
  /\ job[r].pc = "fetch"
  /\ \/ /\ job' = [job EXCEPT ![r].val = db[job[r].key],
                             ![r].pc = IF db[job[r].key] = 0 THEN "noRow" ELSE "setex"]
        /\ UNCHANGED inflight
     \/ Settle(r, 0, FALSE)
  /\ UNCHANGED <<db, l2, l1, settled, raced>>

\* null is returned but not cached.
NoRow(r) ==
  /\ job[r].pc = "noRow"
  /\ Settle(r, 0, TRUE)
  /\ UNCHANGED <<db, l2, l1, settled, raced>>

\* SETEX of the L2 key; an error is logged.
SetEx(r) ==
  /\ job[r].pc = "setex"
  /\ l2' = [l2 EXCEPT ![job[r].key] = job[r].val] \/ UNCHANGED l2
  /\ Goto(r, "hydrate")
  /\ UNCHANGED <<db, l1, inflight, settled, raced>>

Hydrate(r) ==
  /\ job[r].pc = "hydrate"
  /\ SetL1(r)
  /\ Goto(r, "add")
  /\ UNCHANGED <<db, l2, inflight, settled, raced>>

\* bloom.add never rejects; the work is done.
BloomAdded(r) ==
  /\ job[r].pc = "add"
  /\ Settle(r, job[r].val, TRUE)
  /\ UNCHANGED <<db, l2, l1, settled, raced>>

\* The caller has its answer.
Return(r) ==
  /\ job[r].pc = "return"
  /\ job' = [job EXCEPT ![r] = NoJob]
  /\ UNCHANGED <<db, l2, l1, inflight, settled, raced>>

-----------------------------------------------------------------------------
(* Writes *)

\* prisma create: a first version, nothing to invalidate.
Create(k) ==
  /\ db[k] = 0 /\ MaxVersion > 0
  /\ db' = [db EXCEPT ![k] = 1]
  /\ UNCHANGED <<l2, l1, inflight, job, settled, raced>>

\* A DAO's prisma update commits.
Update(r, n, k) ==
  /\ job[r].pc = "idle" /\ db[k] \in 1..(MaxVersion - 1)
  /\ db' = [db EXCEPT ![k] = @ + 1]
  /\ job' = [job EXCEPT ![r] = [NoJob EXCEPT !.pc = "evictL1", !.node = n, !.key = k,
                                             !.val = db[k] + 1]]
  /\ raced' = IF Busy(k, Resolving) THEN raced \cup {k} ELSE raced
  /\ UNCHANGED <<l2, l1, inflight, settled>>

\* invalidate, up to its await: L1 of this node.
EvictL1(r) ==
  /\ job[r].pc = "evictL1"
  /\ l1' = [l1 EXCEPT ![job[r].node][job[r].key] = 0]
  /\ Goto(r, "evictL2")
  /\ UNCHANGED <<db, l2, inflight, settled, raced>>

\* Mutant of EvictL2: a failed DEL goes unnoticed as if it had been done.
EvictL2Skipped(r) ==
  /\ job[r].pc = "evictL2"
  /\ settled' = [settled EXCEPT ![job[r].node][job[r].key] =
                   IF @ < job[r].val THEN job[r].val ELSE @]
  /\ job' = [job EXCEPT ![r] = NoJob]
  /\ UNCHANGED <<db, l2, l1, inflight, raced>>

\* invalidate: DEL of the L2 key; an error is logged and the entry stays.
EvictL2(r) ==
  /\ job[r].pc = "evictL2"
  /\ LET n == job[r].node
         k == job[r].key
     IN  \/ /\ l2' = [l2 EXCEPT ![k] = 0]
            /\ settled' = [settled EXCEPT ![n][k] = IF @ < job[r].val THEN job[r].val ELSE @]
            /\ UNCHANGED raced
         \/ raced' = raced \cup {k} /\ UNCHANGED <<l2, settled>>
  /\ job' = [job EXCEPT ![r] = NoJob]
  /\ UNCHANGED <<db, l1, inflight>>

-----------------------------------------------------------------------------
(* Time and failures *)

\* An L1 entry expires, or is the oldest when another key needs room.
Forget(n, k) ==
  /\ l1[n][k] # 0
  /\ l1' = [l1 EXCEPT ![n][k] = 0]
  /\ UNCHANGED <<db, l2, inflight, job, settled, raced>>

\* Mutant of ExpireL2: the entry was written without a TTL.
ExpireL2Never(k) == FALSE /\ UNCHANGED vars

ExpireL2(k) ==
  /\ l2[k] # 0
  /\ l2' = [l2 EXCEPT ![k] = 0]
  /\ UNCHANGED <<db, l1, inflight, job, settled, raced>>

\* Node n restarts: its memory is gone, and so are the invalidations it owed.
Restart(n) ==
  /\ \E r \in Req : job[r].node = n
  /\ l1' = [l1 EXCEPT ![n] = [k \in Key |-> 0]]
  /\ inflight' = [inflight EXCEPT ![n] = [k \in Key |-> None]]
  /\ job' = [r \in Req |-> IF job[r].node = n THEN NoJob ELSE job[r]]
  /\ raced' = raced \cup {k \in Key : \E r \in Req :
                job[r].node = n /\ job[r].key = k /\ job[r].pc \in Writing}
  /\ UNCHANGED <<db, l2, settled>>

Resolve(r) ==
  L2Get(r) \/ L2Hit(r) \/ Fetch(r) \/ NoRow(r) \/ SetEx(r) \/ Hydrate(r) \/ BloomAdded(r)

Serve(r) == BloomAnswers(r) \/ Resolve(r) \/ Return(r) \/ EvictL1(r) \/ EvictL2(r)

Next ==
  \/ \E r \in Req :
       \/ \E n \in Node, k \in Key :
            \/ \E b \in BOOLEAN : Get(r, n, k, b)
            \/ Update(r, n, k)
       \/ Serve(r)
  \/ \E k \in Key : Create(k) \/ ExpireL2(k) \/ \E n \in Node : Forget(n, k)
  \/ \E n \in Node : Restart(n)

\* Every await of a request settles (the Redis and PostgreSQL clients answer or
\* time out), and every cache entry has a TTL.
Fairness ==
  /\ \A r \in Req : WF_vars(Serve(r))
  /\ \A k \in Key : WF_vars(ExpireL2(k)) /\ \A n \in Node : WF_vars(Forget(n, k))

Spec == Init /\ [][Next]_vars /\ Fairness

-----------------------------------------------------------------------------
(* Properties *)

\* Request coalescing: a node has at most one promise per key at work, and the map
\* names it.
OneFetchPerKey ==
  \A r \in Req : job[r].pc \in Resolving => inflight[job[r].node][job[r].key] = r

\* The place that request r asks for, from when it has made or joined a promise until
\* that settles, and what it is going to answer.
Asks(r) ==
  IF job[r].pc \in Resolving \cup {"wait"} THEN {<<job[r].node, job[r].key>>} ELSE {}
Tells(r) == IF job[r].pc = "return" THEN {<<job[r].val, job[r].ok>>} ELSE {}

Flight == INSTANCE SingleFlight WITH
  Caller <- Req,
  Place <- Node \X Key,
  Answer <- Version \X BOOLEAN,
  asks <- [r \in Req |-> Asks(r)],
  lead <- {r \in Req : job[r].pc \in Resolving},
  told <- [r \in Req |-> Tells(r)]

\* get is a coalescing read: of all that ask a node for a key, also after the await of the
\* Bloom filter, one works, and all who joined are told the answer, or the error, at once.
Coalesces == Flight!Spec

\* Read your writes: a get that begins after a write of its own node was invalidated
\* does not answer with an older version - provided no read of the key was at work
\* while it was written, and no invalidation was lost.
ReadYourWritesWhenSerial ==
  \A r \in Req :
    job[r].pc = "return" /\ job[r].ok /\ job[r].key \notin raced =>
      job[r].val >= job[r].floor

\* The same promise for every schedule, which invalidate's comment makes.
ReadYourWrites ==
  \A r \in Req : job[r].pc = "return" /\ job[r].ok => job[r].val >= job[r].floor

\* Whatever race put a stale version into a cache, it is gone after the TTLs: writes
\* are finitely many here, and then every cached version is the row's for good.
EventuallyFresh ==
  <>[](\A k \in Key : /\ l2[k] \in {0, db[k]}
                      /\ \A n \in Node : l1[n][k] \in {0, db[k]})

\* Every get that joined another one's promise gets an answer.
WaitersReturn ==
  \A r \in Req : job[r].pc = "wait" ~> job[r].pc # "wait"

=============================================================================
