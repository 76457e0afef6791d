----------------------------- MODULE RedisProofs -----------------------------
(***************************************************************************)
(* Proofs about the two components that count on Redis alone between two   *)
(* commands: BloomRebuild, whose lock, shadow and filter are keys of       *)
(* Redis, and Throttle, whose sorted sets and blocks are.     *)
(* In both a key may have expired, or have been written by another         *)
(* process, when the next command arrives.                                 *)
(*                                                                         *)
(* BloomRebuild, for any number of users and runs, any page size and any   *)
(* number of faults: the lock excludes, and a filter whose rebuilds meet   *)
(* no fault has every user.  The second needs to know what a page of the   *)
(* keyset scan holds, how far the scan of a run has come at each of its    *)
(* steps, and that nobody else writes the shadow key meanwhile.            *)
(*                                                                         *)
(* Throttle, for any keys, layers, limits, windows, blocks, delays and     *)
(* number of requests at once: no window lets through more hits than its   *)
(* limit.  The count that the script returns says nothing by itself of     *)
(* the hits that pruning and the TTL have taken out of the sorted set.     *)
(* What is needed is that these were too old for every window that a hit   *)
(* still to be counted can fall into.                                      *)
(***************************************************************************)
EXTENDS BloomRebuild, Throttle, FiniteSetTheorems, WellFoundedInduction, TLAPS

\* What the scan q has behind it, of the rows rws that were there when it began,
\* while the shadow key holds sh.
Scan(q, rws, sh) ==
  /\ ~q.overrun /\ q.pc # "fail"
  /\ q.pc \in {"idle", "start", "delShadow"} => q.cursor = 0 /\ ~q.some
  /\ q.pc = "page" => \A i \in rws \cap q.before : i <= q.cursor => i \in sh
  /\ q.pc = "write" => \A i \in rws \cap q.before :
                         i \in sh \cup q.ids \/ (q.cursor # 0 /\ i > q.cursor)
  /\ q.pc \in {"page", "exists"} /\ sh # {} => q.some
  /\ q.pc \in {"exists", "rename"} => rws \cap q.before \subseteq sh
  /\ q.pc = "rename" => sh # {}
  /\ q.pc = "clear" => rws \cap q.before = {}

\* A run that does q next brings row i back.
Heals(q, i) == (q.pc = "since" /\ i \notin q.before) \/ (q.pc = "readd" /\ i \in q.ids)

\* Whatever a run has read is a row.
IdsInv == \A r \in Run : run[r].ids \subseteq rows

\* A run that has not lost its lock has it.
LockInv == \A r \in Run : run[r].pc \in Rebuilding /\ ~run[r].overrun => lock = r

\* Without a fault every scan is where it seems to be.
ScanInv == faults = 0 => \A r \in Run : Scan(run[r], rows \ late, shadow)

IInv == TypeOK /\ IdsInv /\ LockInv /\ ScanInv /\ FilterComplete
-----------------------------------------------------------------------------
(* Numbers *)

\* Some number is the least.
LEMMA HasLeast ==
  ASSUME NEW S \in SUBSET Nat, S # {}
  PROVE  \E x \in S : \A y \in S : x <= y
<1> DEFINE R == OpToRel(<, Nat)
<1>1. IsWellFoundedOn(R, Nat)
  BY NatLessThanWellFounded
<1>2. \A x, y \in Nat : y < x => <<y, x>> \in R
  BY DEF OpToRel
<1> HIDE DEF R
<1>3. PICK x \in S : \A y \in S : ~ (<<y, x>> \in R)
  BY <1>1, WFMin
<1>4. \A y \in S : ~(y < x)
  BY <1>2, <1>3
<1>5. \A y \in S : y \in Nat /\ x \in Nat
  OBVIOUS
<1> QED
  BY <1>4, <1>5

\* Some number of a finite set is the greatest: a smallest set that had none could not
\* lose an element.
LEMMA HasGreatest ==
  ASSUME NEW S \in SUBSET Nat, IsFiniteSet(S), S # {}
  PROVE  \E x \in S : \A y \in S : y <= x
<1> DEFINE R == StrictSubsetOrdering(S)
           Bad == {T \in SUBSET S : T # {} /\ \A x \in T : \E y \in T : ~(y <= x)}
<1>1. SUFFICES ASSUME Bad # {} PROVE FALSE
  <2>1. S \notin Bad
    BY <1>1
  <2> QED
    BY <2>1
<1>2. IsWellFoundedOn(R, SUBSET S)
  <2>1. FiniteSubsetsOf(S) = SUBSET S
    BY FS_FiniteSubsetsOfFinite
  <2> QED
    BY <2>1, FS_StrictSubsetOrderingWellFounded
<1>3. \A T, U \in SUBSET S : T \subseteq U /\ T # U => <<T, U>> \in R
  BY DEF StrictSubsetOrdering
<1> HIDE DEF R
<1>4. PICK T \in Bad : \A U \in Bad : ~ (<<U, T>> \in R)
  <2>1. Bad \subseteq SUBSET S
    OBVIOUS
  <2> HIDE DEF Bad
  <2> QED
    BY <1>1, <1>2, <2>1, WFMin
<1>5. PICK x \in T : TRUE
  OBVIOUS
<1>6. T \ {x} \notin Bad
  BY <1>3, <1>4, <1>5
<1>7. CASE T \ {x} = {}
  BY <1>5, <1>7
<1>8. CASE T \ {x} # {}
  <2>1. PICK y \in T \ {x} : \A z \in T \ {x} : z <= y
    BY <1>6, <1>8
  <2>2. \A z \in T : z \in Nat
    OBVIOUS
  <2>3. PICK m \in T : x <= m /\ y <= m
    BY <2>2, <2>1, <1>5
  <2>4. \A z \in T : z <= m
    BY <2>1, <2>2, <2>3
  <2> QED
    BY <2>4
<1> QED
  BY <1>7, <1>8
-----------------------------------------------------------------------------
(* fetchPage *)

\* A page takes the rows behind the cursor in order: all up to its last id if it is
\* full, and all there are if it is not.
LEMMA PageIsPrefix ==
  ASSUME rows \subseteq Id, NEW c \in Nat
  PROVE  LET page == PageOf(c)
         IN  /\ page \subseteq rows
             /\ Cardinality(page) = ChunkSize =>
                  /\ Last(page) \in page
                  /\ \A i \in rows : c < i /\ i <= Last(page) => i \in page
             /\ Cardinality(page) # ChunkSize => \A i \in rows : c < i => i \in page
<1> DEFINE rest == {i \in rows : i > c}
           Below(i) == {j \in rest : j < i}
           page == PageOf(c)
<1>1. /\ rows \subseteq Nat /\ IsFiniteSet(rows) /\ page \subseteq rest /\ rest \subseteq rows
      /\ page = {i \in rest : Cardinality(Below(i)) < ChunkSize}
      /\ ChunkSize \in Nat \ {0}
  BY BloomAssumption, FS_Subset DEF PageOf
<1>2. IsFiniteSet(rest) /\ IsFiniteSet(page)
  BY <1>1, FS_Subset
<1>3. \A i \in rest : IsFiniteSet(Below(i)) /\ Cardinality(Below(i)) \in Nat
  BY <1>2, FS_Subset, FS_CardinalityType
<1>4. Cardinality(page) \in Nat /\ \A i \in rest : i \in Nat
  BY <1>1, <1>2, FS_CardinalityType
<1> HIDE DEF page
<1>5. ASSUME NEW m \in page, NEW i \in rest, i <= m
      PROVE  i \in page
  <2>1. Below(i) \subseteq Below(m)
    <3>1. \A j \in rest : j < i => j < m
      BY <1>1, <1>4, <1>5
    <3> QED
      BY <3>1
  <2>2. Cardinality(Below(i)) <= Cardinality(Below(m))
    BY <1>1, <1>3, <2>1, FS_Subset
  <2>3. m \in rest /\ Cardinality(Below(m)) < ChunkSize
    BY <1>1
  <2>4. Cardinality(Below(i)) < ChunkSize
    <3>1. Cardinality(Below(i)) \in Nat /\ Cardinality(Below(m)) \in Nat
      BY <1>3, <2>3
    <3> HIDE DEF Below
    <3> QED
      BY <1>1, <2>2, <2>3, <3>1
  <2> QED
    BY <1>1, <2>4
<1>6. ASSUME page # {}
      PROVE  /\ Last(page) \in page /\ \A j \in page : j <= Last(page)
             /\ Cardinality(page) <= ChunkSize
  <2>1. Last(page) \in page /\ \A j \in page : j <= Last(page)
    BY <1>1, <1>2, <1>6, HasGreatest DEF Last
  <2> DEFINE x == Last(page)
  <2>2. Below(x) = page \ {x}
    <3>0. x \in rest
      BY <1>1, <2>1
    <3>1. x \in Nat /\ \A j \in rest : j <= x <=> j < x \/ j = x
      BY <1>4, <3>0
    <3>2. \A j \in rest : j <= x <=> j \in page
      BY <1>1, <1>5, <2>1
    <3>3. \A j \in rest : j < x => j # x
      BY <1>4, <3>1
    <3> HIDE DEF x
    <3> QED
      BY <1>1, <3>1, <3>2, <3>3
  <2>3. Cardinality(Below(x)) = Cardinality(page) - 1
    BY <1>2, <2>1, <2>2, FS_RemoveElement
  <2>4. Cardinality(Below(x)) < ChunkSize
    BY <1>1, <2>1
  <2>5. Cardinality(page) - 1 < ChunkSize
    BY <2>3, <2>4
  <2> HIDE DEF x
  <2>6. Cardinality(page) <= ChunkSize
    BY <1>1, <1>4, <2>5
  <2> QED
    BY <2>1, <2>6
<1>7. ASSUME Cardinality(page) = ChunkSize
      PROVE  /\ Last(page) \in page
             /\ \A i \in rows : c < i /\ i <= Last(page) => i \in page
  <2>1. page # {}
    BY <1>1, <1>7, FS_EmptySet
  <2> QED
    BY <1>1, <1>5, <1>6, <2>1
<1>8. ASSUME Cardinality(page) # ChunkSize
      PROVE  page = rest
  <2>1. SUFFICES ASSUME rest \ page # {} PROVE FALSE
    BY <1>1
  <2>2. PICK m \in rest \ page : \A y \in rest \ page : m <= y
    BY <1>1, <2>1, HasLeast
  <2>3. Below(m) = page
    <3>1. \A j \in rest : j \in Nat /\ m \in Nat
      BY <1>1
    <3>2. Below(m) \subseteq page
      BY <2>2, <3>1
    <3>3. \A j \in page : ~(m <= j)
      BY <1>5, <2>2
    <3>4. page \subseteq Below(m)
      <4>1. \A j \in page : j \in rest /\ j < m
        BY <1>1, <3>1, <3>3
      <4> QED
        BY <4>1
    <3> QED
      BY <3>2, <3>4
  <2>4. ~(Cardinality(page) < ChunkSize)
    BY <1>1, <2>2, <2>3
  <2>5. page # {}
    <3>1. 0 < ChunkSize
      BY <1>1
    <3> QED
      BY <2>4, <3>1, FS_EmptySet
  <2>6. Cardinality(page) <= ChunkSize
    BY <1>6, <2>5
  <2> QED
    BY <1>1, <1>4, <1>8, <2>4, <2>6
<1> QED
  BY <1>1, <1>7, <1>8 DEF page
-----------------------------------------------------------------------------
(* Effects *)

\* A step that meets a fault counts it; the bound leaves room for it.
LEMMA Counts ==
  ASSUME TypeOK, UNCHANGED faults \/ Fault
  PROVE  /\ faults' \in 0 .. MaxFaults
         /\ faults' = 0 => faults = 0 /\ UNCHANGED faults
         /\ Fault => faults' # 0
BY BloomAssumption DEF TypeOK, Fault

\* Ids are numbers, and a cursor is an id or 0.
LEMMA CursorIsNumber ==
  ASSUME NEW q \in RunState
  PROVE  q.cursor \in Nat /\ \A i \in Id : i \in Nat /\ i # 0
<1>1. \A i \in Id : i \in Nat /\ i # 0
  BY BloomAssumption
<1>2. q.cursor \in Id \cup {0}
  BY DEF RunState
<1> QED
  BY <1>1, <1>2

\* Fewer rows are no more work for a scan.
LEMMA FewerRows ==
  ASSUME NEW q, NEW R, NEW S, NEW sh, Scan(q, R, sh),
         S \cap q.before \subseteq R \cap q.before
  PROVE  Scan(q, S, sh)
BY DEF Scan

\* A step of a run: the rows stay, its own scan goes on, nobody else's is disturbed, and
\* every row that was in the live filter or about to be brought back still is.
LEMMA RunStep ==
  ASSUME IInv, NEW r \in Run, NEW q \in RunState, run' = [run EXCEPT ![r] = q],
         UNCHANGED users, UNCHANGED faults \/ Fault,
         q.ids \subseteq rows, live' \subseteq rows, shadow' \subseteq rows,
         lock' \in Run \cup {None}, \A s \in Run \ {r} : lock = s => lock' = s,
         q.pc \in Rebuilding /\ ~q.overrun => lock' = r,
         faults = 0 /\ UNCHANGED faults =>
           /\ Scan(q, rows \ late, shadow')
           /\ UNCHANGED shadow \/ run[r].pc \in Rebuilding
           /\ \A i \in rows \ (adding \cup late) :
                i \in live \/ Heals(run[r], i) => i \in live' \/ Heals(q, i)
  PROVE  IInv'
<1>1. /\ faults' \in 0 .. MaxFaults
      /\ faults' = 0 => faults = 0 /\ UNCHANGED faults
  BY Counts DEF IInv
<1>2. /\ run' \in [Run -> RunState] /\ run'[r] = q
      /\ \A s \in Run \ {r} : run'[s] = run[s]
      /\ UNCHANGED <<begun, rows, adding, late>>
  BY DEF IInv, TypeOK, users
<1>3. TypeOK' /\ IdsInv'
  BY <1>1, <1>2 DEF IInv, TypeOK, IdsInv
<1>4. LockInv'
  BY <1>2 DEF IInv, LockInv
<1>5. ScanInv'
  <2>1. SUFFICES ASSUME faults' = 0, NEW s \in Run PROVE Scan(run'[s], rows \ late, shadow')
    BY <1>2 DEF ScanInv
  <2>2. /\ Scan(run[r], rows \ late, shadow) /\ Scan(run[s], rows \ late, shadow)
        /\ Scan(q, rows \ late, shadow')
        /\ UNCHANGED shadow \/ run[r].pc \in Rebuilding
    BY <1>1, <2>1 DEF IInv, ScanInv
  <2>3. CASE s = r
    BY <1>2, <2>2, <2>3
  <2>4. CASE s # r /\ UNCHANGED shadow
    BY <1>2, <2>2, <2>4
  <2>5. CASE s # r /\ run[r].pc \in Rebuilding
    <3>1. lock = r /\ run[s].pc \notin Rebuilding
      BY <2>2, <2>5 DEF IInv, LockInv, Scan
    <3>2. Scan(run[s], rows \ late, shadow')
      BY <2>2, <3>1 DEF Scan, Rebuilding
    <3> QED
      BY <1>2, <2>5, <3>2
  <2> QED
    BY <2>2, <2>3, <2>4, <2>5
<1>6. FilterComplete'
  <2>1. SUFFICES ASSUME faults' = 0, NEW i \in rows \ (adding \cup late)
                 PROVE  i \in live' \/ \E s \in Run : Heals(run'[s], i)
    BY <1>2 DEF FilterComplete, Healing, Heals
  <2>2. /\ i \in live \/ \E s \in Run : Heals(run[s], i)
        /\ i \in live \/ Heals(run[r], i) => i \in live' \/ Heals(q, i)
    BY <1>1, <2>1 DEF IInv, FilterComplete, Healing, Heals
  <2> QED
    BY <1>2, <2>2
<1> QED
  BY <1>3, <1>4, <1>5, <1>6 DEF IInv
-----------------------------------------------------------------------------
(* Users *)

\* A user signs up: a row that is committed under a rebuild is late for it, and the live
\* filter is told of every row that is not.
LEMMA UserStep ==
  ASSUME IInv, NEW i \in Id, BeginCreate(i) \/ Commit(i) \/ BloomAdd(i)
  PROVE  IInv'
<1>1. /\ UNCHANGED <<shadow, lock, run>> /\ rows \subseteq rows'
      /\ UNCHANGED faults \/ Fault
  BY DEF BeginCreate, Commit, BloomAdd
<1>2. /\ faults' \in 0 .. MaxFaults
      /\ faults' = 0 => faults = 0 /\ ~Fault
  BY <1>1, Counts DEF IInv
<1>3. TypeOK'
  BY <1>1, <1>2 DEF IInv, TypeOK, BeginCreate, Commit, BloomAdd
<1>4. IdsInv' /\ LockInv'
  BY <1>1 DEF IInv, IdsInv, LockInv
<1>5. ScanInv'
  <2>1. SUFFICES ASSUME faults' = 0, NEW s \in Run PROVE Scan(run[s], rows' \ late', shadow)
    BY <1>1 DEF ScanInv
  <2>2. Scan(run[s], rows \ late, shadow)
    BY <1>2, <2>1 DEF IInv, ScanInv
  <2>3. (rows' \ late') \cap run[s].before \subseteq (rows \ late) \cap run[s].before
    BY DEF BeginCreate, Commit, BloomAdd
  <2> QED
    BY <2>2, <2>3, FewerRows
<1>6. FilterComplete'
  <2>1. SUFFICES ASSUME faults' = 0, NEW k \in rows' \ (adding' \cup late')
                 PROVE  k \in live' \/ Healing(k)
    BY <1>1 DEF FilterComplete, Healing
  <2>2. (k \in rows \ (adding \cup late) /\ live \subseteq live') \/ k \in live'
    BY <1>2, <2>1 DEF BeginCreate, Commit, BloomAdd
  <2> QED
    BY <1>2, <2>1, <2>2 DEF IInv, FilterComplete
<1> QED
  BY <1>3, <1>4, <1>5, <1>6 DEF IInv
-----------------------------------------------------------------------------
(* rebuildNamespace *)

\* The lock is free, so nobody else scans.
LEMMA AcquireStep ==
  ASSUME IInv, NEW r \in Run, Acquire(r)
  PROVE  IInv'
<1> DEFINE q == [run[r] EXCEPT !.pc = "start"]
<1>1. run[r] \in RunState /\ run[r].pc = "idle" /\ run[r].ids \subseteq rows
  BY DEF IInv, TypeOK, IdsInv, Acquire
<1>2. /\ q \in RunState /\ q.pc = "start" /\ q.cursor = run[r].cursor /\ q.some = run[r].some
      /\ q.ids = run[r].ids /\ q.overrun = run[r].overrun
      /\ run' = [run EXCEPT ![r] = q]
  BY <1>1 DEF Acquire, RunState, PC, Rebuilding
<1> HIDE DEF q
<1>3. UNCHANGED <<users, live, shadow, faults>> /\ lock = None /\ lock' = r
  BY DEF Acquire
<1>4. faults = 0 => Scan(q, rows \ late, shadow)
  BY <1>1, <1>2 DEF IInv, ScanInv, Scan
<1>5. \A i \in Id : ~Heals(run[r], i)
  BY <1>1 DEF Heals
<1> QED
  BY <1>1, <1>2, <1>3, <1>4, <1>5, BloomAssumption, RunStep DEF IInv, TypeOK
\* The rows that count are there before the scan begins ...
LEMMA StartStep ==
  ASSUME IInv, NEW r \in Run, Start(r)
  PROVE  IInv'
<1> DEFINE q == [run[r] EXCEPT !.pc = "delShadow", !.before = begun]
<1>1. run[r] \in RunState /\ run[r].pc = "start" /\ run[r].ids \subseteq rows /\ begun \subseteq Id
  BY DEF IInv, TypeOK, IdsInv, Start
<1>2. /\ q \in RunState /\ q.pc = "delShadow" /\ q.cursor = run[r].cursor
      /\ q.some = run[r].some /\ q.ids = run[r].ids /\ q.overrun = run[r].overrun
      /\ run' = [run EXCEPT ![r] = q]
  BY <1>1 DEF Start, RunState, PC, Rebuilding
<1> HIDE DEF q
<1>3. UNCHANGED <<users, live, shadow, lock, faults>>
  BY DEF Start
<1>4. q.pc \in Rebuilding /\ ~q.overrun => lock = r
  BY <1>1, <1>2 DEF IInv, LockInv, Rebuilding
<1>5. faults = 0 => Scan(q, rows \ late, shadow)
  BY <1>1, <1>2 DEF IInv, ScanInv, Scan
<1>6. \A i \in Id : ~Heals(run[r], i)
  BY <1>1 DEF Heals
<1> QED
  BY <1>1, <1>2, <1>3, <1>4, <1>5, <1>6, RunStep DEF IInv, TypeOK

\* ... and the shadow key is empty then.
LEMMA DelShadowStep ==
  ASSUME IInv, NEW r \in Run, DelShadow(r)
  PROVE  IInv'
<1> DEFINE q == [run[r] EXCEPT !.pc = "page"]
<1>1. run[r] \in RunState /\ run[r].pc = "delShadow" /\ run[r].ids \subseteq rows
  BY DEF IInv, TypeOK, IdsInv, DelShadow
<1>2. /\ q \in RunState /\ q.pc = "page" /\ q.cursor = run[r].cursor /\ q.before = run[r].before
      /\ q.some = run[r].some /\ q.ids = run[r].ids /\ q.overrun = run[r].overrun
      /\ run' = [run EXCEPT ![r] = q]
  BY <1>1 DEF DelShadow, Goto, RunState, PC, Rebuilding
<1> HIDE DEF q
<1>3. /\ UNCHANGED <<users, live, lock>> /\ shadow' \subseteq rows
      /\ (shadow' = {} /\ UNCHANGED faults) \/ Fault
  BY DEF DelShadow, IInv, TypeOK
<1>4. q.pc \in Rebuilding /\ ~q.overrun => lock = r
  BY <1>1, <1>2 DEF IInv, LockInv, Rebuilding
<1>5. faults = 0 /\ UNCHANGED faults => shadow' = {}
  BY <1>3, Counts DEF IInv
<1>6. faults = 0 /\ UNCHANGED faults => Scan(q, rows \ late, shadow')
  <2> SUFFICES ASSUME faults = 0, UNCHANGED faults PROVE Scan(q, rows \ late, shadow')
    OBVIOUS
  <2>1. Scan(run[r], rows \ late, shadow) /\ shadow' = {}
    BY <1>5 DEF IInv, ScanInv
  <2>2. q.cursor = 0 /\ ~q.overrun
    BY <1>1, <1>2, <2>1 DEF Scan
  <2> DEFINE scanned == (rows \ late) \cap q.before
  <2>3. scanned \subseteq Nat \ {0}
    BY BloomAssumption DEF IInv, TypeOK
  <2>4. \A i \in scanned : ~(i <= q.cursor)
    <3> HIDE DEF scanned
    <3> QED
      BY <2>2, <2>3
  <2> QED
    BY <1>2, <2>1, <2>2, <2>4 DEF Scan
<1>7. \A i \in Id : ~Heals(run[r], i)
  BY <1>1 DEF Heals
<1>8. run[r].pc \in Rebuilding
  BY <1>1 DEF Rebuilding
<1> QED
  BY <1>1, <1>2, <1>3, <1>4, <1>6, <1>7, <1>8, RunStep DEF IInv, TypeOK

\* A page that is full takes the cursor to its last id; one that is not ends the scan.
LEMMA PageStep ==
  ASSUME IInv, NEW r \in Run, Page(r)
  PROVE  IInv'
<1> DEFINE page == PageOf(run[r].cursor)
           full == Cardinality(page) = ChunkSize
           next == IF page = {} THEN "exists" ELSE "write"
           to == IF full THEN Last(page) ELSE 0
           q == [run[r] EXCEPT !.pc = next, !.ids = page, !.cursor = to]
           e == [run[r] EXCEPT !.pc = "fail"]
<1>1. /\ run[r] \in RunState /\ run[r].pc = "page" /\ run[r].ids \subseteq rows
      /\ rows \subseteq Id /\ run[r].cursor \in Nat
  <2>1. /\ run[r] \in RunState /\ run[r].pc = "page" /\ run[r].ids \subseteq rows
        /\ rows \subseteq Id
    BY DEF IInv, TypeOK, IdsInv, Page
  <2> QED
    BY <2>1, CursorIsNumber
<1>2. /\ page \subseteq rows
      /\ full => Last(page) \in page
      /\ full => \A i \in rows : run[r].cursor < i /\ i <= Last(page) => i \in page
      /\ ~full => \A i \in rows : run[r].cursor < i => i \in page
  BY <1>1, PageIsPrefix
<1>3. UNCHANGED <<users, live, shadow, lock>>
  BY DEF Page
<1>4. \/ run' = [run EXCEPT ![r] = q] /\ UNCHANGED faults
      \/ run' = [run EXCEPT ![r] = e] /\ Fault
  BY DEF Page, Goto, IInv, TypeOK
<1> HIDE DEF page, full
<1>5. next \in PC /\ to \in Id \cup {0} /\ next \in Rebuilding /\ page \in SUBSET Id
  BY <1>1, <1>2 DEF PC, Rebuilding
<1>6. /\ q \in RunState /\ q.pc = next /\ q.cursor = to /\ q.before = run[r].before
      /\ q.some = run[r].some /\ q.ids = page /\ q.overrun = run[r].overrun
  BY <1>1, <1>5 DEF RunState
<1>7. /\ e \in RunState /\ e.pc = "fail" /\ e.ids = run[r].ids /\ e.overrun = run[r].overrun
  BY <1>1 DEF RunState, PC, Rebuilding
<1> HIDE DEF q, e
<1>8. run[r].pc \in Rebuilding /\ (~run[r].overrun => lock = r)
  BY <1>1 DEF IInv, LockInv, Rebuilding
<1>9. \A i \in Id : ~Heals(run[r], i)
  BY <1>1 DEF Heals
<1>10. CASE run' = [run EXCEPT ![r] = q] /\ UNCHANGED faults
  <2>1. faults = 0 => Scan(q, rows \ late, shadow)
    <3> SUFFICES ASSUME faults = 0 PROVE Scan(q, rows \ late, shadow)
      OBVIOUS
    <3>1. Scan(run[r], rows \ late, shadow)
      BY DEF IInv, ScanInv
    <3>2. /\ ~q.overrun /\ (shadow # {} => q.some)
          /\ \A i \in (rows \ late) \cap q.before : i <= run[r].cursor => i \in shadow
      BY <1>1, <1>6, <3>1 DEF Scan
    <3>3. \A i \in rows : i \in Nat /\ (i <= run[r].cursor \/ run[r].cursor < i)
      BY <1>1, BloomAssumption
    <3>4. CASE full
      <4>1. Last(page) \in page /\ to = Last(page) /\ to \in Nat /\ to # 0 /\ page # {}
        BY <1>1, <1>2, <3>4, BloomAssumption
      <4>2. \A i \in rows : i <= to \/ i > to
        BY <3>3, <4>1
      <4>3. \A i \in (rows \ late) \cap q.before : i \in shadow \cup q.ids \/ i > to
        BY <1>2, <1>6, <3>2, <3>3, <3>4, <4>1, <4>2
      <4> QED
        BY <1>6, <3>2, <4>1, <4>3 DEF Scan
    <3>5. CASE ~full
      <4>1. \A i \in (rows \ late) \cap q.before : i \in shadow \cup q.ids
        BY <1>2, <1>6, <3>2, <3>3, <3>5
      <4>2. page = {} => (rows \ late) \cap q.before \subseteq shadow
        BY <1>6, <4>1
      <4> QED
        BY <1>6, <3>2, <4>1, <4>2 DEF Scan
    <3> QED
      BY <3>4, <3>5
  <2> QED
    BY <1>1, <1>2, <1>3, <1>6, <1>8, <1>9, <1>10, <2>1, RunStep DEF IInv, TypeOK
<1>11. CASE run' = [run EXCEPT ![r] = e] /\ Fault
  <2>1. ~(faults = 0 /\ UNCHANGED faults)
    BY <1>11, Counts DEF IInv
  <2> QED
    BY <1>1, <1>3, <1>7, <1>8, <1>11, <2>1, RunStep DEF IInv, TypeOK
<1> QED
  BY <1>4, <1>10, <1>11
\* A page is in the shadow key before the next one is read.
LEMMA WriteShadowStep ==
  ASSUME IInv, NEW r \in Run, WriteShadow(r)
  PROVE  IInv'
<1> DEFINE next == IF run[r].cursor # 0 THEN "page" ELSE "exists"
           q == [run[r] EXCEPT !.pc = next, !.some = TRUE, !.ids = {}]
           e == [run[r] EXCEPT !.pc = "fail"]
<1>1. /\ run[r] \in RunState /\ run[r].pc = "write" /\ run[r].ids \subseteq rows
      /\ rows \subseteq Id /\ shadow \subseteq rows
  BY DEF IInv, TypeOK, IdsInv, WriteShadow
<1>2. /\ UNCHANGED <<users, live, lock>> /\ shadow' \subseteq rows
      /\ UNCHANGED faults \/ Fault
      /\ ~Fault => shadow' = shadow \cup run[r].ids
      /\ \/ run' = [run EXCEPT ![r] = q]
         \/ run' = [run EXCEPT ![r] = e] /\ Fault
  BY <1>1 DEF WriteShadow, Goto, IInv, TypeOK
<1>3. next \in PC /\ next \in Rebuilding /\ next \in {"page", "exists"}
  BY DEF PC, Rebuilding
<1>4. /\ q \in RunState /\ q.pc = next /\ q.cursor = run[r].cursor /\ q.before = run[r].before
      /\ q.some = TRUE /\ q.ids = {} /\ q.overrun = run[r].overrun
  BY <1>1, <1>3 DEF RunState
<1>5. /\ e \in RunState /\ e.pc = "fail" /\ e.ids = run[r].ids /\ e.overrun = run[r].overrun
  BY <1>1 DEF RunState, PC, Rebuilding
<1> HIDE DEF q, e
<1>6. run[r].pc \in Rebuilding /\ (~run[r].overrun => lock = r)
  BY <1>1 DEF IInv, LockInv, Rebuilding
<1>7. \A i \in Id : ~Heals(run[r], i)
  BY <1>1 DEF Heals
<1>8. ASSUME faults = 0, UNCHANGED faults
      PROVE  ~Fault /\ Scan(q, rows \ late, shadow')
  <2>1. ~Fault /\ shadow' = shadow \cup run[r].ids
    BY <1>2, <1>8, Counts DEF IInv
  <2>2. Scan(run[r], rows \ late, shadow)
    BY <1>8 DEF IInv, ScanInv
  <2>3. /\ ~q.overrun
        /\ \A i \in (rows \ late) \cap q.before :
             i \in shadow' \/ (q.cursor # 0 /\ i > q.cursor)
    BY <1>1, <1>4, <2>1, <2>2 DEF Scan
  <2>4. \A i \in rows : i <= q.cursor => ~(i > q.cursor)
    BY <1>1, <1>4, CursorIsNumber
  <2>5. q.pc = "page" => \A i \in (rows \ late) \cap q.before : i <= q.cursor => i \in shadow'
    BY <2>3, <2>4
  <2>6. q.pc = "exists" => (rows \ late) \cap q.before \subseteq shadow'
    BY <1>4, <2>3
  <2> QED
    BY <1>3, <1>4, <2>1, <2>3, <2>5, <2>6 DEF Scan
<1>9. CASE run' = [run EXCEPT ![r] = q]
  BY <1>1, <1>2, <1>3, <1>4, <1>6, <1>7, <1>8, <1>9, RunStep DEF IInv, TypeOK
<1>10. CASE run' = [run EXCEPT ![r] = e] /\ Fault
  BY <1>1, <1>2, <1>5, <1>6, <1>8, <1>10, RunStep DEF IInv, TypeOK
<1> QED
  BY <1>2, <1>9, <1>10

\* The shadow key is there only if the scan wrote a page, and a scan that has left it
\* empty has met no row that counts.
LEMMA ExistsStep ==
  ASSUME IInv, NEW r \in Run, Exists(r)
  PROVE  IInv'
<1> DEFINE next == IF shadow # {} /\ run[r].some THEN "rename" ELSE "clear"
           q == [run[r] EXCEPT !.pc = next]
           c == [run[r] EXCEPT !.pc = "clear"]
<1>1. run[r] \in RunState /\ run[r].pc = "exists" /\ run[r].ids \subseteq rows
  BY DEF IInv, TypeOK, IdsInv, Exists
<1>2. /\ UNCHANGED <<users, live, shadow, lock>>
      /\ \/ run' = [run EXCEPT ![r] = q] /\ UNCHANGED faults
         \/ run' = [run EXCEPT ![r] = c] /\ Fault
  BY DEF Exists, Goto, IInv, TypeOK
<1>3. next \in PC /\ next \in Rebuilding /\ "clear" \in PC /\ "clear" \in Rebuilding
  BY DEF PC, Rebuilding
<1>4. /\ q \in RunState /\ q.pc = next /\ q.before = run[r].before
      /\ q.ids = run[r].ids /\ q.overrun = run[r].overrun
      /\ c \in RunState /\ c.pc = "clear" /\ c.ids = run[r].ids /\ c.overrun = run[r].overrun
  BY <1>1, <1>3 DEF RunState
<1> HIDE DEF q, c
<1>5. run[r].pc \in Rebuilding /\ (~run[r].overrun => lock = r)
  BY <1>1 DEF IInv, LockInv, Rebuilding
<1>6. \A i \in Id : ~Heals(run[r], i)
  BY <1>1 DEF Heals
<1>7. faults = 0 => Scan(q, rows \ late, shadow)
  <2> SUFFICES ASSUME faults = 0 PROVE Scan(q, rows \ late, shadow)
    OBVIOUS
  <2>1. Scan(run[r], rows \ late, shadow)
    BY DEF IInv, ScanInv
  <2>2. /\ ~q.overrun /\ (rows \ late) \cap q.before \subseteq shadow
        /\ shadow # {} => run[r].some
    BY <1>1, <1>4, <2>1 DEF Scan
  <2>3. next = "clear" => (rows \ late) \cap q.before = {}
    BY <2>2
  <2>4. next \in {"rename", "clear"} /\ (next = "rename" => shadow # {})
    OBVIOUS
  <2> HIDE DEF next
  <2> QED
    BY <1>4, <2>2, <2>3, <2>4 DEF Scan
<1>8. CASE run' = [run EXCEPT ![r] = q] /\ UNCHANGED faults
  BY <1>1, <1>2, <1>3, <1>4, <1>5, <1>6, <1>7, <1>8, RunStep DEF IInv, TypeOK
<1>9. CASE run' = [run EXCEPT ![r] = c] /\ Fault
  <2>1. ~(faults = 0 /\ UNCHANGED faults)
    BY <1>9, Counts DEF IInv
  <2> QED
    BY <1>1, <1>2, <1>3, <1>4, <1>5, <1>9, <2>1, RunStep DEF IInv, TypeOK
<1> QED
  BY <1>2, <1>8, <1>9

\* The swap drops no row that was there when the scan began, and those that came since
\* are about to be read.
LEMMA RenameStep ==
  ASSUME IInv, NEW r \in Run, Rename(r)
  PROVE  IInv'
<1> DEFINE q == [run[r] EXCEPT !.pc = "since"]
           e == [run[r] EXCEPT !.pc = "fail"]
<1>1. /\ run[r] \in RunState /\ run[r].pc = "rename" /\ run[r].ids \subseteq rows
      /\ live \subseteq rows /\ shadow \subseteq rows
  BY DEF IInv, TypeOK, IdsInv, Rename
<1>2. /\ UNCHANGED <<users, lock>>
      /\ \/ shadow # {} /\ live' = shadow /\ shadow' = {} /\ run' = [run EXCEPT ![r] = q]
            /\ UNCHANGED faults
         \/ shadow = {} /\ run' = [run EXCEPT ![r] = e] /\ UNCHANGED <<live, shadow, faults>>
         \/ Fault /\ run' = [run EXCEPT ![r] = e] /\ UNCHANGED <<live, shadow>>
  BY DEF Rename, Goto, IInv, TypeOK
<1>3. /\ q \in RunState /\ q.pc = "since" /\ q.before = run[r].before
      /\ q.ids = run[r].ids /\ q.overrun = run[r].overrun
      /\ e \in RunState /\ e.pc = "fail" /\ e.ids = run[r].ids /\ e.overrun = run[r].overrun
  BY <1>1 DEF RunState, PC, Rebuilding
<1> HIDE DEF q, e
<1>4. run[r].pc \in Rebuilding /\ (~run[r].overrun => lock = r)
  BY <1>1 DEF IInv, LockInv, Rebuilding
<1>5. ASSUME faults = 0
      PROVE  /\ ~run[r].overrun /\ shadow # {}
             /\ (rows \ late) \cap run[r].before \subseteq shadow
  BY <1>1, <1>5 DEF IInv, ScanInv, Scan
<1>6. CASE /\ live' = shadow /\ shadow' = {} /\ run' = [run EXCEPT ![r] = q]
           /\ UNCHANGED faults
  <2>1. faults = 0 => Scan(q, rows \ late, {})
    BY <1>3, <1>5 DEF Scan
  <2>2. faults = 0 => \A i \in rows \ (adding \cup late) : i \in live' \/ Heals(q, i)
    BY <1>3, <1>5, <1>6 DEF Heals
  <2> QED
    BY <1>1, <1>2, <1>3, <1>4, <1>6, <2>1, <2>2, RunStep DEF IInv, TypeOK
<1>7. CASE /\ run' = [run EXCEPT ![r] = e] /\ UNCHANGED <<live, shadow>>
           /\ Fault \/ (shadow = {} /\ UNCHANGED faults)
  <2>1. ~(faults = 0 /\ UNCHANGED faults)
    BY <1>5, <1>7, Counts DEF IInv
  <2> QED
    BY <1>1, <1>2, <1>3, <1>4, <1>7, <2>1, RunStep DEF IInv, TypeOK
<1> QED
  BY <1>2, <1>6, <1>7
\* There is no row to keep.
LEMMA ClearStep ==
  ASSUME IInv, NEW r \in Run, Clear(r)
  PROVE  IInv'
<1> DEFINE q == [run[r] EXCEPT !.pc = "since"]
<1>1. /\ run[r] \in RunState /\ run[r].pc = "clear" /\ run[r].ids \subseteq rows
      /\ live \subseteq rows
  BY DEF IInv, TypeOK, IdsInv, Clear
<1>2. /\ UNCHANGED <<users, shadow, lock>> /\ run' = [run EXCEPT ![r] = q]
      /\ live' \subseteq rows /\ (UNCHANGED faults \/ Fault)
  BY <1>1 DEF Clear, Goto, IInv, TypeOK
<1>3. /\ q \in RunState /\ q.pc = "since" /\ q.before = run[r].before
      /\ q.ids = run[r].ids /\ q.overrun = run[r].overrun
  BY <1>1 DEF RunState, PC, Rebuilding
<1> HIDE DEF q
<1>4. run[r].pc \in Rebuilding /\ (~run[r].overrun => lock = r)
  BY <1>1 DEF IInv, LockInv, Rebuilding
<1>5. ASSUME faults = 0
      PROVE  /\ Scan(q, rows \ late, shadow)
             /\ \A i \in rows \ (adding \cup late) : Heals(q, i)
  <2>1. (rows \ late) \cap run[r].before = {} /\ ~run[r].overrun
    BY <1>1, <1>5 DEF IInv, ScanInv, Scan
  <2> QED
    BY <1>3, <2>1 DEF Scan, Heals
<1> QED
  BY <1>1, <1>2, <1>3, <1>4, <1>5, RunStep DEF IInv, TypeOK

\* The reconciliation reads what the scan did not have to.
LEMMA SinceStep ==
  ASSUME IInv, NEW r \in Run, Since(r)
  PROVE  IInv'
<1> DEFINE recent == rows \ run[r].before
           next == IF recent = {} THEN "release" ELSE "readd"
           q == [run[r] EXCEPT !.pc = next, !.ids = recent, !.before = {}]
           e == [run[r] EXCEPT !.pc = "release"]
<1>1. /\ run[r] \in RunState /\ run[r].pc = "since" /\ run[r].ids \subseteq rows
      /\ rows \subseteq Id
  BY DEF IInv, TypeOK, IdsInv, Since
<1>2. /\ UNCHANGED <<users, live, shadow, lock>>
      /\ \/ run' = [run EXCEPT ![r] = q] /\ UNCHANGED faults
         \/ run' = [run EXCEPT ![r] = e] /\ Fault
  BY DEF Since, Goto, IInv, TypeOK
<1>3. next \in PC /\ next \in Rebuilding /\ next \in {"release", "readd"}
  BY DEF PC, Rebuilding
<1>4. /\ q \in RunState /\ q.pc = next /\ q.ids = recent /\ q.overrun = run[r].overrun
  BY <1>1, <1>3 DEF RunState
<1>5. /\ e \in RunState /\ e.pc = "release" /\ e.ids = run[r].ids
      /\ e.overrun = run[r].overrun
  BY <1>1 DEF RunState, PC, Rebuilding
<1> HIDE DEF q, e
<1>6. run[r].pc \in Rebuilding /\ (~run[r].overrun => lock = r)
  BY <1>1 DEF IInv, LockInv, Rebuilding
<1>7. ASSUME faults = 0
      PROVE  /\ Scan(q, rows \ late, shadow)
             /\ \A i \in rows : Heals(run[r], i) => Heals(q, i)
  <2>1. ~run[r].overrun
    BY <1>7 DEF IInv, ScanInv, Scan
  <2> QED
    BY <1>1, <1>3, <1>4, <2>1 DEF Scan, Heals
<1>8. CASE run' = [run EXCEPT ![r] = q] /\ UNCHANGED faults
  BY <1>1, <1>2, <1>3, <1>4, <1>6, <1>7, <1>8, RunStep DEF IInv, TypeOK
<1>9. CASE run' = [run EXCEPT ![r] = e] /\ Fault
  <2>1. ~(faults = 0 /\ UNCHANGED faults)
    BY <1>9, Counts DEF IInv
  <2>2. e.pc \in Rebuilding
    BY <1>5 DEF Rebuilding
  <2> QED
    BY <1>1, <1>2, <1>5, <1>6, <1>9, <2>1, <2>2, RunStep DEF IInv, TypeOK
<1> QED
  BY <1>2, <1>8, <1>9

\* What the reconciliation has read is in the live filter.
LEMMA ReAddStep ==
  ASSUME IInv, NEW r \in Run, ReAdd(r)
  PROVE  IInv'
<1> DEFINE q == [run[r] EXCEPT !.pc = "release"]
           e == [run[r] EXCEPT !.pc = "fail"]
<1>1. /\ run[r] \in RunState /\ run[r].pc = "readd" /\ run[r].ids \subseteq rows
      /\ live \subseteq rows
  BY DEF IInv, TypeOK, IdsInv, ReAdd
<1>2. /\ UNCHANGED <<users, shadow, lock>> /\ live' \subseteq rows
      /\ UNCHANGED faults \/ Fault
      /\ ~Fault => live' = live \cup run[r].ids
      /\ \/ run' = [run EXCEPT ![r] = q]
         \/ run' = [run EXCEPT ![r] = e] /\ Fault
  BY <1>1 DEF ReAdd, Goto, IInv, TypeOK
<1>3. /\ q \in RunState /\ q.pc = "release" /\ q.ids = run[r].ids
      /\ q.overrun = run[r].overrun
      /\ e \in RunState /\ e.pc = "fail" /\ e.ids = run[r].ids /\ e.overrun = run[r].overrun
  BY <1>1 DEF RunState, PC, Rebuilding
<1> HIDE DEF q, e
<1>4. run[r].pc \in Rebuilding /\ (~run[r].overrun => lock = r)
  BY <1>1 DEF IInv, LockInv, Rebuilding
<1>5. ASSUME faults = 0, UNCHANGED faults
      PROVE  /\ ~Fault /\ Scan(q, rows \ late, shadow)
             /\ \A i \in rows : i \in live \/ Heals(run[r], i) => i \in live'
  <2>1. ~Fault /\ live' = live \cup run[r].ids
    BY <1>2, <1>5, Counts DEF IInv
  <2>2. ~run[r].overrun
    BY <1>5 DEF IInv, ScanInv, Scan
  <2> QED
    BY <1>1, <1>3, <2>1, <2>2 DEF Scan, Heals
<1>6. CASE run' = [run EXCEPT ![r] = q]
  BY <1>1, <1>2, <1>3, <1>4, <1>5, <1>6, RunStep DEF IInv, TypeOK
<1>7. CASE run' = [run EXCEPT ![r] = e] /\ Fault
  BY <1>1, <1>2, <1>3, <1>4, <1>5, <1>7, RunStep DEF IInv, TypeOK
<1> QED
  BY <1>2, <1>6, <1>7

\* Only a run that met a fault fails.
LEMMA FailStep ==
  ASSUME IInv, NEW r \in Run, Fail(r)
  PROVE  IInv'
<1> DEFINE q == [run[r] EXCEPT !.pc = "release"]
<1>1. /\ run[r] \in RunState /\ run[r].pc = "fail" /\ run[r].ids \subseteq rows
      /\ shadow \subseteq rows
  BY DEF IInv, TypeOK, IdsInv, Fail
<1>2. /\ UNCHANGED <<users, live, lock>> /\ run' = [run EXCEPT ![r] = q]
      /\ shadow' \subseteq rows /\ (UNCHANGED faults \/ Fault)
  BY <1>1 DEF Fail, Goto, IInv, TypeOK
<1>3. /\ q \in RunState /\ q.pc = "release" /\ q.ids = run[r].ids
      /\ q.overrun = run[r].overrun
  BY <1>1 DEF RunState, PC, Rebuilding
<1> HIDE DEF q
<1>4. run[r].pc \in Rebuilding /\ (~run[r].overrun => lock = r)
  BY <1>1 DEF IInv, LockInv, Rebuilding
<1>5. faults # 0
  BY <1>1 DEF IInv, ScanInv, Scan
<1> QED
  BY <1>1, <1>2, <1>3, <1>4, <1>5, RunStep DEF IInv, TypeOK

\* An idle run has no rows and no claim.
LEMMA NoRunIsIdle ==
  /\ NoRun \in RunState /\ NoRun.pc = "idle" /\ NoRun.pc \notin Rebuilding
  /\ NoRun.ids = {} /\ \A i \in Id : ~Heals(NoRun, i)
  /\ \A R, S : Scan(NoRun, R, S)
BY DEF NoRun, RunState, PC, Rebuilding, Heals, Scan

\* The lock is given back only by the run that has it.
LEMMA ReleaseStep ==
  ASSUME IInv, NEW r \in Run, Release(r)
  PROVE  IInv'
<1>1. run[r].pc = "release" /\ \A i \in Id : ~Heals(run[r], i)
  BY DEF Release, Heals
<1>2. /\ UNCHANGED <<users, live, shadow>> /\ run' = [run EXCEPT ![r] = NoRun]
      /\ UNCHANGED faults \/ Fault
      /\ lock' \in Run \cup {None} /\ \A s \in Run \ {r} : lock = s => lock' = s
  BY DEF Release, IInv, TypeOK
<1> QED
  BY <1>1, <1>2, NoRunIsIdle, RunStep DEF IInv, TypeOK
-----------------------------------------------------------------------------
(* The rest of the world *)

\* A lock that expires under its run is a fault.
LEMMA ExpireLockStep ==
  ASSUME IInv, ExpireLock
  PROVE  IInv'
<1>1. /\ lock \in Run /\ lock' = None /\ UNCHANGED <<users, live, shadow>>
      /\ run[lock] \in RunState
  BY DEF IInv, TypeOK, ExpireLock
<1>2. UNCHANGED faults \/ Fault
  BY DEF ExpireLock
<1>3. /\ faults' \in 0 .. MaxFaults
      /\ faults' = 0 => faults = 0 /\ UNCHANGED faults
      /\ Fault => faults' # 0
  BY <1>2, Counts DEF IInv
<1>4. /\ run' \in [Run -> RunState]
      /\ \A s \in Run : /\ run'[s].pc = run[s].pc /\ run'[s].ids = run[s].ids
                        /\ ~run'[s].overrun => ~run[s].overrun
      /\ run[lock].pc \in Rebuilding => run'[lock].overrun /\ Fault
      /\ run[lock].pc \notin Rebuilding => run' = run
  <2>1. CASE run[lock].pc \in Rebuilding
    <3> DEFINE q == [run[lock] EXCEPT !.overrun = TRUE]
    <3>1. run' = [run EXCEPT ![lock] = q] /\ Fault
      BY <2>1 DEF ExpireLock, IInv, TypeOK
    <3>2. q \in RunState /\ q.pc = run[lock].pc /\ q.ids = run[lock].ids /\ q.overrun = TRUE
      BY <1>1 DEF RunState
    <3> HIDE DEF q
    <3> QED
      BY <1>1, <2>1, <3>1, <3>2 DEF IInv, TypeOK
  <2>2. CASE run[lock].pc \notin Rebuilding
    BY <2>2 DEF ExpireLock, IInv, TypeOK
  <2> QED
    BY <2>1, <2>2
<1>5. TypeOK' /\ IdsInv'
  BY <1>1, <1>3, <1>4 DEF IInv, TypeOK, IdsInv, users
<1>6. LockInv'
  BY <1>1, <1>4 DEF IInv, LockInv
<1>7. faults' = 0 => run' = run
  BY <1>3, <1>4
<1>8. ScanInv' /\ FilterComplete'
  BY <1>1, <1>3, <1>7 DEF IInv, ScanInv, FilterComplete, Healing, users
<1> QED
  BY <1>5, <1>6, <1>8 DEF IInv

\* A run that dies is a fault too.
LEMMA CrashStep ==
  ASSUME IInv, NEW r \in Run, Crash(r)
  PROVE  IInv'
<1>1. /\ UNCHANGED <<users, live, shadow, lock>> /\ run' = [run EXCEPT ![r] = NoRun] /\ Fault
  BY DEF Crash
<1>2. ~(faults = 0 /\ UNCHANGED faults)
  BY <1>1, Counts DEF IInv
<1> QED
  BY <1>1, <1>2, NoRunIsIdle, RunStep DEF IInv, TypeOK

\* A node that boots only ever adds rows to the live filter.
LEMMA WarmStep ==
  ASSUME IInv, NEW r \in Run, WarmRead(r) \/ WarmWrite(r)
  PROVE  IInv'
<1> DEFINE q == [run[r] EXCEPT !.pc = "warm", !.ids = rows]
<1>1. /\ run[r] \in RunState /\ run[r].ids \subseteq rows /\ live \subseteq rows
      /\ rows \subseteq Id /\ run[r].pc \in {"idle", "warm"}
  BY DEF IInv, TypeOK, IdsInv, WarmRead, WarmWrite
<1>2. \A i \in Id : ~Heals(run[r], i)
  BY <1>1 DEF Heals
<1>3. CASE WarmRead(r)
  <2>1. UNCHANGED <<users, live, shadow, lock, faults>> /\ run' = [run EXCEPT ![r] = q]
    BY <1>3 DEF WarmRead, IInv, TypeOK
  <2>2. /\ q \in RunState /\ q.pc = "warm" /\ q.ids = rows /\ q.overrun = run[r].overrun
    BY <1>1 DEF RunState, PC
  <2> HIDE DEF q
  <2>3. q.pc \notin Rebuilding
    BY <2>2 DEF Rebuilding
  <2>4. faults = 0 => Scan(q, rows \ late, shadow)
    BY <2>2 DEF IInv, ScanInv, Scan
  <2> QED
    BY <1>1, <1>2, <2>1, <2>2, <2>3, <2>4, RunStep DEF IInv, TypeOK
<1>4. CASE WarmWrite(r)
  <2>1. /\ UNCHANGED <<users, shadow, lock>> /\ run' = [run EXCEPT ![r] = NoRun]
        /\ live \subseteq live' /\ live' \subseteq rows /\ (UNCHANGED faults \/ Fault)
    BY <1>1, <1>4 DEF WarmWrite
  <2> QED
    BY <1>2, <2>1, NoRunIsIdle, RunStep DEF IInv, TypeOK
<1> QED
  BY <1>3, <1>4
-----------------------------------------------------------------------------
(* The theorems *)

\* The filter was warmed, and nobody rebuilds it.
LEMMA InitIsComplete ==
  Init => IInv
<1> SUFFICES ASSUME Init PROVE IInv
  OBVIOUS
<1>1. \A r \in Run : run[r] = NoRun
  BY DEF Init
<1>2. TypeOK /\ IdsInv /\ LockInv /\ ScanInv
  BY <1>1, NoRunIsIdle, BloomAssumption DEF Init, TypeOK, IdsInv, LockInv, ScanInv
<1>3. FilterComplete
  BY DEF Init, FilterComplete
<1> QED
  BY <1>2, <1>3 DEF IInv

\* Every step keeps the lock and the scans.
LEMMA NextIsComplete ==
  IInv /\ [Next]_vars => IInv'
<1> SUFFICES ASSUME IInv, [Next]_vars PROVE IInv'
  OBVIOUS
<1>1. ASSUME NEW i \in Id, BeginCreate(i) \/ Commit(i) \/ BloomAdd(i) PROVE IInv'
  BY <1>1, UserStep
<1>2. ASSUME NEW r \in Run, Acquire(r) \/ Step(r) \/ Crash(r) \/ WarmRead(r) PROVE IInv'
  BY <1>2, AcquireStep, StartStep, DelShadowStep, PageStep, WriteShadowStep, ExistsStep,
     RenameStep, ClearStep, SinceStep, ReAddStep, FailStep, ReleaseStep, CrashStep, WarmStep
     DEF Step
<1>3. ExpireLock => IInv'
  BY ExpireLockStep
<1>4. ASSUME UNCHANGED vars PROVE IInv'
  BY <1>4 DEF vars, IInv, TypeOK, IdsInv, LockInv, ScanInv, FilterComplete, Healing
<1> QED
  BY <1>1, <1>2, <1>3, <1>4 DEF Next

\* The lock, the scans and the filter hang together in every reachable state.
THEOREM Inductive == Spec => []IInv
<1> QED
  BY InitIsComplete, NextIsComplete, PTL DEF Spec

\* The filters only ever hold ids of committed rows, and every run is at one of its
\* statements with a page of ids, whatever the page size and the users.
THEOREM TypeCorrect == Spec => []TypeOK
<1> QED
  BY Inductive, PTL DEF IInv

\* The lock excludes, for any number of runs: two rebuilds are at work at once only if
\* the lock of one of them expired under it.
THEOREM LockExcludes == Spec => []OneRebuildUnlessOverrun
<1>1. IInv => OneRebuildUnlessOverrun
  BY DEF IInv, LockInv, OneRebuildUnlessOverrun
<1> QED
  BY <1>1, Inductive, PTL

\* Without a fault no user is missing from the filter but for the time between the swap
\* and the reconciliation, or because its INSERT began before a rebuild did and was
\* committed after: the keyset scan of BloomRebuildService leaves nobody out, however the
\* table is cut into pages and whoever signs up meanwhile.
THEOREM NobodyIsLost == Spec => []FilterComplete
<1> QED
  BY Inductive, PTL DEF IInv
-----------------------------------------------------------------------------
(* Throttle: what is always true *)

\* Request r is between the stamp and the script of layer k.
Stamped(r, k) == job[r].pc = "eval" /\ KeyOf(r) = k

\* Where the hits of age b that k let through are now: in its sorted set, or too old to
\* count for any hit that is there or on its way.
Accounted(k, b) ==
  \/ passed[k][b] <= hits[k][b]
  \/ \E a \in Age : hits[k][a] > 0 /\ b >= a + Window[k]
  \/ /\ b >= Window[k]
     /\ \A r \in Req : Stamped(r, k) => b >= job[r].age + Window[k]

\* The hits that a key let through are accounted for: neither pruning nor the TTL has
\* taken one out of the sorted set that the next script would have had to count.
KeptInv ==
  \A k \in Key \ overtaken : \A b \in Age : passed[k][b] > 0 => Accounted(k, b)

\* No hit is older than what its set has left of its TTL allows.
AgedInv ==
  \A k \in Key : \A b \in Age :
    hits[k][b] > 0 \/ passed[k][b] > 0 => b + expire[k] >= Window[k]

\* The members of h in the window that ends a ticks ago.
Within(h, a, w) == {m \in Members(h) : a <= m[1] /\ m[1] < a + w}

\* What a key let through in a window is within its limit, unless one of its stamps was
\* overtaken: AdmitAtMostLimit key by key, whoever the hits belong to.
BoundInv ==
  \A k \in Key \ overtaken : \A a \in Age :
    Cardinality(Within(passed[k], a, Window[k])) <= Limit[k]

\* The inductive invariant.
LimitInv == ThrottleTypeOK /\ KeptInv /\ AgedInv /\ BoundInv
-----------------------------------------------------------------------------
(* Ages and members *)

\* The oldest hit that is told apart is as old as the longest window asks for.
LEMMA Ages ==
  ASSUME ThrottleAssumption
  PROVE  /\ MaxAge \in Nat
         /\ \A k \in Key : MaxDelay + Window[k] <= MaxAge + 1
<1> DEFINE W == Range(Window)
<1>1. W = {Window[k] : k \in Key} /\ W # {} /\ W \subseteq Nat \ {0} /\ IsFiniteSet(W)
  BY DEF ThrottleAssumption, Range
<1>2. PICK x \in W : \A y \in W : y <= x
  <2> HIDE DEF W
  <2> QED
    BY <1>1, HasGreatest
<1>3. Max(W) \in W /\ \A y \in W : y <= Max(W)
  <2>1. \A y \in W : x >= y
    BY <1>1, <1>2
  <2>2. Max(W) \in W /\ \A y \in W : Max(W) >= y
    <3> HIDE DEF W
    <3> QED
      BY <1>2, <2>1 DEF Max
  <2> QED
    BY <1>1, <2>2
<1>4. MaxDelay \in Nat
  BY DEF ThrottleAssumption
<1>5. \A k \in Key : Window[k] \in W
  BY <1>1
<1> HIDE DEF W
<1>6. MaxAge = MaxDelay + Max(W) - 1
  BY DEF MaxAge, W
<1>7. Max(W) \in Nat \ {0}
  BY <1>1, <1>3
<1>8. \A k \in Key : Window[k] \in Nat /\ Window[k] <= Max(W)
  BY <1>1, <1>3, <1>5
<1> QED
  BY <1>4, <1>6, <1>7, <1>8

\* A sorted set is finite, and so is every part of it.
LEMMA FinitelyMany ==
  ASSUME ThrottleAssumption, NEW h
  PROVE  /\ IsFiniteSet(Members(h)) /\ IsFiniteSet(Age \X (1..MaxCount))
         /\ \A S \in SUBSET Members(h) :
              IsFiniteSet(S) /\ Cardinality(S) <= Cardinality(Members(h))
<1>1. IsFiniteSet(Age) /\ IsFiniteSet(1..MaxCount)
  <2>1. MaxCount \in Nat
    BY DEF ThrottleAssumption
  <2> QED
    <3>1. MaxAge \in Int /\ MaxCount \in Int /\ 0 \in Int /\ 1 \in Int
      BY <2>1, Ages
    <3>2. IsFiniteSet(0..MaxAge) /\ IsFiniteSet(1..MaxCount)
      BY <3>1, FS_Interval
    <3> QED
      BY <3>2 DEF Age
<1>2. IsFiniteSet(Age \X (1..MaxCount))
  BY <1>1, FS_Product
<1>3. Members(h) \in SUBSET (Age \X (1..MaxCount))
  BY DEF Members
<1>4. IsFiniteSet(Members(h))
  BY <1>2, <1>3, FS_Subset
<1> QED
  BY <1>2, <1>4, FS_Subset

\* A set that maps into another one without two of its elements meeting is no larger.
LEMMA NoLarger ==
  ASSUME NEW S, NEW T, IsFiniteSet(T), NEW f \in [S -> T],
         \A x, y \in S : f[x] = f[y] => x = y
  PROVE  IsFiniteSet(S) /\ Cardinality(S) <= Cardinality(T)
<1>1. f \in Injection(S, T)
  BY DEF Injection, IsInjective
<1> QED
  BY <1>1, FS_Injection

\* The members of a window a tick later are those of the window before, aged.
LEMMA WindowAges ==
  ASSUME ThrottleAssumption, NEW h \in [Age -> 0..MaxCount], NEW a \in Age,
         NEW w \in Nat \ {0}, NEW n \in Nat,
         \A b \in Age : Cardinality(Within(h, b, w)) <= n
  PROVE  Cardinality(Within(Older(h), a, w)) <= n
<1> DEFINE a0 == IF a = 0 THEN 0 ELSE a - 1
           S == Within(Older(h), a, w)
           T == Within(h, a0, w)
           f == [m \in S |-> <<m[1] - 1, m[2]>>]
<1>0. MaxCount \in Nat /\ MaxAge \in Nat
  BY Ages DEF ThrottleAssumption
<1>1. a0 \in Age
  BY <1>0 DEF Age
<1>2. IsFiniteSet(T)
  BY FinitelyMany DEF Within
<1>3. \A m \in S : /\ m = <<m[1], m[2]>> /\ m[1] \in Age /\ m[2] \in 1..MaxCount
                   /\ m[1] # 0 /\ m[2] <= h[m[1] - 1] /\ a <= m[1] /\ m[1] < a + w
  BY <1>0 DEF Within, Members, Older, Age
<1>4. \A m \in S : <<m[1] - 1, m[2]>> \in T
  <2> SUFFICES ASSUME NEW m \in S PROVE <<m[1] - 1, m[2]>> \in T
    OBVIOUS
  <2>1. /\ m[1] \in Age /\ m[2] \in 1..MaxCount
        /\ m[1] # 0 /\ m[2] <= h[m[1] - 1] /\ a <= m[1] /\ m[1] < a + w
    BY <1>3
  <2>2. m[1] - 1 \in Age /\ a0 <= m[1] - 1 /\ m[1] - 1 < a0 + w
    <3>1. a \in 0..MaxAge /\ m[1] \in 0..MaxAge
      BY <2>1 DEF Age
    <3> HIDE DEF S
    <3>2. m[1] - 1 \in Age
      <4>1. m[1] \in 0..MaxAge /\ m[1] # 0 /\ MaxAge \in Nat
        BY <3>1, <2>1, <1>0
      <4>2. m[1] - 1 \in 0..MaxAge
        BY <4>1
      <4> QED
        BY <4>2 DEF Age
    <3> QED
      BY <3>1, <3>2, <2>1, <1>0
  <2> HIDE DEF S, a0
  <2> QED
    BY <2>1, <2>2 DEF Within, Members
<1>5. f \in [S -> T]
  BY <1>4
<1>6. \A x, y \in S : f[x] = f[y] => x = y
  <2> SUFFICES ASSUME NEW x \in S, NEW y \in S, f[x] = f[y] PROVE x = y
    OBVIOUS
  <2>1. x[1] - 1 = y[1] - 1 /\ x[2] = y[2]
    OBVIOUS
  <2>2. x[1] \in Int /\ y[1] \in Int
    BY <1>3, <1>0 DEF Age
  <2>3. x[1] = y[1]
    BY <2>1, <2>2
  <2> HIDE DEF S
  <2> QED
    BY <1>3, <2>1, <2>3
<1>7. Cardinality(S) <= Cardinality(T) /\ IsFiniteSet(S)
  <2> HIDE DEF S, T, f
  <2> QED
    BY <1>2, <1>5, <1>6, NoLarger
<1>8. Cardinality(T) <= n
  BY <1>1
<1> QED
  <2>1. Cardinality(S) \in Nat /\ Cardinality(T) \in Nat
    BY <1>2, <1>7, FS_CardinalityType
  <2> QED
    BY <1>7, <1>8, <2>1

-----------------------------------------------------------------------------
(* The guard *)

Scores == [Age -> 0..MaxCount]

\* A job that can be put into a slot.
Proper(j) == j \in Job /\ (j.pc # "idle" => j.keys # <<>>)

\* A request that is being checked is at some layer.
LEMMA AtLayer ==
  ASSUME ThrottleTypeOK, NEW r \in Req, job[r].pc # "idle"
  PROVE  KeyOf(r) \in Key /\ job[r].keys \in Seq(Key) /\ job[r].keys # <<>>
<1>1. job[r].keys \in Seq(Key) /\ job[r].keys # <<>>
  BY DEF ThrottleTypeOK, Job
<1> QED
  BY <1>1 DEF KeyOf

LEMMA NoJobIsProper == ThrottleAssumption => Proper(NoJob)
BY DEF ThrottleAssumption, Proper, NoJob, Job

\* A step that changes one job and neither the sets nor their histories, and stamps
\* nothing but with the time it is.
LEMMA JobMoves ==
  ASSUME ThrottleAssumption, LimitInv, NEW r \in Req, NEW j, Proper(j),
         j.pc = "eval" => j.age = 0,
         job' = [job EXCEPT ![r] = j], UNCHANGED <<hits, expire, passed, overtaken>>,
         blocked' \in [Key -> Nat], \A k \in Key : blocked'[k] <= Block[k]
  PROVE  LimitInv'
<1>1. ThrottleTypeOK'
  BY DEF LimitInv, ThrottleTypeOK, Proper
<1>2. \A q \in Req, k \in Key :
        Stamped(q, k)' => job'[q].age = 0 \/ (Stamped(q, k) /\ job'[q].age = job[q].age)
  BY DEF LimitInv, ThrottleTypeOK, Stamped, KeyOf
<1>3. \A k \in Key \ overtaken, b \in Age : Accounted(k, b) => Accounted(k, b)'
  <2> SUFFICES ASSUME NEW k \in Key \ overtaken, NEW b \in Age, Accounted(k, b)
               PROVE  Accounted(k, b)'
    OBVIOUS
  <2>1. CASE b >= Window[k] /\ \A q \in Req : Stamped(q, k) => b >= job[q].age + Window[k]
    <3>1. \A q \in Req : Stamped(q, k)' => b >= job'[q].age + Window[k]
      <4> SUFFICES ASSUME NEW q \in Req, Stamped(q, k)'
                   PROVE  b >= job'[q].age + Window[k]
        OBVIOUS
      <4>1. Window[k] \in Nat
        BY DEF ThrottleAssumption
      <4> QED
        BY <1>2, <2>1, <4>1
    <3> QED
      BY <2>1, <3>1 DEF Accounted
  <2> QED
    BY <2>1 DEF Accounted
<1>4. KeptInv'
  BY <1>3 DEF LimitInv, KeptInv
<1>5. AgedInv' /\ BoundInv'
  BY DEF LimitInv, AgedInv, BoundInv, Within, Members
<1> QED
  BY <1>1, <1>4, <1>5 DEF LimitInv

\* A request is refused.
LEMMA RefuseStep ==
  ASSUME ThrottleAssumption, LimitInv, NEW r \in Req, Refuse(r),
         UNCHANGED <<hits, expire, blocked, passed, overtaken>>
  PROVE  LimitInv'
<1>1. NoJob.pc # "eval"
  BY DEF NoJob
<1>2. blocked' \in [Key -> Nat] /\ \A k \in Key : blocked'[k] <= Block[k]
  BY DEF LimitInv, ThrottleTypeOK
<1> QED
  BY <1>1, <1>2, JobMoves, NoJobIsProper DEF Refuse

\* canActivate comes to a layer.
LEMMA LayerStep ==
  ASSUME ThrottleAssumption, LimitInv, NEW r \in Req,
         NEW ks \in Seq(Key) \ {<<>>}, Enter(r, ks),
         UNCHANGED <<hits, expire, blocked, passed, overtaken>>
  PROVE  LimitInv'
<1>1. CASE blocked[Head(ks)] > 0
  BY <1>1, RefuseStep DEF Enter
<1>2. CASE ~(blocked[Head(ks)] > 0)
  <2> DEFINE j == [NoJob EXCEPT !.pc = "eval", !.keys = ks]
  <2>1. ks \in Seq(Key) /\ ks # <<>> /\ NoJob \in Job
    BY NoJobIsProper DEF Proper
  <2>2. Proper(j) /\ j.age = 0
    <3>1. j \in Job
      BY <2>1 DEF Job
    <3>2. j.keys = ks /\ j.age = 0
      BY DEF NoJob
    <3> HIDE DEF j
    <3> QED
      BY <2>1, <3>1, <3>2 DEF Proper
  <2>3. job' = [job EXCEPT ![r] = j]
    BY <1>2 DEF Enter
  <2>4. blocked' \in [Key -> Nat] /\ \A k \in Key : blocked'[k] <= Block[k]
    BY DEF LimitInv, ThrottleTypeOK
  <2> HIDE DEF j
  <2> QED
    BY <2>2, <2>3, <2>4, JobMoves
<1> QED
  BY <1>1, <1>2

LEMMA CanActivateStep ==
  ASSUME ThrottleAssumption, LimitInv, NEW r \in Req, NEW c \in Client,
         CanActivate(r, c)
  PROVE  LimitInv'
<1>1. Layers[c] \in Seq(Key) \ {<<>>}
  BY DEF ThrottleAssumption
<1> QED
  BY <1>1, LayerStep DEF CanActivate

LEMMA NextLayerStep ==
  ASSUME ThrottleAssumption, LimitInv, NEW r \in Req, GoOn(r)
  PROVE  LimitInv'
<1>1. job[r].keys \in Seq(Key) \ {<<>>}
  BY DEF GoOn, LimitInv, ThrottleTypeOK, Job
<1> QED
  BY <1>1, LayerStep DEF GoOn

LEMMA BlockStep ==
  ASSUME ThrottleAssumption, LimitInv, NEW r \in Req, ActivateBlock(r)
  PROVE  LimitInv'
<1>1. NoJob.pc # "eval"
  BY DEF NoJob
<1>2. blocked' \in [Key -> Nat] /\ \A k \in Key : blocked'[k] <= Block[k]
  <2>1. KeyOf(r) \in Key
    BY AtLayer DEF ActivateBlock, LimitInv
  <2> QED
    BY <2>1 DEF LimitInv, ThrottleTypeOK, ActivateBlock, ThrottleAssumption
<1> QED
  BY <1>1, <1>2, JobMoves, NoJobIsProper DEF Refuse, ActivateBlock

LEMMA CommandFailsStep ==
  ASSUME ThrottleAssumption, LimitInv, NEW r \in Req, CommandFails(r)
  PROVE  LimitInv'
BY RefuseStep DEF CommandFails

-----------------------------------------------------------------------------
(* The script *)

\* What is left of a sorted set when a hit of age d was counted.
LEMMA ScriptIs ==
  ASSUME ThrottleAssumption, NEW h \in Scores, NEW w \in Nat \ {0}, NEW d \in Age
  PROVE  /\ Script(h, w, d) \in Scores
         /\ \A b \in Age : b >= d + w => Script(h, w, d)[b] = 0
         /\ \A b \in Age : b < d + w /\ b # d => Script(h, w, d)[b] = h[b]
         /\ Script(h, w, d)[d] = Cap(h[d] + 1)
         /\ Script(h, w, d)[d] > 0
<1>1. MaxCount \in Nat \ {0} /\ MaxAge \in Nat
  BY Ages DEF ThrottleAssumption
<1>2. d \in Nat /\ ~(d >= d + w)
  BY <1>1 DEF Age
<1> DEFINE p == [a \in Age |-> IF a >= d + w THEN 0 ELSE h[a]]
<1>3. p \in Scores /\ p[d] = h[d]
  BY <1>1, <1>2 DEF Scores
<1>4. Script(h, w, d) = [p EXCEPT ![d] = Cap(@ + 1)]
  BY DEF Script
<1>5. Cap(h[d] + 1) \in 1..MaxCount
  BY <1>1 DEF Cap, Scores
<1>6. \A b \in Age : p[b] = IF b >= d + w THEN 0 ELSE h[b]
  OBVIOUS
<1> HIDE DEF p
<1>7. Script(h, w, d)[d] = Cap(h[d] + 1) /\ Script(h, w, d) \in Scores
  BY <1>3, <1>4, <1>5 DEF Scores
<1>8. \A b \in Age : b # d => Script(h, w, d)[b] = p[b]
  BY <1>3, <1>4 DEF Scores
<1>9. \A b \in Age : b \in Nat /\ d \in Nat /\ w \in Nat
  BY <1>1 DEF Age
<1> QED
  BY <1>2, <1>5, <1>6, <1>7, <1>8, <1>9

\* A request that was judged is at no script.
LEMMA Judged ==
  ASSUME ThrottleAssumption, ThrottleTypeOK, NEW r \in Req, job[r].pc # "idle", NEW n,
         Judge(r, KeyOf(r), n)
  PROVE  \E j : Proper(j) /\ j.pc # "eval" /\ job' = [job EXCEPT ![r] = j]
<1>1. /\ KeyOf(r) \in Key /\ job[r].keys \in Seq(Key) /\ job[r].keys # <<>>
      /\ job[r] \in Job
  BY AtLayer DEF ThrottleTypeOK
<1>2. CASE Refuse(r)
  <2>1. NoJob.pc # "eval"
    BY DEF NoJob
  <2> QED
    BY <1>2, <2>1, NoJobIsProper DEF Refuse
<1>3. CASE job' = [job EXCEPT ![r].pc = "block", ![r].age = 0,
                              ![r].over = n > Limit[KeyOf(r)]]
  <2> DEFINE j == [job[r] EXCEPT !.pc = "block", !.age = 0, !.over = n > Limit[KeyOf(r)]]
  <2>1. job' = [job EXCEPT ![r] = j]
    BY <1>3, <1>1 DEF ThrottleTypeOK
  <2>2. (n > Limit[KeyOf(r)]) \in BOOLEAN /\ 0 \in 0..MaxDelay
    BY DEF ThrottleAssumption
  <2>3. j \in Job /\ j.pc = "block" /\ j.keys = job[r].keys
    BY <1>1, <2>2 DEF Job
  <2> HIDE DEF j
  <2> QED
    BY <1>1, <2>1, <2>3 DEF Proper
<1>4. CASE NextLayer(r)
  <2>1. CASE Len(job[r].keys) > 1
    <3> DEFINE j == [job[r] EXCEPT !.pc = "exists", !.keys = Tail(job[r].keys), !.age = 0]
    <3>1. job' = [job EXCEPT ![r] = j]
      <4>1. job' = [job EXCEPT ![r] = IF Len(job[r].keys) > 1 THEN j ELSE NoJob]
        BY <1>4 DEF NextLayer
      <4> HIDE DEF j
      <4> QED
        BY <4>1, <2>1
    <3>2. Tail(job[r].keys) \in Seq(Key) /\ Tail(job[r].keys) # <<>> /\ 0 \in 0..MaxDelay
      <4> DEFINE ks == job[r].keys
      <4>1. ks \in Seq(Key) /\ ks # <<>> /\ Len(ks) > 1
        BY <1>1, <2>1
      <4> HIDE DEF ks
      <4>2. Tail(ks) \in Seq(Key) /\ Len(Tail(ks)) = Len(ks) - 1
        BY <4>1
      <4>3. Len(Tail(ks)) # 0 /\ Len(<<>>) = 0
        BY <4>1, <4>2
      <4>4. 0 \in 0..MaxDelay
        BY DEF ThrottleAssumption
      <4> QED
        BY <4>2, <4>3, <4>4 DEF ks
    <3>3. j \in Job /\ j.pc = "exists" /\ j.keys = Tail(job[r].keys)
      BY <1>1, <3>2 DEF Job
    <3> HIDE DEF j
    <3> QED
      BY <3>1, <3>2, <3>3 DEF Proper
  <2>2. CASE ~(Len(job[r].keys) > 1)
    <3>1. NoJob.pc # "eval"
      BY DEF NoJob
    <3>2. job' = [job EXCEPT ![r] = NoJob]
      BY <1>4, <2>2, <1>1 DEF NextLayer, ThrottleTypeOK
    <3> QED
      BY <3>1, <3>2, NoJobIsProper
  <2> QED
    BY <2>1, <2>2
<1> QED
  BY <1>2, <1>3, <1>4 DEF Judge

\* What a step of the script at layer k finds when its stamp is not overtaken: nothing
\* newer, and what the layer let through within the window is still there.
LEMMA Unovertaken ==
  ASSUME ThrottleAssumption, LimitInv, NEW r \in Req, Eval(r),
         KeyOf(r) \notin overtaken'
  PROVE  LET k == KeyOf(r)
             d == job[r].age
         IN  /\ k \notin overtaken
             /\ \A b \in Age : b < d => hits[k][b] = 0 /\ passed[k][b] = 0
             /\ \A b \in Age : b < d + Window[k] => passed[k][b] <= hits[k][b]
<1> DEFINE k == KeyOf(r)
           d == job[r].age
<1>1. job[r].pc = "eval" /\ k \in Key /\ d \in 0..MaxDelay
  BY AtLayer DEF Eval, LimitInv, ThrottleTypeOK, Job
<1>2. Window[k] \in Nat \ {0} /\ MaxAge \in Nat /\ MaxDelay \in Nat /\ MaxCount \in Nat
  BY <1>1, Ages DEF ThrottleAssumption
<1>3. hits[k] \in Scores /\ passed[k] \in Scores
  BY <1>1 DEF LimitInv, ThrottleTypeOK, Scores
<1>4. k \notin overtaken /\ \A b \in Age : b < d => ~(hits[k][b] > 0)
  BY DEF Eval
<1>5. \A b \in Age : b \in Nat /\ hits[k][b] \in Nat /\ passed[k][b] \in Nat
  BY <1>2, <1>3 DEF Scores, Age
<1>6. Stamped(r, k)
  BY <1>1 DEF Stamped
<1>7. \A b \in Age : b < d + Window[k] => passed[k][b] <= hits[k][b]
  <2> SUFFICES ASSUME NEW b \in Age, b < d + Window[k], passed[k][b] > 0
               PROVE  passed[k][b] <= hits[k][b]
    BY <1>5
  <2>1. Accounted(k, b)
    BY <1>1, <1>4 DEF LimitInv, KeptInv
  <2>2. \A a \in Age : hits[k][a] > 0 => ~(b >= a + Window[k])
    BY <1>1, <1>2, <1>4, <1>5
  <2>3. ~(\A q \in Req : Stamped(q, k) => b >= job[q].age + Window[k])
    BY <1>1, <1>2, <1>5, <1>6
  <2> QED
    BY <2>1, <2>2, <2>3 DEF Accounted
<1>8. \A b \in Age : b < d => hits[k][b] = 0 /\ passed[k][b] = 0
  BY <1>1, <1>2, <1>4, <1>5, <1>7
<1> QED
  BY <1>4, <1>7, <1>8


\* A script has run: at the other keys nothing has changed, at its own a hit has come.
LEMMA Counted ==
  ASSUME ThrottleAssumption, LimitInv, NEW r \in Req, Eval(r),
         NEW k, k = KeyOf(r), NEW d, d = job[r].age
  PROVE  LimitInv'
<1> DEFINE w == Window[k]
           s == Script(hits[k], w, d)
           n == Cardinality(Members(s))
<1>1. job[r].pc = "eval" /\ k \in Key /\ d \in 0..MaxDelay /\ ThrottleTypeOK
  BY AtLayer DEF Eval, LimitInv, ThrottleTypeOK, Job
<1>2. /\ w \in Nat \ {0} /\ MaxAge \in Nat /\ MaxDelay \in Nat /\ MaxCount \in Nat
      /\ Limit[k] \in Nat /\ MaxDelay + w <= MaxAge + 1
  BY <1>1, Ages DEF ThrottleAssumption
<1>3. d \in Age /\ d \in Nat /\ \A b \in Age : b \in Nat
  BY <1>1, <1>2 DEF Age
<1>4. hits[k] \in Scores /\ passed \in [Key -> Scores] /\ hits \in [Key -> Scores]
  BY <1>1 DEF ThrottleTypeOK, Scores
<1>5. /\ s \in Scores /\ s[d] = Cap(hits[k][d] + 1) /\ s[d] > 0
      /\ \A b \in Age : b >= d + w => s[b] = 0
      /\ \A b \in Age : b < d + w /\ b # d => s[b] = hits[k][b]
  <2>1. hits[k] \in Scores /\ w \in Nat \ {0} /\ d \in Age
    BY <1>2, <1>3, <1>4
  <2> HIDE DEF w, s
  <2>2. s = Script(hits[k], w, d)
    BY DEF s
  <2> QED
    <3>1. /\ Script(hits[k], w, d) \in Scores
          /\ \A b \in Age : b >= d + w => Script(hits[k], w, d)[b] = 0
          /\ \A b \in Age :
               b < d + w /\ b # d => Script(hits[k], w, d)[b] = hits[k][b]
      BY <2>1, ScriptIs
    <3>2. /\ Script(hits[k], w, d)[d] = Cap(hits[k][d] + 1)
          /\ Script(hits[k], w, d)[d] > 0
      BY <2>1, ScriptIs
    <3> QED
      BY <2>2, <3>1, <3>2
<1>6. n \in Nat /\ \A S \in SUBSET Members(s) : IsFiniteSet(S) /\ Cardinality(S) <= n
  BY FinitelyMany, FS_CardinalityType
<1>7. /\ hits' = [hits EXCEPT ![k] = s] /\ expire' = [expire EXCEPT ![k] = w]
      /\ Judge(r, k, n) /\ UNCHANGED blocked
  BY DEF Eval, Rearm
<1>8. /\ overtaken \subseteq overtaken' /\ overtaken' \subseteq overtaken \cup {k}
      /\ passed' = [passed EXCEPT ![k] = IF k \in overtaken' THEN NoHits
                                         ELSE IF Passes(k, n)
                                         THEN [passed[k] EXCEPT ![d] = Cap(passed[k][d] + 1)]
                                         ELSE passed[k]]
  BY DEF Eval
<1> HIDE DEF s, n
<1>9. PICK j : Proper(j) /\ j.pc # "eval" /\ job' = [job EXCEPT ![r] = j]
  BY <1>1, <1>7, Judged
<1>10. /\ hits'[k] = s /\ expire'[k] = w
       /\ \A m \in Key \ {k} : /\ hits'[m] = hits[m] /\ expire'[m] = expire[m]
                               /\ passed'[m] = passed[m]
  BY <1>1, <1>4, <1>7, <1>8 DEF ThrottleTypeOK
<1>11. \A q \in Req, m \in Key : Stamped(q, m)' => Stamped(q, m) /\ job'[q].age = job[q].age
  BY <1>1, <1>9 DEF ThrottleTypeOK, Stamped, KeyOf
<1>12. passed'[k] \in Scores
  <2>1. NoHits \in Scores
    BY <1>2 DEF NoHits, Scores
  <2>2. Cap(passed[k][d] + 1) \in 0..MaxCount
    BY <1>1, <1>2, <1>3, <1>4 DEF Cap, Scores
  <2>3. [passed[k] EXCEPT ![d] = Cap(passed[k][d] + 1)] \in Scores
    BY <1>1, <1>3, <1>4, <2>2 DEF Scores
  <2> QED
    BY <1>1, <1>4, <1>8, <2>1, <2>3
<1>13. ThrottleTypeOK'
  <2>1. passed' \in [Key -> Scores] /\ hits' \in [Key -> Scores]
    BY <1>1, <1>4, <1>5, <1>7, <1>8, <1>10, <1>12
  <2>2. expire' \in [Key -> Nat] /\ blocked' \in [Key -> Nat] /\ overtaken' \subseteq Key
    BY <1>1, <1>2, <1>7, <1>8 DEF ThrottleTypeOK
  <2>3. \A m \in Key : expire'[m] <= Window[m] /\ blocked'[m] <= Block[m]
    BY <1>1, <1>2, <1>7, <1>10 DEF ThrottleTypeOK
  <2>4. job' \in [Req -> Job] /\ \A q \in Req : job'[q].pc # "idle" => job'[q].keys # <<>>
    BY <1>1, <1>9 DEF ThrottleTypeOK, Proper
  <2>5. \A m \in Key : (\E a \in Age : hits'[m][a] > 0) => expire'[m] > 0
    <3> SUFFICES ASSUME NEW m \in Key, NEW a \in Age, hits'[m][a] > 0 PROVE expire'[m] > 0
      OBVIOUS
    <3>1. CASE m = k
      BY <1>2, <1>10, <3>1
    <3>2. CASE m # k
      BY <1>1, <1>10, <3>2 DEF ThrottleTypeOK
    <3> QED
      BY <3>1, <3>2
  <2> QED
    BY <2>1, <2>2, <2>3, <2>4, <2>5 DEF ThrottleTypeOK, Scores
<1>14. AgedInv'
  <2> SUFFICES ASSUME NEW m \in Key, NEW b \in Age, hits'[m][b] > 0 \/ passed'[m][b] > 0
               PROVE  b + expire'[m] >= Window[m]
    BY DEF AgedInv
  <2>1. CASE m = k
    BY <1>2, <1>3, <1>10, <2>1
  <2>2. CASE m # k
    BY <1>10, <2>2 DEF LimitInv, AgedInv
  <2> QED
    BY <2>1, <2>2
<1>15. \A m \in Key \ overtaken' :
         m # k => /\ \A b \in Age : passed'[m][b] > 0 => Accounted(m, b)'
                  /\ \A a \in Age : Cardinality(Within(passed[m], a, Window[m])')
                                      <= Limit[m]
  <2> SUFFICES ASSUME NEW m \in Key \ overtaken', m # k
               PROVE  /\ \A b \in Age : passed'[m][b] > 0 => Accounted(m, b)'
                      /\ \A a \in Age : Cardinality(Within(passed[m], a, Window[m])')
                                          <= Limit[m]
    OBVIOUS
  <2>1. m \in Key \ overtaken /\ passed'[m] = passed[m] /\ hits'[m] = hits[m]
    BY <1>8, <1>10
  <2>2. \A b \in Age : passed'[m][b] > 0 => Accounted(m, b)
    BY <2>1 DEF LimitInv, KeptInv
  <2>3. \A b \in Age : Accounted(m, b) => Accounted(m, b)'
    BY <1>11, <2>1 DEF Accounted
  <2>4. \A a \in Age : Within(passed[m], a, Window[m])' = Within(passed[m], a, Window[m])
    BY <2>1 DEF Within, Members
  <2>5. \A a \in Age : Cardinality(Within(passed[m], a, Window[m])) <= Limit[m]
    BY <2>1 DEF LimitInv, BoundInv
  <2> QED
    BY <2>2, <2>3, <2>4, <2>5
<1>16. k \notin overtaken' =>
         /\ \A b \in Age : passed'[k][b] > 0 => Accounted(k, b)'
         /\ \A a \in Age : Cardinality(Within(passed[k], a, Window[k])') <= Limit[k]
  <2> DEFINE p == passed'[k]
  <2> SUFFICES ASSUME k \notin overtaken'
               PROVE  /\ \A b \in Age : p[b] > 0 => Accounted(k, b)'
                      /\ \A a \in Age : Cardinality(Within(p, a, w)) <= Limit[k]
    BY DEF Within, Members
  <2>1. /\ k \notin overtaken
        /\ \A b \in Age : b < d + w => passed[k][b] <= hits[k][b]
    BY Unovertaken
  <2>2. /\ p \in Scores
        /\ \A b \in Age \ {d} : p[b] = passed[k][b]
        /\ p[d] = IF Passes(k, n) THEN Cap(passed[k][d] + 1) ELSE passed[k][d]
        /\ ~Passes(k, n) => p = passed[k]
    BY <1>1, <1>3, <1>4, <1>8, <1>12 DEF Scores
  <2> HIDE DEF w, p
  <2>3. \A b \in Age : b < d + w => p[b] <= s[b]
    <3> SUFFICES ASSUME NEW b \in Age, b < d + w PROVE p[b] <= s[b]
      OBVIOUS
    <3>1. hits[k][b] \in Nat /\ passed[k][b] \in 0..MaxCount /\ passed[k][b] <= hits[k][b]
      BY <1>1, <1>2, <1>4, <2>1 DEF Scores
    <3>2. CASE b # d
      BY <1>5, <2>2, <3>1, <3>2
    <3>3. CASE b = d
      BY <1>2, <1>5, <2>2, <3>1, <3>3 DEF Cap
    <3> QED
      BY <3>2, <3>3
  <2>4. ASSUME NEW b \in Age, p[b] > 0
        PROVE  Accounted(k, b)'
    <3>1. CASE b < d + w
      BY <1>10, <2>3, <3>1 DEF Accounted, p
    <3>2. CASE b >= d + w
      BY <1>3, <1>5, <1>10, <3>2 DEF Accounted, w
    <3> QED
      <4>1. b \in Nat /\ d \in Nat /\ w \in Nat
        BY <1>2, <1>3
      <4>2. b < d + w \/ b >= d + w
        BY <4>1
      <4> QED
        BY <3>1, <3>2, <4>2
  <2>5. ASSUME NEW a \in Age
        PROVE  Cardinality(Within(p, a, w)) <= Limit[k]
    <3>1. CASE Passes(k, n) /\ a <= d
      <4>1. \A m \in Within(p, a, w) : m \in Members(s)
        <5> SUFFICES ASSUME NEW m \in Within(p, a, w) PROVE m \in Members(s)
          OBVIOUS
        <5>1. m \in Age \X (1..MaxCount) /\ m[2] <= p[m[1]] /\ m[1] < a + w
          BY DEF Within, Members
        <5>2. m[1] \in Age /\ m[2] \in Nat /\ m[1] \in Nat /\ a \in Nat
          <6>1. m[1] \in Age /\ m[2] \in 1..MaxCount
            BY <5>1
          <6>2. m[1] \in Nat /\ a \in Nat
            BY <1>3, <6>1
          <6>3. MaxCount \in Nat
            BY <1>2
          <6>4. m[2] \in Nat
            BY <6>1, <6>3
          <6> QED
            BY <6>1, <6>2, <6>4
        <5>3. p[m[1]] <= s[m[1]] /\ p[m[1]] \in Nat /\ s[m[1]] \in Nat
          <6>1. d \in Nat /\ w \in Nat /\ a <= d
            BY <1>2, <1>3, <3>1
          <6>2. m[1] < d + w
            BY <5>1, <5>2, <6>1
          <6>3. p[m[1]] \in 0..MaxCount /\ s[m[1]] \in 0..MaxCount
            BY <1>5, <2>2, <5>2 DEF Scores
          <6> QED
            BY <1>2, <2>3, <5>2, <6>2, <6>3
        <5> QED
          BY <5>1, <5>2, <5>3 DEF Members
      <4>2. Cardinality(Within(p, a, w)) <= n /\ Cardinality(Within(p, a, w)) \in Nat
        BY <1>6, <4>1, FS_CardinalityType
      <4>3. n <= Limit[k]
        BY <3>1 DEF Passes
      <4> QED
        BY <1>2, <1>6, <4>2, <4>3
    <3>2. CASE ~Passes(k, n) \/ a > d
      <4>1. Within(p, a, w) = Within(passed[k], a, w)
        <5>1. \A m \in Age \X (1..MaxCount) : a <= m[1] => p[m[1]] = passed[k][m[1]]
          <6> SUFFICES ASSUME NEW m \in Age \X (1..MaxCount), a <= m[1]
                       PROVE  p[m[1]] = passed[k][m[1]]
            OBVIOUS
          <6>1. m[1] \in Age /\ m[1] \in Nat /\ a \in Nat /\ d \in Nat
            BY <1>3
          <6>2. CASE a > d
            <7>1. m[1] # d
              BY <6>1, <6>2
            <7> QED
              BY <2>2, <6>1, <7>1
          <6>3. CASE ~Passes(k, n)
            BY <2>2, <6>3
          <6> QED
            BY <3>2, <6>2, <6>3
        <5> QED
          BY <5>1 DEF Within, Members
      <4> QED
        BY <1>1, <2>1, <4>1 DEF LimitInv, BoundInv, w
    <3> QED
      <4>1. a \in Nat /\ d \in Nat
        BY <1>3
      <4>2. a <= d \/ a > d
        BY <4>1
      <4> QED
        BY <3>1, <3>2, <4>2
  <2> QED
    BY <2>4, <2>5
<1>17. KeptInv' /\ BoundInv'
  BY <1>15, <1>16 DEF KeptInv, BoundInv
<1> QED
  BY <1>13, <1>14, <1>17 DEF LimitInv

LEMMA EvalStep ==
  ASSUME ThrottleAssumption, LimitInv, NEW r \in Req, Eval(r)
  PROVE  LimitInv'
BY Counted

-----------------------------------------------------------------------------
(* Time *)

\* A tick later the hits are older and the TTLs shorter.
LEMMA TickTypes ==
  ASSUME ThrottleAssumption, LimitInv, Tick
  PROVE  /\ ThrottleTypeOK'
         /\ \A k \in Key, b \in Age :
              /\ hits'[k][b] > 0 => /\ b # 0 /\ b - 1 \in Age
                                    /\ hits'[k][b] = hits[k][b - 1] /\ expire[k] > 1
              /\ passed'[k][b] > 0 => /\ b # 0 /\ b - 1 \in Age
                                      /\ passed'[k][b] = passed[k][b - 1]
<1>1. MaxAge \in Nat /\ MaxCount \in Nat /\ MaxDelay \in Nat /\ \A b \in Age : b \in Nat
  BY Ages DEF ThrottleAssumption, Age
<1>2. /\ hits \in [Key -> Scores] /\ passed \in [Key -> Scores]
      /\ expire \in [Key -> Nat] /\ blocked \in [Key -> Nat] /\ ThrottleTypeOK
  BY DEF LimitInv, ThrottleTypeOK, Scores
<1>3. \A h \in Scores : /\ Older(h) \in Scores
                        /\ \A b \in Age : b # 0 => b - 1 \in Age /\ Older(h)[b] = h[b - 1]
                        /\ \A b \in Age : b = 0 => Older(h)[b] = 0
  <2> SUFFICES ASSUME NEW h \in Scores
               PROVE  /\ Older(h) \in Scores
                      /\ \A b \in Age : b # 0 => b - 1 \in Age /\ Older(h)[b] = h[b - 1]
                      /\ \A b \in Age : b = 0 => Older(h)[b] = 0
    OBVIOUS
  <2>1. \A b \in Age : b # 0 => b - 1 \in Age
    BY <1>1 DEF Age
  <2>2. \A b \in Age : (IF b = 0 THEN 0 ELSE h[b - 1]) \in 0..MaxCount
    BY <1>1, <2>1 DEF Scores
  <2> QED
    BY <2>1, <2>2 DEF Older, Scores
<1>4. NoHits \in Scores /\ \A b \in Age : ~(NoHits[b] > 0)
  BY <1>1 DEF NoHits, Scores
<1>5. \A k \in Key : /\ hits'[k] = IF expire[k] = 1 THEN NoHits ELSE Older(hits[k])
                     /\ passed'[k] = IF k \in overtaken' THEN NoHits ELSE Older(passed[k])
                     /\ expire'[k] = IF expire[k] > 0 THEN expire[k] - 1 ELSE 0
                     /\ blocked'[k] = IF blocked[k] > 0 THEN blocked[k] - 1 ELSE 0
  BY DEF Tick, Expiring
<1>6. hits' \in [Key -> Scores] /\ passed' \in [Key -> Scores]
  <2>1. \A k \in Key : hits'[k] \in Scores /\ passed'[k] \in Scores
    <3> SUFFICES ASSUME NEW k \in Key PROVE hits'[k] \in Scores /\ passed'[k] \in Scores
      OBVIOUS
    <3>1. /\ Older(hits[k]) \in Scores /\ Older(passed[k]) \in Scores
          /\ NoHits \in Scores
      BY <1>2, <1>3, <1>4
    <3> QED
      BY <1>5, <3>1
  <2>2. /\ hits' = [k \in Key |-> hits'[k]] /\ passed' = [k \in Key |-> passed'[k]]
    BY DEF Tick
  <2> QED
    BY <2>1, <2>2
<1>7. /\ expire' \in [Key -> Nat] /\ blocked' \in [Key -> Nat]
      /\ \A k \in Key : expire'[k] <= Window[k] /\ blocked'[k] <= Block[k]
  <2>1. \A k \in Key : /\ expire'[k] \in Nat /\ blocked'[k] \in Nat
                       /\ expire'[k] <= Window[k] /\ blocked'[k] <= Block[k]
    <3> SUFFICES ASSUME NEW k \in Key
                 PROVE  /\ expire'[k] \in Nat /\ blocked'[k] \in Nat
                        /\ expire'[k] <= Window[k] /\ blocked'[k] <= Block[k]
      OBVIOUS
    <3>1. /\ Window[k] \in Nat /\ Block[k] \in Nat /\ expire[k] \in Nat /\ blocked[k] \in Nat
          /\ expire[k] <= Window[k] /\ blocked[k] <= Block[k]
      BY <1>2 DEF ThrottleAssumption, ThrottleTypeOK
    <3> QED
      BY <1>5, <3>1
  <2>2. expire' = [k \in Key |-> expire'[k]] /\ blocked' = [k \in Key |-> blocked'[k]]
    BY DEF Tick
  <2> QED
    BY <2>1, <2>2
<1>8. job' \in [Req -> Job] /\ \A q \in Req : job'[q].pc # "idle" => job'[q].keys # <<>>
  <2> SUFFICES ASSUME NEW q \in Req
               PROVE  /\ (IF job[q].pc = "eval" THEN [job[q] EXCEPT !.age = @ + 1]
                          ELSE job[q]) \in Job
                      /\ job'[q].pc # "idle" => job'[q].keys # <<>>
    BY DEF Tick
  <2>1. job[q] \in Job /\ (job[q].pc # "idle" => job[q].keys # <<>>)
    BY <1>2 DEF ThrottleTypeOK
  <2>2. job[q].pc = "eval" => job[q].age + 1 \in 0..MaxDelay
    BY <1>1, <2>1 DEF Tick, Job
  <2>3. CASE job[q].pc = "eval"
    <3> DEFINE j == [job[q] EXCEPT !.age = @ + 1]
    <3>1. j \in Job /\ j.keys = job[q].keys /\ job'[q] = j
      BY <2>1, <2>2, <2>3 DEF Job, Tick
    <3> HIDE DEF j
    <3> QED
      BY <2>1, <2>3, <3>1 DEF Tick
  <2>4. CASE job[q].pc # "eval"
    BY <2>1, <2>4 DEF Tick
  <2> QED
    BY <2>3, <2>4
<1>9. overtaken' \subseteq Key
  BY <1>2 DEF Tick, Expiring, ThrottleTypeOK
<1>10. \A k \in Key, b \in Age :
         /\ hits'[k][b] > 0 => /\ b # 0 /\ b - 1 \in Age
                               /\ hits'[k][b] = hits[k][b - 1] /\ expire[k] > 1
         /\ passed'[k][b] > 0 => /\ b # 0 /\ b - 1 \in Age
                                 /\ passed'[k][b] = passed[k][b - 1]
  <2> SUFFICES ASSUME NEW k \in Key, NEW b \in Age
               PROVE  /\ hits'[k][b] > 0 => /\ b # 0 /\ b - 1 \in Age
                                            /\ hits'[k][b] = hits[k][b - 1] /\ expire[k] > 1
                      /\ passed'[k][b] > 0 => /\ b # 0 /\ b - 1 \in Age
                                              /\ passed'[k][b] = passed[k][b - 1]
    OBVIOUS
  <2>1. ASSUME passed'[k][b] > 0
        PROVE  b # 0 /\ b - 1 \in Age /\ passed'[k][b] = passed[k][b - 1]
    <3>1. passed'[k] = Older(passed[k]) /\ passed[k] \in Scores
      BY <1>2, <1>4, <1>5, <2>1
    <3> QED
      BY <1>3, <2>1, <3>1
  <2>2. ASSUME hits'[k][b] > 0
        PROVE  b # 0 /\ b - 1 \in Age /\ hits'[k][b] = hits[k][b - 1] /\ expire[k] > 1
    <3>1. hits'[k] = Older(hits[k]) /\ hits[k] \in Scores /\ expire[k] # 1 /\ expire[k] \in Nat
      BY <1>2, <1>4, <1>5, <2>2
    <3>2. b # 0 /\ b - 1 \in Age /\ hits'[k][b] = hits[k][b - 1]
      BY <1>3, <2>2, <3>1
    <3>3. expire[k] > 0
      BY <1>2, <2>2, <3>2 DEF ThrottleTypeOK
    <3> QED
      BY <3>1, <3>2, <3>3
  <2> QED
    BY <2>1, <2>2
<1> QED
  <2>1. \A k \in Key : (\E a \in Age : hits'[k][a] > 0) => expire'[k] > 0
    BY <1>2, <1>5, <1>10
  <2> QED
    BY <1>6, <1>7, <1>8, <1>9, <1>10, <2>1 DEF ThrottleTypeOK, Scores

LEMMA TickStep ==
  ASSUME ThrottleAssumption, LimitInv, Tick
  PROVE  LimitInv'
<1>1. /\ ThrottleTypeOK /\ ThrottleTypeOK'
      /\ \A k \in Key, b \in Age :
           /\ hits'[k][b] > 0 => /\ b # 0 /\ b - 1 \in Age
                                 /\ hits'[k][b] = hits[k][b - 1] /\ expire[k] > 1
           /\ passed'[k][b] > 0 => /\ b # 0 /\ b - 1 \in Age
                                   /\ passed'[k][b] = passed[k][b - 1]
  BY TickTypes DEF LimitInv
<1>2. /\ \A b \in Age : b \in Nat
      /\ \A k \in Key : Window[k] \in Nat \ {0} /\ expire[k] \in Nat
      /\ MaxAge \in Nat /\ MaxCount \in Nat
  BY <1>1, Ages DEF ThrottleTypeOK, Age, ThrottleAssumption
<1>3. \A k \in Key : /\ hits'[k] = IF expire[k] = 1 THEN NoHits ELSE Older(hits[k])
                     /\ passed'[k] = IF k \in overtaken' THEN NoHits ELSE Older(passed[k])
                     /\ expire'[k] = IF expire[k] > 0 THEN expire[k] - 1 ELSE 0
  BY DEF Tick, Expiring
<1>4. AgedInv'
  <2> SUFFICES ASSUME NEW k \in Key, NEW b \in Age, hits'[k][b] > 0 \/ passed'[k][b] > 0
               PROVE  b + expire'[k] >= Window[k]
    BY DEF AgedInv
  <2>1. b # 0 /\ b - 1 \in Age /\ (hits[k][b - 1] > 0 \/ passed[k][b - 1] > 0)
    BY <1>1
  <2>2. b - 1 + expire[k] >= Window[k]
    BY <2>1 DEF LimitInv, AgedInv
  <2>3. expire'[k] = IF expire[k] > 0 THEN expire[k] - 1 ELSE 0
    BY <1>3
  <2> QED
    BY <1>2, <2>2, <2>3
\* Requests on their way to a script get older with the hits.
<1>5. \A q \in Req, k \in Key :
        Stamped(q, k)' => Stamped(q, k) /\ job'[q].age = job[q].age + 1 /\ job[q].age \in Nat
  <2> SUFFICES ASSUME NEW q \in Req, NEW k \in Key, Stamped(q, k)'
               PROVE  Stamped(q, k) /\ job'[q].age = job[q].age + 1 /\ job[q].age \in Nat
    OBVIOUS
  <2>1. job'[q] = IF job[q].pc = "eval" THEN [job[q] EXCEPT !.age = @ + 1] ELSE job[q]
    BY DEF Tick
  <2>2. job[q].pc = "eval" /\ job[q] \in Job
    BY <1>1, <2>1 DEF Stamped, ThrottleTypeOK
  <2>3. job'[q].age = job[q].age + 1 /\ job'[q].keys = job[q].keys
    BY <2>1, <2>2 DEF Job
  <2>4. job[q].age \in Nat
    BY <2>2 DEF Job, ThrottleAssumption
  <2> QED
    BY <2>2, <2>3, <2>4 DEF Stamped, KeyOf
<1>6. KeptInv'
  <2> SUFFICES ASSUME NEW k \in Key, k \notin overtaken', NEW b \in Age, passed'[k][b] > 0
               PROVE  Accounted(k, b)'
    BY DEF KeptInv
  <2> DEFINE c == b - 1
  <2>1. /\ c \in Age /\ c \in Nat /\ b = c + 1 /\ b \in Nat
        /\ passed'[k][b] = passed[k][c] /\ passed[k][c] > 0
    BY <1>1, <1>2
  <2>2. k \notin overtaken /\ (expire[k] = 1 => \A q \in Req : ~Stamped(q, k))
    BY DEF Tick, Expiring, Stamped
  <2> HIDE DEF c
  <2>3. Accounted(k, c)
    BY <2>1, <2>2 DEF LimitInv, KeptInv
  <2>4. CASE expire[k] = 1
    <3>1. c + expire[k] >= Window[k]
      BY <2>1 DEF LimitInv, AgedInv
    <3>2. b >= Window[k]
      BY <1>2, <2>1, <2>4, <3>1
    <3>3. \A q \in Req : ~Stamped(q, k)'
      BY <1>5, <2>2, <2>4
    <3> QED
      BY <3>2, <3>3 DEF Accounted
  <2>5. CASE expire[k] # 1
    <3>1. \A a \in Age : a + 1 \in Age => hits'[k][a + 1] = hits[k][a]
      <4>1. hits'[k] = Older(hits[k])
        BY <1>3, <2>5
      <4>2. \A a \in Age : a + 1 # 0 /\ (a + 1) - 1 = a
        BY <1>2
      <4> QED
        BY <4>1, <4>2 DEF Older
    <3>2. CASE passed[k][c] <= hits[k][c]
      BY <2>1, <3>1, <3>2 DEF Accounted
    <3>3. CASE \E a \in Age : hits[k][a] > 0 /\ c >= a + Window[k]
      <4>1. PICK a \in Age : hits[k][a] > 0 /\ c >= a + Window[k]
        BY <3>3
      <4>2. a + 1 \in Age /\ b >= (a + 1) + Window[k]
        BY <1>2, <2>1, <4>1 DEF Age
      <4>3. hits'[k][a + 1] > 0
        BY <3>1, <4>1, <4>2
      <4> QED
        BY <4>2, <4>3 DEF Accounted
    <3>4. CASE c >= Window[k] /\ \A q \in Req : Stamped(q, k) => c >= job[q].age + Window[k]
      <4>1. \A q \in Req : Stamped(q, k)' => b >= job'[q].age + Window[k]
        <5> SUFFICES ASSUME NEW q \in Req, Stamped(q, k)'
                     PROVE  b >= job'[q].age + Window[k]
          OBVIOUS
        <5>1. c >= job[q].age + Window[k] /\ job'[q].age = job[q].age + 1 /\ job[q].age \in Nat
          BY <1>5, <3>4
        <5> QED
          BY <1>2, <2>1, <5>1
      <4>2. b >= Window[k]
        BY <1>2, <2>1, <3>4
      <4> QED
        BY <4>1, <4>2 DEF Accounted
    <3> QED
      BY <2>3, <3>2, <3>3, <3>4 DEF Accounted
  <2> QED
    BY <2>4, <2>5
<1>7. BoundInv'
  <2> SUFFICES ASSUME NEW k \in Key, k \notin overtaken', NEW a \in Age
               PROVE  Cardinality(Within(passed'[k], a, Window[k])) <= Limit[k]
    BY DEF BoundInv, Within, Members
  <2>1. passed'[k] = Older(passed[k]) /\ k \notin overtaken
    BY <1>3 DEF Tick
  <2>2. passed[k] \in [Age -> 0..MaxCount] /\ Limit[k] \in Nat
    BY <1>1 DEF ThrottleTypeOK, ThrottleAssumption
  <2>3. \A b \in Age : Cardinality(Within(passed[k], b, Window[k])) <= Limit[k]
    BY <2>1 DEF LimitInv, BoundInv
  <2> QED
    BY <1>2, <2>1, <2>2, <2>3, WindowAges
<1> QED
  BY <1>1, <1>4, <1>6, <1>7 DEF LimitInv
-----------------------------------------------------------------------------
(* Theorems *)

LEMMA LimitInit ==
  ASSUME ThrottleAssumption, ThrottleInit
  PROVE  LimitInv
<1>1. MaxAge \in Nat /\ MaxCount \in Nat /\ \A b \in Age : ~(NoHits[b] > 0)
  BY Ages DEF ThrottleAssumption, NoHits
<1>2. ThrottleTypeOK
  <2>1. Proper(NoJob) /\ NoJob.pc = "idle"
    BY NoJobIsProper DEF NoJob
  <2>2. NoHits \in [Age -> 0..MaxCount]
    BY <1>1 DEF NoHits
  <2>3. \A k \in Key : Window[k] \in Nat /\ Block[k] \in Nat
    BY DEF ThrottleAssumption
  <2> QED
    BY <1>1, <2>1, <2>2, <2>3 DEF ThrottleInit, ThrottleTypeOK, Proper
<1>3. KeptInv /\ AgedInv
  BY <1>1 DEF ThrottleInit, KeptInv, AgedInv
<1>4. BoundInv
  <2> SUFFICES ASSUME NEW k \in Key, NEW a \in Age
               PROVE  Cardinality(Within(passed[k], a, Window[k])) <= Limit[k]
    BY DEF BoundInv
  <2>1. Within(passed[k], a, Window[k]) = {}
    <3> SUFFICES ASSUME NEW m \in Age \X (1..MaxCount), m[2] <= NoHits[m[1]] PROVE FALSE
      BY DEF Within, Members, ThrottleInit
    <3>1. m[1] \in Age /\ m[2] \in 1..MaxCount
      OBVIOUS
    <3>2. NoHits[m[1]] = 0
      BY <3>1 DEF NoHits
    <3> QED
      BY <1>1, <3>1, <3>2
  <2> QED
    BY <2>1, FS_EmptySet DEF ThrottleAssumption
<1> QED
  BY <1>2, <1>3, <1>4 DEF LimitInv

LEMMA LimitNext ==
  ASSUME ThrottleAssumption, LimitInv, [ThrottleNext]_throttleVars
  PROVE  LimitInv'
<1>1. CASE Tick
  BY <1>1, TickStep
<1>2. ASSUME NEW r \in Req, NEW c \in Client, CanActivate(r, c)
      PROVE  LimitInv'
  BY <1>2, CanActivateStep
<1>3. ASSUME NEW r \in Req, GoOn(r) \/ CommandFails(r) PROVE LimitInv'
  BY <1>3, NextLayerStep, CommandFailsStep
<1>4. ASSUME NEW r \in Req, Eval(r) PROVE LimitInv'
  BY <1>4, EvalStep
<1>5. ASSUME NEW r \in Req, ActivateBlock(r) PROVE LimitInv'
  BY <1>5, BlockStep
<1>6. CASE UNCHANGED throttleVars
  BY <1>6 DEF throttleVars, LimitInv, ThrottleTypeOK, KeptInv, AgedInv, BoundInv, Accounted,
              Stamped, KeyOf, Within, Members
<1> QED
  BY <1>1, <1>2, <1>3, <1>4, <1>5, <1>6 DEF ThrottleNext, Command

\* The invariant behind the limit holds, whatever requests are checked at once, however
\* late their scripts run and whatever commands fail or keys expire between the commands
\* of canActivate.
THEOREM LimitInductive ==
  ASSUME ThrottleAssumption
  PROVE  ThrottleSpec => []LimitInv
<1>1. ThrottleInit => LimitInv
  BY LimitInit
<1>2. LimitInv /\ [ThrottleNext]_throttleVars => LimitInv'
  BY LimitNext
<1> QED
  BY <1>1, <1>2, PTL DEF ThrottleSpec

\* The guard keeps its types: counts and TTLs stay within their bounds, a request that is
\* being checked is at some layer, and a sorted set with a member has a TTL, since the
\* script that adds one sets it (EXPIRE).
THEOREM ThrottleTypeCorrect ==
  ASSUME ThrottleAssumption
  PROVE  ThrottleSpec => []ThrottleTypeOK
<1>1. LimitInv => ThrottleTypeOK
  BY DEF LimitInv
<1> QED
  BY <1>1, LimitInductive, PTL

\* No key lets through more hits in a window than its limit, whoever sends them: the
\* script prunes, adds and counts in one step, and canActivate refuses what is counted
\* beyond the limit.
THEOREM KeyKeepsLimit ==
  ASSUME ThrottleAssumption
  PROVE  ThrottleSpec => []BoundInv
<1>1. LimitInv => BoundInv
  BY DEF LimitInv
<1> QED
  BY <1>1, LimitInductive, PTL

\* The layers count an identity under one key: what the normalisation of e-mails and the
\* resolution of addresses in the guards are for.  Of the keys of ThrottleRoutes the run
\* looks at it; its mutant EmailVerbatim breaks it, and the limit.
OneKeyEach == \A k, m \in Key : Identity[k] \cap Identity[m] # {} => k = m

\* No window lets through more hits of an identity than its limit, however many requests
\* are between EXISTS and the script at the same time, if the layers count an identity
\* under one key.
THEOREM LimitIsKept ==
  ASSUME ThrottleAssumption, OneKeyEach
  PROVE  ThrottleSpec => []AdmitAtMostLimit
<1>1. ASSUME BoundInv, NEW k \in Key, Alike(k) \cap overtaken = {}, NEW a \in Age
      PROVE  Cardinality(Admitted(k, a)) <= Limit[k]
  <2> DEFINE S == Admitted(k, a)
             W == Within(passed[k], a, Window[k])
             f == [q \in S |-> q[2]]
  <2>1. \A q \in S : /\ q = <<k, q[2]>> /\ q[2] \in W
                     /\ k \in Alike(k)
    BY DEF Admitted, Within, Alike, OneKeyEach
  <2>2. CASE S = {}
    BY <2>2, FS_EmptySet DEF ThrottleAssumption
  <2>3. CASE S # {}
    <3>1. k \in Key \ overtaken
      BY <1>1, <2>1, <2>3
    <3>2. Cardinality(W) <= Limit[k]
      BY <1>1, <3>1 DEF BoundInv
    <3>3. IsFiniteSet(W)
      BY FinitelyMany DEF Within
    <3>4. f \in [S -> W]
      BY <2>1
    <3>5. \A x, y \in S : f[x] = f[y] => x = y
      <4> SUFFICES ASSUME NEW x \in S, NEW y \in S, f[x] = f[y] PROVE x = y
        OBVIOUS
      <4>1. x[2] = y[2]
        OBVIOUS
      <4> HIDE DEF S
      <4> QED
        BY <2>1, <4>1
    <3>6. IsFiniteSet(S) /\ Cardinality(S) <= Cardinality(W)
      <4> HIDE DEF S, W, f
      <4> QED
        BY <3>3, <3>4, <3>5, NoLarger
    <3>7. Cardinality(S) \in Nat /\ Cardinality(W) \in Nat /\ Limit[k] \in Nat
      BY <3>3, <3>6, FS_CardinalityType DEF ThrottleAssumption
    <3> QED
      BY <3>2, <3>6, <3>7
  <2> QED
    BY <2>2, <2>3
<1>2. LimitInv => AdmitAtMostLimit
  BY <1>1 DEF LimitInv, AdmitAtMostLimit
<1> QED
  BY <1>2, LimitInductive, PTL

-----------------------------------------------------------------------------
(* The keys of the routes *)

CONSTANTS Width, Trusted, Nobody

Routes == INSTANCE ThrottleRoutes

\* The sliding windows that guards use.
Counters ==
  {Routes!LOGIN, Routes!LOGIN_EMAIL, Routes!REGISTER, Routes!REGISTER_EMAIL,
   Routes!RESEND_VERIFICATION_EMAIL, Routes!RESEND_VERIFICATION_EMAIL_IDENTITY,
   Routes!FORGOT_PASSWORD, Routes!FORGOT_PASSWORD_EMAIL, Routes!VERIFY_OTP,
   Routes!VERIFY_OTP_EMAIL, Routes!RESET_PASSWORD, Routes!RESET_PASSWORD_EMAIL,
   Routes!CHANGE_PASSWORD, Routes!REFRESH_TOKEN, Routes!CHANGE_EMAIL,
   Routes!AUTHENTICATED_USER, Routes!PROFILE_WRITE, Routes!PROFILE_AVATAR}

\* What can be a key of a request q: the user is the one of its access token.
KeysFor(q) ==
  {<<c.prefix, "ip", Routes!HybridIpKey(q)>> : c \in Counters}
    \cup {<<c.prefix, "email", <<q.email.box>> >> : c \in Counters}
    \cup {<<c.prefix, "user", q.user>> : c \in Counters}

\* The guards that count a user.
UserGuards == {"changePassword", "changeEmail", "authUser", "profileWrite", "profileAvatar"}

\* The guard of some route checks key k for request q.
Checks(q, k) ==
  \E r \in Routes!AllRoutes : \E i \in DOMAIN r.guards :
    k \in Routes!Range(Routes!BuildLayers(r.guards[i], q, Routes!KnowsUser(r, i)))

\* Every guard counts by address, by e-mail or by user, and what it counts by is made of
\* the request in one way, once its user is known.
LEMMA KeysOfGuard ==
  ASSUME NEW q, NEW g
  PROVE  Routes!BuildLayers(g, q, TRUE) \in Seq(KeysFor(q))
<1>1. \A c \in Counters : /\ Routes!ByIp(c, q) \in Seq(KeysFor(q))
                         /\ Routes!ByEmail(c, q) \in Seq(KeysFor(q))
                         /\ Routes!ByUser(c, q, TRUE) \in Seq(KeysFor(q))
  <2> SUFFICES ASSUME NEW c \in Counters
               PROVE  /\ Routes!ByIp(c, q) \in Seq(KeysFor(q))
                      /\ Routes!ByEmail(c, q) \in Seq(KeysFor(q))
                      /\ Routes!ByUser(c, q, TRUE) \in Seq(KeysFor(q))
    OBVIOUS
  <2>1. <<c.prefix, "ip", Routes!HybridIpKey(q)>> \in KeysFor(q)
    BY DEF KeysFor
  <2>2. <<c.prefix, "email", Routes!Email(q)>> \in KeysFor(q)
    BY DEF KeysFor, Routes!Email
  <2>3. <<c.prefix, "user", Routes!UserId(q, TRUE)>> \in KeysFor(q)
    BY DEF KeysFor, Routes!UserId
  <2> QED
    BY <2>1, <2>2, <2>3 DEF Routes!ByIp, Routes!ByEmail, Routes!ByUser
<1>2. \A s, t \in Seq(KeysFor(q)) : s \o t \in Seq(KeysFor(q))
  OBVIOUS
<1>3. <<>> \in Seq(KeysFor(q))
  OBVIOUS
<1>4. /\ Routes!RegisterThrottleGuard(q) \in Seq(KeysFor(q))
      /\ Routes!ResendVerificationOtpThrottleGuard(q) \in Seq(KeysFor(q))
      /\ Routes!LoginThrottleGuard(q) \in Seq(KeysFor(q))
      /\ Routes!ForgotPasswordThrottleGuard(q) \in Seq(KeysFor(q))
      /\ Routes!VerifyOtpThrottleGuard(q) \in Seq(KeysFor(q))
      /\ Routes!ResetPasswordThrottleGuard(q) \in Seq(KeysFor(q))
  BY <1>1, <1>2, Zenon
     DEF Counters, Routes!RegisterThrottleGuard,
         Routes!ResendVerificationOtpThrottleGuard,
         Routes!LoginThrottleGuard, Routes!ForgotPasswordThrottleGuard,
         Routes!VerifyOtpThrottleGuard, Routes!ResetPasswordThrottleGuard
<1>5. /\ Routes!RefreshTokenThrottleGuard(q) \in Seq(KeysFor(q))
      /\ Routes!ChangePasswordThrottleGuard(q, TRUE) \in Seq(KeysFor(q))
      /\ Routes!ChangeEmailThrottleGuard(q, TRUE) \in Seq(KeysFor(q))
      /\ Routes!AuthenticatedUserThrottleGuard(q, TRUE) \in Seq(KeysFor(q))
      /\ Routes!ProfileWriteThrottleGuard(q, TRUE) \in Seq(KeysFor(q))
      /\ Routes!ProfileAvatarThrottleGuard(q, TRUE) \in Seq(KeysFor(q))
  BY <1>1, <1>2, Zenon
     DEF Counters, Routes!RefreshTokenThrottleGuard,
         Routes!ChangePasswordThrottleGuard,
         Routes!ChangeEmailThrottleGuard, Routes!AuthenticatedUserThrottleGuard,
         Routes!ProfileWriteThrottleGuard, Routes!ProfileAvatarThrottleGuard
<1> QED
  BY <1>3, <1>4, <1>5 DEF Routes!BuildLayers

\* A route that counts users has JwtAuthGuard in front.
LEMMA JwtComesFirst ==
  ASSUME NEW r \in Routes!AllRoutes, NEW i \in DOMAIN r.guards, r.guards[i] \in UserGuards
  PROVE  Routes!KnowsUser(r, i)
<1> DEFINE Guarded(t) == \/ t.guards[1] = "jwt"
                         \/ \A j \in DOMAIN t.guards : t.guards[j] \notin UserGuards
           Places(t) == DOMAIN t.guards \subseteq Nat \ {0}
<1>0. \A p, g : [path |-> p, guards |-> g].guards = g
  OBVIOUS
<1>1. \A t \in Routes!SignUpRoutes : Guarded(t) /\ Places(t)
  <2>1. \A t \in Routes!SignUpRoutes : Places(t)
    BY DEF Routes!SignUpRoutes
  <2>2. \A t \in Routes!SignUpRoutes : Guarded(t)
    BY DEF Routes!SignUpRoutes, UserGuards
  <2> QED
    BY <2>1, <2>2
<1>2. \A t \in Routes!PasswordRoutes : Guarded(t) /\ Places(t)
  <2>1. \A t \in Routes!PasswordRoutes : Places(t)
    BY DEF Routes!PasswordRoutes
  <2>2. \A t \in Routes!PasswordRoutes : Guarded(t)
    BY DEF Routes!PasswordRoutes, UserGuards
  <2> QED
    BY <2>1, <2>2
<1>3. \A t \in Routes!SessionRoutes : Guarded(t) /\ Places(t)
  <2>1. \A t \in Routes!SessionRoutes : Places(t)
    BY DEF Routes!SessionRoutes
  <2>2. \A t \in Routes!SessionRoutes : Guarded(t)
    BY DEF Routes!SessionRoutes, UserGuards
  <2> QED
    BY <2>1, <2>2
<1>4. \A t \in Routes!ProfileRoutes : Guarded(t) /\ Places(t)
  <2> DEFINE G == {<<"jwt", "authUser">>, <<"jwt", "authUser", "profileWrite">>,
           <<"jwt", "authUser", "profileAvatar">>}
  <2>1. \A t \in Routes!ProfileRoutes : t.guards \in G
    BY <1>0, Zenon DEF Routes!ProfileRoutes
  <2>2. \A g \in G : DOMAIN g \subseteq Nat \ {0} /\ g[1] = "jwt"
    OBVIOUS
  <2> QED
    BY <2>1, <2>2
<1>5. \A t \in Routes!ReportRoutes : Guarded(t) /\ Places(t)
  <2> DEFINE G == {<<"jwt", "authUser">>, <<"jwt", "authUser", "roles">>}
  <2>1. \A t \in Routes!ReportRoutes : t.guards \in G
    BY <1>0, Zenon DEF Routes!ReportRoutes
  <2>2. \A g \in G : DOMAIN g \subseteq Nat \ {0} /\ g[1] = "jwt"
    OBVIOUS
  <2> QED
    BY <2>1, <2>2
<1>6. \A t \in Routes!MailRoutes : Guarded(t) /\ Places(t)
  <2>1. \A t \in Routes!MailRoutes : Places(t)
    BY DEF Routes!MailRoutes
  <2>2. \A t \in Routes!MailRoutes : Guarded(t)
    BY DEF Routes!MailRoutes, UserGuards
  <2> QED
    BY <2>1, <2>2
<1>7. Guarded(r) /\ Places(r)
  BY <1>1, <1>2, <1>3, <1>4, <1>5, <1>6 DEF Routes!AllRoutes
<1>8. r.guards[1] = "jwt" /\ i \in Nat \ {0}
  BY <1>7
<1>9. i # 1
  BY <1>8 DEF UserGuards
<1> QED
  BY <1>8, <1>9 DEF Routes!KnowsUser

\* So every guard of a route builds its layers as if the user were known.
LEMMA UserIsKnown ==
  ASSUME NEW r \in Routes!AllRoutes, NEW i \in DOMAIN r.guards, NEW q
  PROVE  Routes!BuildLayers(r.guards[i], q, Routes!KnowsUser(r, i))
           = Routes!BuildLayers(r.guards[i], q, TRUE)
<1>1. CASE r.guards[i] \in UserGuards
  <2>1. Routes!KnowsUser(r, i) = TRUE
    BY <1>1, JwtComesFirst DEF Routes!KnowsUser
  <2> QED
    BY <2>1
<1>2. CASE r.guards[i] \notin UserGuards
  BY <1>2 DEF Routes!BuildLayers, UserGuards
<1> QED
  BY <1>1, <1>2

\* Keys of one counter are one key if they are to count the same: an e-mail however it is
\* spelled, a user, or a client behind the proxies that tell its address.
LEMMA KeysMeet ==
  ASSUME NEW q, NEW r, NEW k, NEW m, Checks(q, k), Checks(r, m),
         k[1] = m[1], k[2] = m[2],
         Routes!Who(k, q) = Routes!Who(m, r),
         Routes!ClientIp(q) = q.origin, Routes!ClientIp(r) = r.origin
  PROVE  k = m
<1>1. ASSUME NEW p, NEW j, Checks(p, j) PROVE j \in KeysFor(p)
  <2>1. PICK t \in Routes!AllRoutes : \E i \in DOMAIN t.guards :
          j \in Routes!Range(Routes!BuildLayers(t.guards[i], p, Routes!KnowsUser(t, i)))
    BY <1>1 DEF Checks
  <2>2. PICK i \in DOMAIN t.guards :
          j \in Routes!Range(Routes!BuildLayers(t.guards[i], p, Routes!KnowsUser(t, i)))
    BY <2>1
  <2>3. j \in Routes!Range(Routes!BuildLayers(t.guards[i], p, TRUE))
    BY <2>2, UserIsKnown
  <2>4. Routes!BuildLayers(t.guards[i], p, TRUE) \in Seq(KeysFor(p))
    BY KeysOfGuard
  <2>5. ASSUME NEW S, NEW s \in Seq(S) PROVE Routes!Range(s) \subseteq S
    BY DEF Routes!Range
  <2> QED
    BY <2>3, <2>4, <2>5
<1>2. k \in KeysFor(q) /\ m \in KeysFor(r)
  BY <1>1
<1>3. /\ k = <<k[1], k[2], k[3]>> /\ m = <<m[1], m[2], m[3]>>
      /\ k[2] \in {"ip", "email", "user"}
      /\ k[2] = "ip" => k[3] = Routes!HybridIpKey(q) /\ m[3] = Routes!HybridIpKey(r)
      /\ k[2] = "email" => k[3] = <<q.email.box>> /\ m[3] = <<r.email.box>>
      /\ k[2] = "user" => k[3] = q.user /\ m[3] = r.user
  BY <1>2 DEF KeysFor
<1>4. CASE k[2] = "ip"
  BY <1>3, <1>4 DEF Routes!Who, Routes!HybridIpKey
<1>5. CASE k[2] = "email"
  BY <1>3, <1>5 DEF Routes!Who
<1>6. CASE k[2] = "user"
  BY <1>3, <1>6 DEF Routes!Who
<1> QED
  BY <1>3, <1>4, <1>5, <1>6

\* Whatever requests are sent to the routes of the service, the keys that their guards
\* build count together who they are to count together, so that LimitIsKept applies:
\* e-mails are normalised, and a user is counted behind JwtAuthGuard only. What remains
\* to be configured are the trusted proxies, whose headers must name the client.
THEOREM RouteKeysCountTogether ==
  ASSUME NEW Sent, \A q \in Sent : Routes!ClientIp(q) = q.origin,
         Identity = [k \in Key |-> {<<k[1], k[2], Routes!Who(k, q)>> :
                                     q \in {p \in Sent : Checks(p, k)}}]
  PROVE  OneKeyEach
<1> SUFFICES ASSUME NEW k \in Key, NEW m \in Key, NEW x \in Identity[k] \cap Identity[m]
             PROVE  k = m
  BY DEF OneKeyEach
<1>1. PICK q \in Sent : Checks(q, k) /\ x = <<k[1], k[2], Routes!Who(k, q)>>
  OBVIOUS
<1>2. PICK r \in Sent : Checks(r, m) /\ x = <<m[1], m[2], Routes!Who(m, r)>>
  OBVIOUS
<1>3. k[1] = m[1] /\ k[2] = m[2] /\ Routes!Who(k, q) = Routes!Who(m, r)
  BY <1>1, <1>2
<1> QED
  BY <1>1, <1>2, <1>3, KeysMeet

=============================================================================
