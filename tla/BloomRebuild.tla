---------------------------- MODULE BloomRebuild ----------------------------
(***************************************************************************)
(* BloomRebuildService.rebuildNamespace for the `user` namespace, next to  *)
(* the writers of the live filter: BloomFilterService.add after a user is  *)
(* created, and the warm-up of a node that boots.                          *)
(*                                                                         *)
(* A filter is the set of ids whose bits are all set: false positives only *)
(* cost a database read, what matters here is that a row is not missing    *)
(* from the filter, for UserDAO.findById then answers null without looking *)
(* at the database.  A Redis bitmap with no bit set does not exist, so {}  *)
(* also stands for a missing key.  The cron of every node and the manual   *)
(* trigger start runs; their Redis commands and queries interleave.        *)
(***************************************************************************)
EXTENDS Naturals, FiniteSets

CONSTANTS
  Id,         \* user ids, ordered as the pages are (UUIDs never repeat)
  Run,        \* slots for rebuilds and warm-ups in progress
  ChunkSize,  \* BLOOM_REBUILD_CHUNK_SIZE
  None,       \* no lock
  MaxFaults   \* bound: commands that fail, runs that die or outlast their lock

ASSUME BloomAssumption ==
  /\ Id \subseteq Nat \ {0} /\ IsFiniteSet(Id)
  /\ ChunkSize \in Nat \ {0}
  /\ None \notin Run
  /\ MaxFaults \in Nat

VARIABLES
  begun,   \* ids whose INSERT has begun: created_at is taken then
  rows,    \* ids whose INSERT is committed
  adding,  \* ids committed whose bloom.add has not reached Redis yet
  live,    \* bloom:user
  shadow,  \* bloom:rebuild:shadow:user
  lock,    \* bloom:rebuild:lock:user
  run,     \* run[r]: what run r is doing
  late,    \* history: ids that were committed in a rebuild that had begun after them
  faults   \* commands that failed, runs that died or outlasted their lock

vars == <<begun, rows, adding, live, shadow, lock, run, late, faults>>
users == <<begun, rows, adding, late>>

\* What a run does next; all but "idle" and "warm" are behind the lock.
Rebuilding == {"start", "delShadow", "page", "write", "exists", "rename", "clear",
               "since", "readd", "fail", "release"}
PC == {"idle", "warm"} \cup Rebuilding

RunState == [pc : PC,
             cursor : Id \cup {0},  \* last id of a full page just read, 0 for null
             ids : SUBSET Id,       \* ids just read
             some : BOOLEAN,        \* totalIds > 0
             before : SUBSET Id,    \* ids with created_at < rebuildStartedAt
             overrun : BOOLEAN]     \* history: the lock expired under the run

NoRun == [pc |-> "idle", cursor |-> 0, ids |-> {}, some |-> FALSE,
          before |-> {}, overrun |-> FALSE]

TypeOK ==
  /\ rows \subseteq begun /\ begun \subseteq Id
  /\ adding \subseteq rows
  /\ late \subseteq rows
  /\ live \subseteq rows /\ shadow \subseteq rows
  /\ lock \in Run \cup {None}
  /\ run \in [Run -> RunState]
  /\ faults \in 0..MaxFaults

\* Some users exist, and the filter was warmed with them.
Init ==
  /\ rows \in SUBSET Id /\ begun = rows /\ live = rows
  /\ adding = {} /\ late = {} /\ shadow = {}
  /\ lock = None
  /\ run = [r \in Run |-> NoRun]
  /\ faults = 0

Fault == faults < MaxFaults /\ faults' = faults + 1

-----------------------------------------------------------------------------
(* Users *)

\* Mutant of BeginCreate: the id enters the filter before its row is there.
BloomAddFirst(i) ==
  /\ i \notin begun
  /\ begun' = begun \cup {i} /\ live' = live \cup {i}
  /\ UNCHANGED <<rows, adding, shadow, lock, run, late, faults>>

BeginCreate(i) ==
  /\ i \notin begun
  /\ begun' = begun \cup {i}
  /\ UNCHANGED <<rows, adding, live, shadow, lock, run, late, faults>>

Commit(i) ==
  /\ i \in begun \ rows
  /\ rows' = rows \cup {i} /\ adding' = adding \cup {i}
  /\ late' = IF \E r \in Run : i \in run[r].before THEN late \cup {i} ELSE late
  /\ UNCHANGED <<begun, live, shadow, lock, run, faults>>

\* bloom.add is fire-and-forget: the pipeline of SETBITs may fail.
BloomAdd(i) ==
  /\ i \in adding
  /\ adding' = adding \ {i}
  /\ \/ live' = live \cup {i} /\ UNCHANGED faults
     \/ Fault /\ UNCHANGED live
  /\ UNCHANGED <<begun, rows, shadow, lock, run, late>>

-----------------------------------------------------------------------------
(* rebuildNamespace *)

Goto(r, label) == run' = [run EXCEPT ![r].pc = label]

\* SET lock token PX ttl NX; the run is skipped when somebody holds the lock.
Acquire(r) ==
  /\ run[r].pc = "idle" /\ lock = None
  /\ lock' = r
  /\ run' = [run EXCEPT ![r].pc = "start"]
  /\ UNCHANGED <<users, live, shadow, faults>>

\* rebuildStartedAt = new Date()
Start(r) ==
  /\ run[r].pc = "start"
  /\ run' = [run EXCEPT ![r].pc = "delShadow", ![r].before = begun]
  /\ UNCHANGED <<users, live, shadow, lock, faults>>

\* DEL shadow; an error is swallowed.
DelShadow(r) ==
  /\ run[r].pc = "delShadow"
  /\ \/ shadow' = {} /\ UNCHANGED faults
     \/ Fault /\ UNCHANGED shadow
  /\ Goto(r, "page")
  /\ UNCHANGED <<users, live, lock>>

\* The rows behind the cursor, ChunkSize of them at most.
PageOf(c) ==
  LET rest == {i \in rows : i > c}
  IN  {i \in rest : Cardinality({j \in rest : j < i}) < ChunkSize}

Last(S) == CHOOSE i \in S : \A j \in S : j <= i

\* Mutant of Page: the scan ends with its first page.
FirstPageOnly(r) ==
  /\ run[r].pc = "page"
  /\ LET page == PageOf(run[r].cursor)
     IN  run' = [run EXCEPT ![r].pc = IF page = {} THEN "exists" ELSE "write",
                            ![r].ids = page]
  /\ UNCHANGED <<users, live, shadow, lock, faults>>

\* fetchPage; the next page starts behind the last id of a full one.
Page(r) ==
  /\ run[r].pc = "page"
  /\ \/ LET page == PageOf(run[r].cursor)
            full == Cardinality(page) = ChunkSize
        IN  /\ run' = [run EXCEPT ![r].pc = IF page = {} THEN "exists" ELSE "write",
                                  ![r].ids = page,
                                  ![r].cursor = IF full THEN Last(page) ELSE 0]
            /\ UNCHANGED faults
     \/ Fault /\ Goto(r, "fail")
  /\ UNCHANGED <<users, live, shadow, lock>>

\* The SETBITs of a page; single errors are only logged, a lost connection throws.
WriteShadow(r) ==
  /\ run[r].pc = "write"
  /\ LET next == IF run[r].cursor # 0 THEN "page" ELSE "exists"
     IN  \/ /\ shadow' = shadow \cup run[r].ids
            /\ run' = [run EXCEPT ![r].pc = next, ![r].some = TRUE, ![r].ids = {}]
            /\ UNCHANGED faults
         \/ /\ Fault
            /\ \E S \in SUBSET run[r].ids : shadow' = shadow \cup S
            /\ \/ run' = [run EXCEPT ![r].pc = next, ![r].some = TRUE, ![r].ids = {}]
               \/ Goto(r, "fail")
  /\ UNCHANGED <<users, live, lock>>

\* EXISTS shadow; an error counts as 0.
Exists(r) ==
  /\ run[r].pc = "exists"
  /\ \/ /\ Goto(r, IF shadow # {} /\ run[r].some THEN "rename" ELSE "clear")
        /\ UNCHANGED faults
     \/ Fault /\ Goto(r, "clear")
  /\ UNCHANGED <<users, live, shadow, lock>>

\* RENAME shadow live, which throws when the shadow key is gone.
Rename(r) ==
  /\ run[r].pc = "rename"
  /\ \/ /\ shadow # {}
        /\ live' = shadow /\ shadow' = {}
        /\ Goto(r, "since") /\ UNCHANGED faults
     \/ shadow = {} /\ Goto(r, "fail") /\ UNCHANGED <<live, shadow, faults>>
     \/ Fault /\ Goto(r, "fail") /\ UNCHANGED <<live, shadow>>
  /\ UNCHANGED <<users, lock>>

\* DEL live for a namespace without rows; an error is swallowed.
Clear(r) ==
  /\ run[r].pc = "clear"
  /\ \/ live' = {} /\ UNCHANGED faults
     \/ Fault /\ UNCHANGED live
  /\ Goto(r, "since")
  /\ UNCHANGED <<users, shadow, lock>>

\* Mutant of Since: the reconciliation only looks at rows of the run's own pages.
SinceNothing(r) ==
  /\ run[r].pc = "since"
  /\ run' = [run EXCEPT ![r].pc = "release", ![r].before = {}]
  /\ UNCHANGED <<users, live, shadow, lock, faults>>

\* fetchSince(rebuildStartedAt); an error counts as no rows.
Since(r) ==
  /\ run[r].pc = "since"
  /\ \/ LET recent == rows \ run[r].before
        IN  /\ run' = [run EXCEPT ![r].pc = IF recent = {} THEN "release" ELSE "readd",
                                  ![r].ids = recent, ![r].before = {}]
            /\ UNCHANGED faults
     \/ Fault /\ Goto(r, "release")
  /\ UNCHANGED <<users, live, shadow, lock>>

ReAdd(r) ==
  /\ run[r].pc = "readd"
  /\ \/ live' = live \cup run[r].ids /\ Goto(r, "release") /\ UNCHANGED faults
     \/ /\ Fault
        /\ \E S \in SUBSET run[r].ids : live' = live \cup S
        /\ Goto(r, "release") \/ Goto(r, "fail")
  /\ UNCHANGED <<users, shadow, lock>>

\* The catch block: DEL shadow; an error is swallowed.
Fail(r) ==
  /\ run[r].pc = "fail"
  /\ \/ shadow' = {} /\ UNCHANGED faults
     \/ Fault /\ UNCHANGED shadow
  /\ Goto(r, "release")
  /\ UNCHANGED <<users, live, lock>>

\* Mutant of Release: DEL without comparing the token.
ReleaseAnyLock(r) ==
  /\ run[r].pc = "release"
  /\ lock' = None
  /\ run' = [run EXCEPT ![r] = NoRun]
  /\ UNCHANGED <<users, live, shadow, faults>>

\* The Lua script deletes the lock if it still holds the token of this run.
Release(r) ==
  /\ run[r].pc = "release"
  /\ \/ lock' = (IF lock = r THEN None ELSE lock) /\ UNCHANGED faults
     \/ Fault /\ UNCHANGED lock
  /\ run' = [run EXCEPT ![r] = NoRun]
  /\ UNCHANGED <<users, live, shadow>>

-----------------------------------------------------------------------------
(* The rest of the world *)

\* Mutant of ExpireLock: the lock is set without a TTL.
ExpireLockNever == FALSE /\ UNCHANGED vars

\* The lock's TTL runs out, under its run (a fault) or after that died.
ExpireLock ==
  /\ lock # None
  /\ lock' = None
  /\ IF run[lock].pc \in Rebuilding
     THEN Fault /\ run' = [run EXCEPT ![lock].overrun = TRUE]
     ELSE UNCHANGED <<run, faults>>
  /\ UNCHANGED <<users, live, shadow>>

\* The process of run r dies.
Crash(r) ==
  /\ run[r].pc # "idle"
  /\ Fault
  /\ run' = [run EXCEPT ![r] = NoRun]
  /\ UNCHANGED <<users, live, shadow, lock>>

\* warmBloom of a node that boots reads all ids ...
WarmRead(r) ==
  /\ run[r].pc = "idle"
  /\ run' = [run EXCEPT ![r].pc = "warm", ![r].ids = rows]
  /\ UNCHANGED <<users, live, shadow, lock, faults>>

\* ... and adds them to whatever is the live filter by then; errors are logged.
WarmWrite(r) ==
  /\ run[r].pc = "warm"
  /\ \/ live' = live \cup run[r].ids /\ UNCHANGED faults
     \/ Fault /\ \E S \in SUBSET run[r].ids : live' = live \cup S
  /\ run' = [run EXCEPT ![r] = NoRun]
  /\ UNCHANGED <<users, shadow, lock>>

Step(r) ==
  \/ Start(r) \/ DelShadow(r) \/ Page(r) \/ WriteShadow(r) \/ Exists(r) \/ Rename(r)
  \/ Clear(r) \/ Since(r) \/ ReAdd(r) \/ Fail(r) \/ Release(r) \/ WarmWrite(r)

Next ==
  \/ \E i \in Id : BeginCreate(i) \/ Commit(i) \/ BloomAdd(i)
  \/ \E r \in Run : Acquire(r) \/ Step(r) \/ Crash(r) \/ WarmRead(r)
  \/ ExpireLock

\* The cron fires again and again, every command a run waits for succeeds or fails,
\* and the lock has a TTL.
Fairness ==
  /\ WF_vars(\E r \in Run : Acquire(r))
  /\ \A r \in Run : WF_vars(Step(r))
  /\ WF_vars(ExpireLock)

Spec == Init /\ [][Next]_vars /\ Fairness

-----------------------------------------------------------------------------
(* Properties *)

\* The lock excludes: two rebuilds work on the shadow key at once only if the lock of
\* one of them expired under it.  An overrunning rebuild does not free the lock of
\* the one that came after it.
OneRebuildUnlessOverrun ==
  \A r, q \in Run :
    /\ run[r].pc \in Rebuilding /\ ~ run[r].overrun
    /\ run[q].pc \in Rebuilding /\ ~ run[q].overrun
    => r = q

\* Row i is about to be added back by a run that has swapped the filters.
Healing(i) ==
  \E r \in Run : \/ run[r].pc = "since" /\ i \notin run[r].before
                 \/ run[r].pc = "readd" /\ i \in run[r].ids

\* While nothing fails, a user whose bloom.add is done is missing from the filter only
\* between the swap and the reconciliation of a rebuild - unless its INSERT had begun
\* before that rebuild did and was committed after.
FilterComplete ==
  faults = 0 => \A i \in rows \ (adding \cup late) : i \in live \/ Healing(i)

\* The filter repairs itself: once users stop signing up and commands stop failing, a
\* rebuild leaves no user out, whatever was lost or late before.
FilterRepaired == <>[](rows \subseteq live)

\* A rebuild that dies does not keep the others out for ever.
LockIsReturned == []<>(lock = None)

\* What the header promises of errors: the old filter stays intact, so no user that was
\* committed before a rebuild began is dropped from the filter while it runs.
OldFilterPreserved ==
  [][\A r \in Run : (live \cap run[r].before) \ late \subseteq live']_vars

=============================================================================
