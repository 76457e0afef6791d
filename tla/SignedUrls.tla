----------------------------- MODULE SignedUrls -----------------------------
(***************************************************************************)
(* SignedUrlCacheService and GcpStorageService.getSignedUrl: signed URLs   *)
(* of bucket objects, read through a Redis entry and an in-memory map that *)
(* lets concurrent callers share one loader.  A caller waits for Redis,    *)
(* for the loader and for the promise of another caller; between two waits *)
(* it runs alone.  Only one Node process is modelled: its map is private   *)
(* to it.  Media composes this module with the avatar handlers.            *)
(***************************************************************************)
CONSTANTS
  Path,     \* storage paths: a path of a new object is a fresh uuid
  Caller,   \* calls of getOrSet that can be under way
  None

ASSUME SignedUrlsAssumption == None \notin Path \cup Caller

VARIABLES
  entry,    \* paths with a URL in Redis
  inflight, \* inflight[p]: the caller whose loader is running for p, or None
  call      \* call[c]: the getOrSet of c

urlVars == <<entry, inflight, call>>

Call == [pc : {"none", "get", "join", "load", "wait"}, path : Path \cup {None}]

NoCall == [pc |-> "none", path |-> None]

UrlTypeOK ==
  /\ entry \subseteq Path
  /\ inflight \in [Path -> Caller \cup {None}]
  /\ call \in [Caller -> Call]

UrlInit ==
  /\ entry = {}
  /\ inflight = [p \in Path |-> None]
  /\ call = [c \in Caller |-> NoCall]

\* getOrSet is called by c for p.
GetSignedUrl(c, p) == call' = [call EXCEPT ![c] = [pc |-> "get", path |-> p]]

\* 1. GET: a hit is returned.
Lookup(c) ==
  /\ call[c].pc = "get"
  /\ call' = IF call[c].path \in entry THEN [call EXCEPT ![c] = NoCall]
             ELSE [call EXCEPT ![c].pc = "join"]
  /\ UNCHANGED <<entry, inflight>>

\* GET fails: as a miss.
LookupFails(c) ==
  /\ call[c].pc = "get"
  /\ call' = [call EXCEPT ![c].pc = "join"]
  /\ UNCHANGED <<entry, inflight>>

\* 2. and 3.: wait for the loader that is in flight, or start one.
JoinOrLoad(c) ==
  LET p == call[c].path
  IN  /\ call[c].pc = "join"
      /\ \/ /\ inflight[p] # None
            /\ call' = [call EXCEPT ![c].pc = "wait"]
            /\ UNCHANGED inflight
         \/ /\ inflight[p] = None
            /\ inflight' = [inflight EXCEPT ![p] = c]
            /\ call' = [call EXCEPT ![c].pc = "load"]
      /\ UNCHANGED entry

\* The promise of c's loader settles: c and all who wait for it have their answer.
Settled(c) ==
  [d \in Caller |-> IF d = c \/ (call[d].pc = "wait" /\ call[d].path = call[c].path)
                    THEN NoCall ELSE call[d]]

\* Mutant of Settle: without the finally, the promise stays in the map when the loader
\* has failed.
SettleNoFinally(c, ok) ==
  /\ inflight' = IF ok THEN [inflight EXCEPT ![call[c].path] = None] ELSE inflight
  /\ call' = Settled(c)

\* The loader ends: the map forgets its promise.
Settle(c, ok) ==
  /\ inflight' = [inflight EXCEPT ![call[c].path] = None]
  /\ call' = Settled(c)

\* The loader has signed the URL, and the SET with EX cacheTtl reaches Redis.
Load(c) ==
  /\ call[c].pc = "load"
  /\ entry' = entry \cup {call[c].path}
  /\ Settle(c, TRUE)

\* The SET fails: the URL is returned without caching.
StoreFails(c) ==
  /\ call[c].pc = "load"
  /\ Settle(c, TRUE)
  /\ UNCHANGED entry

\* Signing fails, is timed out by the breaker, or is rejected.
LoadFails(c) ==
  /\ call[c].pc = "load"
  /\ Settle(c, FALSE)
  /\ UNCHANGED entry

CallStep(c) == Lookup(c) \/ JoinOrLoad(c) \/ Load(c)

CallFault(c) == LookupFails(c) \/ LoadFails(c) \/ StoreFails(c)

\* invalidate: the DEL.
Invalidate(p) == entry' = entry \ {p}

\* cacheTtl is over.
UrlExpires(p) == p \in entry /\ Invalidate(p) /\ UNCHANGED <<inflight, call>>

\* The process dies: the map and the calls are gone, Redis keeps its entries.
UrlCrash ==
  /\ inflight' = [p \in Path |-> None]
  /\ call' = [c \in Caller |-> NoCall]
  /\ UNCHANGED entry
=============================================================================
