-------------------------------- MODULE Media --------------------------------
(***************************************************************************)
(* UserService's profile and avatar handlers over four stores that no      *)
(* transaction spans: the User row, the user-row cache, the GCS bucket and *)
(* the Media table; SignedUrls is composed in for the URL of the answer.   *)
(*                                                                         *)
(* A handler runs alone between two awaits.  What it starts with `void'    *)
(* (the Media insert, the cleanup of the old avatar, the eviction of the   *)
(* cached row) is a task that may run at any later time, fail, or die with *)
(* the process.  The row cache is CacheOrchestrator's in brief: one entry  *)
(* per user, filled after the row was read.                                *)
(***************************************************************************)
EXTENDS SignedUrls, Naturals, Functions

CONSTANTS
  User,
  Initial,     \* Initial[u]: the avatar u begins with, or None
  MaxRequests, \* bound: requests of a behaviour
  MaxFaults    \* bound: failed commands, crashes and answers of a filter that knows nothing

\* Every avatar has a path of its own.
ASSUME MediaAssumption ==
  /\ None \notin User /\ Initial \in [User -> Path \cup {None}]
  /\ \A u, v \in User : Initial[u] = Initial[v] /\ Initial[u] # None => u = v
  /\ MaxRequests \in Nat /\ MaxFaults \in Nat

VARIABLES
  row,      \* row[u]: avatar_public_id of user u, or None
  cached,   \* cached[u]: the cached row of u, a set with its avatar_public_id, {} if absent
  bucket,   \* paths of the objects in the bucket
  media,    \* storage_path of the Media rows
  fresh,    \* paths that no uuid has named yet
  req,      \* req[c]: the request in slot c
  tasks,    \* `void' commands under way
  astray,   \* history: objects, Media rows and cached URLs that a failure, a crash, a
            \* lost update or a late command left behind
  begun,    \* how many requests there were
  faults    \* how many faults there were

mediaVars == <<row, cached, bucket, media, fresh, req, tasks, astray>>
vars == <<urlVars, mediaVars, begun, faults>>

Avatar == Path \cup {None}
Kind == {"profile", "rename", "upload", "remove"}

Req == [pc : {"idle", "upload", "find", "fill", "write", "sign"},
        kind : Kind, user : User \cup {None},
        new : Avatar,    \* uploadResult.storagePath
        seen : Avatar]   \* avatar_public_id of the row that the handler has read

NoReq == [pc |-> "idle", kind |-> "profile", user |-> None, new |-> None, seen |-> None]

\* create: media.create; drop: media.deleteMany; delete: the object; forget: its URL.
\* Two commands of a kind about one path do the same: they are one task.
Task == [op : {"create", "drop", "delete", "forget"}, path : Path]

TypeOK ==
  /\ UrlTypeOK
  /\ row \in [User -> Avatar]
  /\ cached \in [User -> {{}} \cup {{a} : a \in Avatar}]
  /\ bucket \subseteq Path \ fresh /\ media \subseteq Path \ fresh
  /\ req \in [Caller -> Req]
  /\ \A c \in Caller : (req[c].pc = "sign") = (call[c].pc # "none")
  /\ tasks \subseteq Task
  /\ astray \subseteq {"object", "row", "url"} \X Path
  /\ begun \in 0..MaxRequests /\ faults \in 0..MaxFaults

\* Nothing is under way.
Init ==
  /\ UrlInit
  /\ row = Initial
  /\ cached = [u \in User |-> {}]
  /\ bucket = Path \cap Range(Initial) /\ media = bucket /\ fresh = Path \ bucket
  /\ req = [c \in Caller |-> NoReq]
  /\ tasks = {} /\ astray = {}
  /\ begun = 0 /\ faults = 0

Answer(c) == req' = [req EXCEPT ![c] = NoReq]

Pending(op, p) == [op |-> op, path |-> p] \in tasks

-----------------------------------------------------------------------------
(* The handlers *)

\* The routes: GET profile, PATCH profile, PATCH avatar, DELETE avatar.
Begin(c, u, k) ==
  /\ req[c].pc = "idle"
  /\ req' = [req EXCEPT ![c] = [NoReq EXCEPT !.kind = k, !.user = u,
       !.pc = CASE k = "upload" -> "upload" [] k = "rename" -> "write" [] OTHER -> "find"]]
  /\ UNCHANGED <<urlVars, row, cached, bucket, media, fresh, tasks, astray>>

\* The interceptor stores the file before the handler runs.
Upload(c) ==
  /\ req[c].pc = "upload" /\ fresh # {}
  /\ LET p == CHOOSE p \in fresh : TRUE
     IN  /\ fresh' = fresh \ {p}
         /\ bucket' = bucket \cup {p}
         /\ req' = [req EXCEPT ![c].pc = "find", ![c].new = p]
  /\ UNCHANGED <<urlVars, row, cached, media, tasks, astray>>

\* The file is refused, or storing it fails.
Refuse(c) ==
  /\ req[c].pc = "upload"
  /\ Answer(c)
  /\ UNCHANGED <<urlVars, row, cached, bucket, media, fresh, tasks, astray>>

\* Storing fails for the client, but the object is there.
UploadUnanswered(c) ==
  /\ req[c].pc = "upload" /\ fresh # {}
  /\ LET p == CHOOSE p \in fresh : TRUE
     IN  /\ fresh' = fresh \ {p}
         /\ bucket' = bucket \cup {p}
         /\ astray' = astray \cup {<<"object", p>>}
  /\ Answer(c)
  /\ UNCHANGED <<urlVars, row, cached, media, tasks>>

\* toApiResponse begins: all it needs of the request is the path.
SignFor(c, a) ==
  /\ req' = [req EXCEPT ![c] = [NoReq EXCEPT !.pc = "sign"]]
  /\ GetSignedUrl(c, a)

\* What comes after the handler has its row: GET profile signs, the others write.
Found(c, a) ==
  IF req[c].kind # "profile"
  THEN /\ req' = [req EXCEPT ![c].pc = "write", ![c].seen = a]
       /\ UNCHANGED call
  ELSE IF a = None THEN Answer(c) /\ UNCHANGED call
  ELSE SignFor(c, a)

\* findById: the cached row, or a read of the row.
Find(c) ==
  LET u == req[c].user
  IN  /\ req[c].pc = "find"
      /\ \/ \E a \in cached[u] : Found(c, a)
         \/ /\ cached[u] = {}
            /\ req' = [req EXCEPT ![c].pc = "fill", ![c].seen = row[u]]
            /\ UNCHANGED call
      /\ UNCHANGED <<entry, inflight, row, cached, bucket, media, fresh, tasks, astray>>

\* findById: a filter that does not hold the user says that there is none.
FilterMisses(c) ==
  /\ req[c].pc = "find"
  /\ Found(c, None)
  /\ UNCHANGED <<entry, inflight, row, cached, bucket, media, fresh, tasks, astray>>

\* The row that was read is put into the cache, and returned.
Fill(c) ==
  /\ req[c].pc = "fill"
  /\ cached' = [cached EXCEPT ![req[c].user] = {req[c].seen}]
  /\ Found(c, req[c].seen)
  /\ UNCHANGED <<entry, inflight, row, bucket, media, fresh, tasks, astray>>

\* The avatar after the update.
Written(c) == IF req[c].kind = "rename" THEN row[req[c].user] ELSE req[c].new

\* Mutant of Cleanup: an avatar that is removed leaves its object behind.
CleanupUploadsOnly(c) ==
  [op : IF req[c].kind = "upload" THEN {"delete", "drop"} ELSE {}, path : {req[c].seen} \ {None}]

\* Mutant of Cleanup: the path is taken from the updated row.
CleanupUpdated(c) ==
  [op : IF req[c].kind = "rename" THEN {} ELSE {"delete", "drop"}, path : {Written(c)} \ {None}]

\* Mutant of Cleanup: the Media row is forgotten.
CleanupObjectOnly(c) ==
  [op : IF req[c].kind = "rename" THEN {} ELSE {"delete"}, path : {req[c].seen} \ {None}]

\* The old avatar's object and its Media row.
Cleanup(c) ==
  [op : IF req[c].kind = "rename" THEN {} ELSE {"delete", "drop"}, path : {req[c].seen} \ {None}]

\* uploadAvatar records the new object.
Record(c) == [op : IF req[c].kind = "upload" THEN {"create"} ELSE {}, path : {req[c].new}]

\* userDAO.update, and all that the handler starts before its next await.
Write(c) ==
  LET u == req[c].user
      a == Written(c)
  IN  /\ req[c].pc = "write"
      /\ row' = [row EXCEPT ![u] = a]
      /\ tasks' = tasks \cup Cleanup(c) \cup Record(c)
      /\ astray' = astray \cup ({"object"} \X ({row[u]} \ {None, a, req[c].seen}))
      /\ IF a = None THEN Answer(c) /\ UNCHANGED call ELSE SignFor(c, a)
      /\ UNCHANGED <<entry, inflight, cached, bucket, media, fresh>>

\* The read or the update fails: 500, and the uploaded object stays.
Fail(c) ==
  /\ req[c].pc \in {"find", "write"}
  /\ Answer(c)
  /\ astray' = astray \cup ({"object"} \X ({req[c].new} \ {None}))
  /\ UNCHANGED <<urlVars, row, cached, bucket, media, fresh, tasks>>

\* Mutant of Answered: only who ran the loader itself is answered.
AnsweredLoader == req' = [c \in Caller |-> IF call[c].pc = "load" /\ call'[c] = NoCall
                                           THEN NoReq ELSE req[c]]

\* toApiResponse has its answer: the URL, or no avatar if signing failed.
Answered == req' = [c \in Caller |-> IF req[c].pc = "sign" /\ call'[c] = NoCall
                                     THEN NoReq ELSE req[c]]

\* getOrSet goes on; it may store the URL of an object that is gone.
Sign(c) ==
  /\ CallStep(c)
  /\ Answered
  /\ astray' = astray \cup ({"url"} \X (entry' \ (entry \cup bucket)))
  /\ UNCHANGED <<row, cached, bucket, media, fresh, tasks>>

SignFault(c) ==
  /\ CallFault(c)
  /\ Answered
  /\ UNCHANGED <<row, cached, bucket, media, fresh, tasks, astray>>

-----------------------------------------------------------------------------
(* What runs by itself *)

\* The cached row goes: its TTL ends, or the DEL of an update's eviction reaches Redis.
\* A DEL that is late or fails leaves the stale row to its TTL.
Evict(u) ==
  /\ cached[u] # {}
  /\ cached' = [cached EXCEPT ![u] = {}]
  /\ UNCHANGED <<urlVars, row, bucket, media, fresh, req, tasks, astray>>

\* media.create: a deleteMany of the path may have come first.
CreateRow(p) ==
  /\ Pending("create", p)
  /\ media' = media \cup {p}
  /\ tasks' = tasks \ {[op |-> "create", path |-> p]}
  /\ astray' = IF p \in bucket /\ (Pending("delete", p) => Pending("drop", p))
               THEN astray ELSE astray \cup {<<"row", p>>}
  /\ UNCHANGED <<entry, bucket>>

\* media.deleteMany.
DropRow(p) ==
  /\ Pending("drop", p)
  /\ media' = media \ {p}
  /\ tasks' = tasks \ {[op |-> "drop", path |-> p]}
  /\ UNCHANGED <<entry, bucket, astray>>

\* Mutant of DeleteObject: the cached URL is kept.
DeleteObjectOnly(p) ==
  /\ Pending("delete", p) /\ p \in bucket
  /\ bucket' = bucket \ {p}
  /\ tasks' = tasks \ {[op |-> "delete", path |-> p]}
  /\ UNCHANGED <<entry, media, astray>>

\* deleteByPath: the object, and then its cached URL.
DeleteObject(p) ==
  /\ Pending("delete", p) /\ p \in bucket
  /\ bucket' = bucket \ {p}
  /\ tasks' = (tasks \ {[op |-> "delete", path |-> p]}) \cup {[op |-> "forget", path |-> p]}
  /\ UNCHANGED <<entry, media, astray>>

\* deleteByPath: invalidate.
ForgetUrl(p) ==
  /\ Pending("forget", p)
  /\ Invalidate(p)
  /\ tasks' = tasks \ {[op |-> "forget", path |-> p]}
  /\ UNCHANGED <<bucket, media, astray>>

\* A task fails, with a warning: the object may be gone all the same.
FailTask(t) ==
  /\ tasks' = tasks \ {t}
  /\ \/ UNCHANGED bucket
     \/ t.op = "delete" /\ bucket' = bucket \ {t.path}
  /\ astray' = astray \cup
       ((CASE t.op = "delete" -> {"object", "row", "url"}
           [] t.op = "forget" -> {"url"}
           [] OTHER -> {"row"}) \X {t.path})
  /\ UNCHANGED <<urlVars, row, cached, media, fresh, req>>

\* The object was deleted before: 404, with a warning.
DeleteAgain(p) ==
  /\ Pending("delete", p) /\ p \notin bucket
  /\ tasks' = tasks \ {[op |-> "delete", path |-> p]}
  /\ UNCHANGED <<entry, bucket, media, astray>>

RunTask ==
  /\ \E p \in Path : CreateRow(p) \/ DropRow(p) \/ DeleteObject(p) \/ DeleteAgain(p) \/ ForgetUrl(p)
  /\ UNCHANGED <<inflight, call, row, cached, fresh, req>>

\* The TTL of a cached URL ends.
UrlTtlEnds(p) == UrlExpires(p) /\ UNCHANGED mediaVars

\* A path that a request has in hand, between the upload and the update.
InHand(p) == \E c \in Caller : req[c].new = p

\* The process dies with its requests and tasks.
Crash ==
  /\ UrlCrash
  /\ req' = [c \in Caller |-> NoReq]
  /\ tasks' = {}
  /\ astray' = astray \cup ({"object"} \X {p \in Path : InHand(p) \/ Pending("delete", p)})
                      \cup ({"row", "url"} \X {t.path : t \in tasks})
  /\ UNCHANGED <<row, cached, bucket, media, fresh>>

Step(c) == Upload(c) \/ Refuse(c) \/ Find(c) \/ Fill(c) \/ Write(c) \/ Sign(c)

Fault ==
  \/ \E c \in Caller : UploadUnanswered(c) \/ FilterMisses(c) \/ Fail(c) \/ SignFault(c)
  \/ \E t \in tasks : FailTask(t)
  \/ Crash

Next ==
  \/ /\ begun < MaxRequests /\ begun' = begun + 1
     /\ \E c \in Caller, u \in User, k \in Kind : Begin(c, u, k)
     /\ UNCHANGED faults
  \/ /\ \/ \E c \in Caller : Step(c)
        \/ \E u \in User : Evict(u)
        \/ RunTask
        \/ \E p \in Path : UrlTtlEnds(p)
     /\ UNCHANGED <<begun, faults>>
  \/ /\ faults < MaxFaults /\ faults' = faults + 1
     /\ Fault
     /\ UNCHANGED begun

Spec == Init /\ [][Next]_vars

-----------------------------------------------------------------------------
(* Properties *)

\* The object of a user's current avatar exists, and no cleanup is going to delete it,
\* however many uploads and removals overlap and whatever stale row they have read.
ReferencedObjectIsKept ==
  \A u \in User : row[u] # None => row[u] \in bucket /\ ~Pending("delete", row[u])

\* An object that nobody refers to is on its way out, unless a failure, a crash or an
\* update that had not seen it left it behind: uploadAvatar "deletes old avatar if exists".
OrphansAreExplained ==
  \A p \in bucket : \/ \E u \in User : row[u] = p
                    \/ InHand(p) \/ Pending("delete", p)
                    \/ <<"object", p>> \in astray

\* When nothing is under way about a path, it has a Media row if and only if it has an
\* object ("all uploads tracked in Media table"), unless one of its commands went wrong.
MediaMirrorsBucket ==
  \A p \in Path : \/ p \in media <=> p \in bucket
                  \/ InHand(p) \/ \E t \in tasks : t.path = p
                  \/ <<"object", p>> \in astray \/ <<"row", p>> \in astray

\* A cached URL whose object is gone is about to be forgotten ("otherwise public listings
\* could keep returning a URL that points at gone bytes"), unless the DEL was lost or a
\* caller stored the URL when the object was gone already.
GoneUrlIsForgotten ==
  \A p \in entry \ bucket : Pending("forget", p) \/ <<"url", p>> \in astray

\* Who waits for the loader of another waits for one that is running, so that every request
\* is answered whatever becomes of the loader: "keys are evicted as soon as the promise
\* settles".
WaitersHaveALoader ==
  /\ \A c \in Caller : call[c].pc = "wait" => inflight[call[c].path] # None
  /\ \A p \in Path : inflight[p] # None => call[inflight[p]] = [pc |-> "load", path |-> p]
=============================================================================
