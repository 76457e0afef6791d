------------------------------ MODULE Sessions ------------------------------
(***************************************************************************)
(* Redis-backed login sessions: AuthService.login, refreshToken, logout    *)
(* and logoutAll, the JwtAuthGuard / JwtStrategy pair in front of the      *)
(* guarded routes, and RedisTokenService underneath them.                  *)
(*                                                                         *)
(* A session is two Redis keys, `userId:sessionId` (access) and            *)
(* `refresh:userId:sessionId` (refresh), each holding a signed JWT.  Every *)
(* Redis command is one step, and the commands of different requests       *)
(* interleave freely (several API nodes share one Redis).  The commands    *)
(* that one handler sends under Promise.all travel on one connection: they *)
(* reach Redis in the order they were sent, each may fail by itself, and   *)
(* commands of other requests may run between them.                        *)
(*                                                                         *)
(* A request that is turned away (wrong password, unverified or suspended  *)
(* account, missing key, wrong token type) changes nothing, so it is not a *)
(* step: an action is enabled exactly when the code gets past its checks.  *)
(***************************************************************************)
EXTENDS Naturals, FiniteSets

CONSTANTS
  User,    \* user ids
  Req,     \* slots for requests being served at the same time
  Sid,     \* session ids; crypto.randomUUID() never repeats one
  NoSid,   \* "no session"
  NoUser,  \* owner of a session id that was not generated yet
  MaxStale, \* bound: JWTs that expire
  MaxLogins \* bound: logins (the other sessions come from refreshes)

ASSUME SessionsAssumption ==
  /\ NoSid \notin Sid
  /\ NoUser \notin User
  /\ MaxStale \in Nat
  /\ MaxLogins \in Nat

Kind == {"access", "refresh"}
Key  == Kind \X Sid
Pair(s) == {<<"access", s>>, <<"refresh", s>>}

VARIABLES
  store,    \* keys that exist in Redis
  stale,    \* keys whose JWT is past its exp claim
  owner,    \* owner[s]: the user session s was minted for, NoUser before
  root,     \* history: the login session that s descends from by refreshes
  known,    \* sessions whose keys were returned to the client
  job,      \* job[r]: what request r is doing, see Job
  dead,     \* history: keys that a completed logout or logout-all removed
  raced,    \* history: roots of families that had two refreshes in flight
  ended     \* history: roots of families that were logged out, that expired,
            \* or that lost the answer to a refresh

vars == <<store, stale, owner, root, known, job, dead, raced, ended>>

\* The next Redis command of a request, or "idle".
PC == {"idle", "setAccess", "setRefresh", "delOld", "respond", "purge",
       "validate", "logout", "begin", "scan", "del"}

Job == [pc : PC,
        old : Sid \cup {NoSid},      \* the session presented with the request
        new : Sid \cup {NoSid},      \* the session the request is minting
        ok : BOOLEAN,                \* no command has failed yet
        pass : Kind,                 \* the pattern a logout-all scans for
        due : SUBSET Key,            \* keys the running SCAN still owes
        batch : SUBSET Key,          \* keys of the last SCAN reply
        snapshot : SUBSET Key]       \* history: keys when logout-all began

NoJob == [pc |-> "idle", old |-> NoSid, new |-> NoSid, ok |-> TRUE,
          pass |-> "access", due |-> {}, batch |-> {}, snapshot |-> {}]

TypeOK ==
  /\ store \subseteq Key
  /\ stale \subseteq Key
  /\ owner \in [Sid -> User \cup {NoUser}]
  /\ root \in [Sid -> Sid \cup {NoSid}]
  /\ known \subseteq Sid
  /\ job \in [Req -> Job]
  /\ dead \subseteq Key
  /\ raced \subseteq Sid
  /\ ended \subseteq Sid

Init ==
  /\ store = {} /\ stale = {} /\ known = {} /\ dead = {}
  /\ raced = {} /\ ended = {}
  /\ owner = [s \in Sid |-> NoUser]
  /\ root = [s \in Sid |-> NoSid]
  /\ job = [r \in Req |-> NoJob]

-----------------------------------------------------------------------------
(* Redis *)

\* SET key jwt EX ttl: no key is ever written twice, so none becomes fresh again.
SetKey(k) == store' = store \cup {k} /\ UNCHANGED stale

\* DEL k1 k2 ...
Delete(K) == store' = store \ K /\ UNCHANGED stale

\* What SCAN MATCH `userId:*` or `refresh:userId:*` can return.
Matching(u, kind) == {k \in store : k[1] = kind /\ owner[k[2]] = u}

\* The exp claim passes first: it was fixed (in whole seconds) before the SET.
ExpireJwt(k) ==
  /\ k \in store \ stale
  /\ Cardinality(stale) < MaxStale
  /\ stale' = stale \cup {k}
  /\ ended' = IF k[1] = "refresh" THEN ended \cup {root[k[2]]} ELSE ended
  /\ UNCHANGED <<store, owner, root, known, job, dead, raced>>

\* The key's own TTL runs out.
ExpireKey(k) ==
  /\ k \in store \cap stale
  /\ Delete({k})
  /\ UNCHANGED <<owner, root, known, job, dead, raced, ended>>

-----------------------------------------------------------------------------
(* Requests *)

Goto(r, label) == job' = [job EXCEPT ![r].pc = label]

\* The response is sent, or the handler threw.
Finish(r) == job' = [job EXCEPT ![r] = NoJob]

\* A SET failed: the commands sent with it still run, the answer is an error, and
\* the client will never hold the new keys.
Fail(r, label) ==
  /\ job' = [job EXCEPT ![r].pc = label, ![r].ok = FALSE]
  /\ ended' = ended \cup {root[job[r].new]}

\* A fresh session id for user u, in the family of session f.
Mint(s, u, f) ==
  /\ owner[s] = NoUser
  /\ owner' = [owner EXCEPT ![s] = u]
  /\ root' = [root EXCEPT ![s] = f]

\* Another request is exchanging a refresh token of the family f.
RefreshInFlight(f) ==
  \E q \in Req : /\ job[q].new # NoSid /\ job[q].old # NoSid
                 /\ root[job[q].new] = f

\* login: row read, password, verified and suspension checks passed, JWTs signed.
Login(r, u, s) ==
  /\ job[r].pc = "idle"
  /\ Cardinality({f \in Sid : root[f] = f}) < MaxLogins
  /\ Mint(s, u, s)
  /\ job' = [job EXCEPT ![r].pc = "setAccess", ![r].new = s]
  /\ UNCHANGED <<store, stale, known, dead, raced, ended>>

\* Mutant of Refresh: the presented pair is consumed when it is read, so that a
\* crash before the new pair is stored leaves the client with nothing.
RefreshConsumesFirst(r, p, s) ==
  /\ job[r].pc = "idle"
  /\ p \in known
  /\ <<"refresh", p>> \in store \ stale
  /\ Mint(s, owner[p], root[p])
  /\ Delete(Pair(p))
  /\ job' = [job EXCEPT ![r].pc = "setAccess", ![r].old = p, ![r].new = s]
  /\ raced' = IF RefreshInFlight(root[p]) THEN raced \cup {root[p]} ELSE raced
  /\ UNCHANGED <<known, dead, ended>>

\* refreshToken up to its first await: GET finds the JWT, verifyAsync accepts it,
\* its type claim is 'refresh', the new pair is generated.
Refresh(r, p, s) ==
  /\ job[r].pc = "idle"
  /\ p \in known
  /\ <<"refresh", p>> \in store \ stale
  /\ Mint(s, owner[p], root[p])
  /\ job' = [job EXCEPT ![r].pc = "setAccess", ![r].old = p, ![r].new = s]
  /\ raced' = IF RefreshInFlight(root[p]) THEN raced \cup {root[p]} ELSE raced
  /\ UNCHANGED <<store, stale, known, dead, ended>>

\* refreshToken when verifyAsync throws: the entry whose JWT is expired is purged.
\* (Presented with an expired access key it purges that; ExpireKey has this effect.)
RefreshExpired(r, p) ==
  /\ job[r].pc = "idle"
  /\ p \in known
  /\ <<"refresh", p>> \in store \cap stale
  /\ job' = [job EXCEPT ![r].pc = "purge", ![r].old = p]
  /\ UNCHANGED <<store, stale, owner, root, known, dead, raced, ended>>

Purge(r) ==
  /\ job[r].pc = "purge"
  /\ Delete({<<"refresh", job[r].old>>})
  /\ Finish(r)
  /\ UNCHANGED <<owner, root, known, dead, raced, ended>>

\* storeToken of the new access key; a failed SET does not stop the next command.
SetAccess(r) ==
  /\ job[r].pc = "setAccess"
  /\ \/ /\ SetKey(<<"access", job[r].new>>)
        /\ Goto(r, "setRefresh") /\ UNCHANGED ended
     \/ Fail(r, "setRefresh") /\ UNCHANGED <<store, stale>>
  /\ UNCHANGED <<owner, root, known, dead, raced>>

\* storeToken of the new refresh key; only a refresh has an old pair to delete.
SetRefresh(r) ==
  /\ job[r].pc = "setRefresh"
  /\ LET next == IF job[r].old = NoSid THEN "respond" ELSE "delOld"
     IN  \/ /\ SetKey(<<"refresh", job[r].new>>)
            /\ Goto(r, next) /\ UNCHANGED ended
         \/ Fail(r, next) /\ UNCHANGED <<store, stale>>
  /\ UNCHANGED <<owner, root, known, dead, raced>>

\* Mutant of DelOld: only the access key of the old pair is deleted.
DelOldAccessOnly(r) ==
  /\ job[r].pc = "delOld"
  /\ Delete({<<"access", job[r].old>>}) /\ Goto(r, "respond")
  /\ UNCHANGED <<owner, root, known, dead, raced, ended>>

\* deleteTokenPair(oldAccessKey, refreshKey)
DelOld(r) ==
  /\ job[r].pc = "delOld"
  /\ \/ Delete(Pair(job[r].old)) /\ Goto(r, "respond")
     \/ /\ job' = [job EXCEPT ![r].pc = "respond", ![r].ok = FALSE]
        /\ UNCHANGED <<store, stale>>
  /\ UNCHANGED <<owner, root, known, dead, raced, ended>>

\* Mutant of Respond: the response carries the presented session, not the new one.
RespondOld(r) ==
  /\ job[r].pc = "respond"
  /\ known' = IF job[r].ok THEN known \cup {job[r].old} ELSE known
  /\ Finish(r)
  /\ UNCHANGED <<store, stale, owner, root, dead, raced, ended>>

\* Promise.all resolves, and the client learns the new keys, only if all succeeded.
Respond(r) ==
  /\ job[r].pc = "respond"
  /\ known' = IF job[r].ok THEN known \cup {job[r].new} ELSE known
  /\ Finish(r)
  /\ UNCHANGED <<store, stale, owner, root, dead, raced, ended>>

\* JwtAuthGuard: the Bearer value is an access key that Redis resolves to a JWT
\* which passport accepts.
GuardRead(r, p) ==
  /\ job[r].pc = "idle"
  /\ p \in known
  /\ <<"access", p>> \in store \ stale
  /\ job' = [job EXCEPT ![r].pc = "validate", ![r].old = p]
  /\ UNCHANGED <<store, stale, owner, root, known, dead, raced, ended>>

\* JwtStrategy.validate: the session must still be in Redis when passport is done.
\* The route is logout, logout-all or one that touches no session.
Validate(r) ==
  /\ job[r].pc = "validate"
  /\ IF <<"access", job[r].old>> \in store
     THEN Goto(r, "logout") \/ Goto(r, "begin") \/ Finish(r)
     ELSE Finish(r)
  /\ UNCHANGED <<store, stale, owner, root, known, dead, raced, ended>>

\* deleteTokenPair(redisKey, refreshKey)
Logout(r) ==
  /\ job[r].pc = "logout"
  /\ Delete(Pair(job[r].old))
  /\ dead' = dead \cup Pair(job[r].old)
  /\ ended' = ended \cup {root[job[r].old]}
  /\ Finish(r)
  /\ UNCHANGED <<owner, root, known, raced>>

\* The user of a logout-all: the sub claim of the JWT that was presented.
Sub(r) == owner[job[r].old]

\* deleteAllUserTokens, cursor 0 of one pattern.  SCAN returns every key that is
\* there from its first call to its last; a key added meanwhile may be missed.
ScanBegin(r) ==
  /\ job[r].pc = "begin"
  /\ LET here == Matching(Sub(r), job[r].pass)
         all  == Matching(Sub(r), "access") \cup Matching(Sub(r), "refresh")
     IN  job' = [job EXCEPT ![r].pc = "scan", ![r].due = here,
                   ![r].snapshot = IF job[r].pass = "access" THEN all ELSE @]
  /\ UNCHANGED <<store, stale, owner, root, known, dead, raced, ended>>

\* One SCAN reply with keys in it.
ScanBatch(r) ==
  /\ job[r].pc = "scan"
  /\ \E B \in SUBSET Matching(Sub(r), job[r].pass) \ {{}} :
       job' = [job EXCEPT ![r].pc = "del", ![r].due = @ \ B, ![r].batch = B]
  /\ UNCHANGED <<store, stale, owner, root, known, dead, raced, ended>>

\* client.del(...keys)
ScanDel(r) ==
  /\ job[r].pc = "del"
  /\ Delete(job[r].batch)
  /\ ended' = ended \cup {root[k[2]] : k \in job[r].batch}
  /\ job' = [job EXCEPT ![r].pc = "scan", ![r].batch = {}]
  /\ UNCHANGED <<owner, root, known, dead, raced>>

\* Mutant of NextPattern: the scan of the first pattern stops after one reply.
NextPatternAfterOneReply(r) ==
  /\ job[r].pc = "scan" /\ job[r].pass = "access"
  /\ job' = [job EXCEPT ![r].pc = "begin", ![r].pass = "refresh", ![r].due = {}]
  /\ UNCHANGED <<store, stale, owner, root, known, dead, raced, ended>>

\* The cursor is back at 0: the next pattern, or the end.
NextPattern(r) ==
  /\ job[r].pc = "scan" /\ job[r].pass = "access"
  /\ job[r].due \cap store = {}
  /\ job' = [job EXCEPT ![r].pc = "begin", ![r].pass = "refresh", ![r].due = {}]
  /\ UNCHANGED <<store, stale, owner, root, known, dead, raced, ended>>

LogoutAllEnds(r) ==
  /\ job[r].pc = "scan" /\ job[r].pass = "refresh"
  /\ job[r].due \cap store = {}
  /\ dead' = dead \cup job[r].snapshot
  /\ Finish(r)
  /\ UNCHANGED <<store, stale, owner, root, known, raced, ended>>

\* The process dies, or Redis refuses a command whose failure the handler does
\* not survive: what was already done stays done.
Crash(r) ==
  /\ job[r].pc # "idle"
  /\ ended' = IF job[r].pc = "respond" THEN ended \cup {root[job[r].new]} ELSE ended
  /\ Finish(r)
  /\ UNCHANGED <<store, stale, owner, root, known, dead, raced>>

Step(r) ==
  \/ SetAccess(r) \/ SetRefresh(r) \/ DelOld(r) \/ Respond(r)
  \/ Purge(r) \/ Validate(r) \/ Logout(r)
  \/ ScanBegin(r) \/ ScanBatch(r) \/ ScanDel(r) \/ NextPattern(r) \/ LogoutAllEnds(r)

Next ==
  \/ \E r \in Req :
       \/ \E u \in User, s \in Sid : Login(r, u, s)
       \/ \E p, s \in Sid : Refresh(r, p, s)
       \/ \E p \in Sid : RefreshExpired(r, p) \/ GuardRead(r, p)
       \/ Step(r)
       \/ Crash(r)
  \/ \E k \in Key : ExpireJwt(k) \/ ExpireKey(k)

Spec == Init /\ [][Next]_vars

-----------------------------------------------------------------------------
(* Properties *)

\* What a completed logout deleted, and what a completed logout-all found when it
\* began, never exists again: no delayed SET of a login or refresh that is still
\* in flight brings a key back, and no key slips between the two SCAN passes.
DeadStaysDead == dead \cap store = {}

\* Refresh token rotation, for a client that exchanges one refresh token at a time:
\* whatever fails or crashes on the way, the client never holds two refresh tokens
\* of one login that Redis would both accept.
OneRefreshTokenWhenSerial ==
  \A s, t \in known :
    /\ root[s] = root[t] /\ root[s] \notin raced
    /\ <<"refresh", s>> \in store /\ <<"refresh", t>> \in store
    => s = t

\* A refresh never signs its own client out: until the login is logged out, expires
\* or loses the answer of a refresh, some refresh token that the client holds or is
\* about to receive is accepted, even when several refreshes race.
SignedInUntilEnded ==
  \A f \in {root[s] : s \in known} \ ended :
    \E t \in Sid : /\ root[t] = f
                   /\ <<"refresh", t>> \in store
                   /\ \/ t \in known
                      \/ \E r \in Req : job[r].pc = "respond" /\ job[r].ok /\ job[r].new = t

\* What logoutAll's comment promises: when it returns, every device that had a key
\* when it began is signed out.
AllDevicesRevoked ==
  [][\A r \in Req : LogoutAllEnds(r) =>
       ~ \E k \in store, l \in job[r].snapshot : root[k[2]] = root[l[2]]]_vars

=============================================================================
