# A TLA+ model of the dashboard backend

This directory holds specifications of the parts of this repository whose
correctness depends on the order in which things happen: Redis-backed login
sessions, the password-reset flow, the life cycle of an account, the
read-through cache, the Bloom filter with its background rebuild, the rate
limits, avatars with their objects, rows and signed URLs, the delivery of mails,
and the finance reports with their seed. Every module is written from the code and can
be checked with TLC; all but the rate limits come with proofs checked by TLAPS.

Paths below are relative to the repository root.

## 1. The system

A NestJS application on Fastify (`src/main.ts`) with PostgreSQL through Prisma,
several logical Redis databases through ioredis, BullMQ queues, and Google Cloud
Storage. The API process also runs the queue workers and the cron jobs. Several
processes may share the databases: the Bloom rebuild says so and locks for it,
and the rest of the code keeps nothing in a process except the L1 cache, the
map of promises in flight, and the state of circuit breakers.

JavaScript runs one continuation at a time, so the unit of interleaving is what
lies between two `await`s: one command that Redis executes or one SQL statement,
plus the synchronous code behind it. That is the grain of all modules.

### Components, their state, their operations

| component | where | state | operations |
|---|---|---|---|
| Login sessions | `modules/auth-service/auth.service.ts`, `guards/jwt-auth.guard.ts`, `strategies/jwt.strategy.ts`, `common/redis/redis-service/auth` | Redis keys `user:session` and `refresh:user:session`, each a signed JWT with a TTL | login, refreshToken, logout, logoutAll, the guard of every route |
| Password reset | `auth.service.ts`, `services/password-reset-token.service.ts` | `reset_pass_otp` columns; Redis forward key and back-pointer of a token | forgotPassword, verifyOtp, resetPassword |
| Account life cycle | `auth.service.ts`, `user-service/dao/user.dao.ts` | user rows, cached rows by id and by e-mail | register, verifyAccount, resendVerificationOtp, changePassword, changeEmailInitiate, changeEmailVerify |
| Read-through cache | `common/cache/cache-orchestrator.service.ts`, `l1-cache.service.ts` | L1 map and map of promises per process, L2 keys in Redis | get, invalidate |
| Bloom filter | `common/cache/bloom-filter.service.ts`, `bloom-rebuild.service.ts` | live bitmap, shadow bitmap, lock | add, mightExist, warm-up, rebuildNamespace (cron and manual) |
| Rate limiting | `common/throttles` | a sorted set per client and rule, a block key | evaluateWindow, activateBlock, canActivate |
| Profile and media | `user-service/user.service.ts`, `common/gcp-storage` | objects in GCS, Media rows, avatar columns, commands that no handler waits for | getProfile, updateProfile, uploadAvatar, removeAvatar, uploadFile, deleteByPath |
| Signed URLs | `common/gcp-storage/signed-url-cache.service.ts` | Redis key per object, map of loaders in flight | getOrSet, invalidate |
| Mail | `modules/email-service`, `common/resilience` | BullMQ jobs of two queues, one circuit breaker | sendAuthEmail, sendEmail, sendBulkEmail, the two processors, shutdown |
| Finance | `modules/finance-service`, `prisma/seed.ts` | Report rows with their items, development accounts | createReport, updateReport, look-up by month, lists, the seed |
| Pagination | `common/pagination/keyset.ts` | - | keyset cursors; no route uses them |
| Lifecycle, health, metrics, HTTP plumbing, configuration | `common/lifecycle`, `modules/health`, `common/metrics`, `common/filter`, ... | a drain flag, counters | - |

### How they interact

* A guarded route runs `JwtAuthGuard` (GET of the access key, JWT verification by
  passport) and `JwtStrategy.validate` (a second GET) before its handler; a
  logout deletes the keys that these two read. The throttle guards run before.
* `AuthService` works on user rows through `UserService` and `UserDAO`. The DAO
  reads some rows through the cache (`findById`, `findByEmail`) and others
  straight from PostgreSQL, and invalidates cache keys after its writes without
  waiting for it.
* `UserDAO.findById` asks the Bloom filter first and answers null for an id that
  the filter does not have; `create`, the cache's fill, the warm-up and the
  rebuild add ids to it.
* Auth mails are queued with `void`, and the handler answers before or after the
  job is in Redis. Two queues have a worker each, and both workers send through
  one `SmtpClient` and its breaker.
* `UserService` answers a profile with a signed URL, which it takes from the cache
  of signed URLs; `deleteByPath` deletes an object and then that entry. The avatar
  it replaces is the one of the row it read, through the user-row cache.
* `createReport` and the seed script, which is a process of its own, write
  the same table.

### What is hard here

* **No transactions around Redis.** `issueToken` is GET, DEL, MULTI;
  `refreshToken` is GET, then two SETs and a DEL of which each can fail alone;
  `deleteAllUserTokens` is a SCAN among writers.
* **Work after the answer, values across an await.** A fill stores what it read
  before somebody else's write; an invalidation is fire-and-forget and clears
  only the L1 of its own process.
* **Background work next to traffic.** A rebuild swaps the filter while users
  are created and while other nodes rebuild, under a lock that may expire.
* **Effects in stores that no transaction spans.** An avatar is an object, a Media
  row, a column and a cached URL, changed one after the other and partly after
  the answer.
* **Effects that cannot be taken back.** A mail that timed out may have been sent.
* **Half-done work.** A process that dies, or a command that fails, between two
  steps of any of these.

The list of hazards with their lines and the properties that cover them is the
"hazards" entry of `PROJECT.json`.

## 2. The modules

| module | contents |
|---|---|
| `Sessions` | sessions, guards, logout and logout-all |
| `SessionsProofs` | every invariant of `Sessions`, for all constants |
| `ResetLedger` | what a reset token promises, without Redis |
| `PasswordReset` | the reset flow; `SingleUse` says that it implements `ResetLedger` |
| `PasswordResetProofs` | every property of `PasswordReset`, with the refinement |
| `Accounts` | registration, verification, change of address |
| `SingleFlight` | what request coalescing promises those who ask a process for a key |
| `CacheOrchestrator` | cache, coalescing, writers that invalidate; `Coalesces` says that it implements `SingleFlight` |
| `BloomRebuild` | rebuilds, warm-ups and writers of the filter |
| `Throttle` | sliding windows, hard blocks, the layers of a route one after the other |
| `ThrottleRoutes` | what guards a route has, which layers and keys they make of a request |
| `SignedUrls` | the cache of signed URLs |
| `Media` | profiles and avatars; extends `SignedUrls` |
| `Breaker` | the circuit breaker, as a value with its operators |
| `Outbox` | what a caller of `EmailService` may rely on |
| `Mail` | queues, workers, retries, restarts; extends `Breaker`; `KeepsItsPromise` says that it implements `Outbox` |
| `Finance` | reports and the seed |
| `AccountsProofs`, `CacheProofs`, `MediaProofs`, `MailProofs`, `FinanceProofs` | the safety properties of these components, for all constants |
| `RedisProofs` | those of `BloomRebuild` and of `Throttle`, the two protocols over Redis keys with a TTL, and the keys of `ThrottleRoutes` |
| `MC...` | TLC instances: symmetry sets |

### Sessions

A session `s` stands for the two keys `<<"access", s>>` and `<<"refresh", s>>`;
`store` is the set of keys in Redis, `stale` those whose JWT has expired. A
request occupies a slot `job[r]` whose `pc` names the Redis command it sends
next. `Login` and `Refresh` end where the first command is sent; the SETs and
the DEL that the code puts under one `Promise.all` go out in order on one
connection, so they are the steps `SetAccess`, `SetRefresh`, `DelOld`, each of
which may fail while the next one still runs; `Respond` is the resolved promise.
`logoutAll` is a SCAN per pattern: `due` holds the keys that Redis guarantees
the scan will return (those present from its first call to its last), a reply
is any non-empty set of matching keys, and the scan may end when nothing is due.
`known` are the sessions whose keys were sent to the client: only those are
ever presented.

A request that is refused changes nothing and is no step. Histories (`root`,
`dead`, `raced`, `ended`) are read by properties only: `raced` marks a login
that had two refreshes in flight, `ended` one that was logged out, expired, or
lost the response of a refresh.

### PasswordReset and ResetLedger

`fwd` and `back` are the two Redis indexes; `otp` and `unexpired` the columns.
`revokeForUser` is `RevokeGet` and `RevokeDel` and is used by two flows
(`AfterRevoke`). `issueToken`'s MULTI is one step, GETDEL is one step, the
cleanup of the back-pointer may fail. Every request may die between two steps
(`Crash`). `Status(t)` maps a token to the ledger's life cycle: unissued, live,
spent, applied, dead.

### Accounts

The columns of a user row are the functions `email`, `accOtp`, `pending`,
`pendOtp` and the sets `verified` and `fresh`; an OTP is the address it was
mailed to, since that is what presenting it proves. Requests occupy slots as in
`Sessions`, one step per query: the check that an address is free (`Register`,
`CheckTaken`) and the write that needs it (`Create`, `SetPending`, `Commit`) are
apart, and the write fails on the unique columns. `commitEmailChange` is `Before`
(a read through the cache) and `Commit`.

The cache has its tiers: `l1[n]` are the entries in the memory of process `n`, `l2` those
in Redis, and `fill[n]` the rows that misses of `n` have in their hands. `Find` is a miss
up to the row that it reads, from L2 or with the SELECT; `StoreL2` and `StoreL1` store it
later, whatever was written or invalidated meanwhile. Any process may look up any key at
any time; a handler that reads through the cache needs the row in the L1 of its process,
where the miss it waits for puts it. A write leaves its request in `evict` until
`Invalidate`, which clears the L1 of its own process only and sends the DELs, of which
some may fail. What this module adds to `CacheOrchestrator` is that one row is cached
under several keys, of which one changes; coalescing and TTLs are modelled there.

`raced` marks users for whom the serial property is not claimed: two requests at once
(a request lasts until its invalidations are done), a fill that held the row while it was
written or took it from L2 while it was about to be deleted there, a lost
DEL, a Bloom filter that denied the user, or a request in a process whose L1 still had an
address that another process had changed. `movedBy[u]` is the process that changed the
address last. Both are history: no guard reads them.

### CacheOrchestrator and SingleFlight

`l1[n]` and `inflight[n]` belong to a process, `l2` and `db` are shared. `Get`
is the synchronous prefix of `get`; with the Bloom check there is an await
between the L1 lookup and the look at the inflight map (`BloomAnswers`). A get
that creates the shared promise walks through `_resolve` (`L2Get`, `L2Hit`,
`Fetch`, `SetEx`, `Hydrate`, `BloomAdded`), and `Settle` hands the outcome to
everybody who awaits it. In the terms of `SingleFlight` a request asks (`Asks`) from the
moment it makes or joins a promise until the promise settles, or its process dies, and is
told (`Tells`) what the promise settled with. `Update` is a DAO write, `EvictL1` and `EvictL2` its
invalidation. Errors: a failed L2 read is a miss, a failed SETEX or DEL leaves L2
as it was, a failed SELECT rejects the promise. `Restart` loses a process.

A value is the version of its row. The LRU order and the TTL jitter of L1 are
abstracted to `Forget`: an entry may go at any time. The Bloom filter is
abstracted to an answer of either kind, which covers every state of
`BloomRebuild`.

### BloomRebuild

A filter is the set of ids whose bits are set. `begun` and `rows` separate the
moment an INSERT takes its `created_at` from its commit, which is what the
reconciliation of a rebuild depends on. `run[r]` is a rebuild at one of its
commands, or a warm-up between its SELECT and its writes. `Fault` bounds what
goes wrong: a failed command, a dead process, or a lock that expires under its
holder (`overrun`). The inter-chunk delay and the logging are left out.

### Throttle

A request in slot `job[r]` goes through the layers of its route (`Layers`, the
keys that `buildLayers` returns); each layer is EXISTS of the block key (`Enter`),
the Lua script (`Eval`), which is atomic, and possibly the SET of the block
(`ActivateBlock`). Time passes in ticks. A member of a sorted set is known by its
age, so `hits[k]` counts members per age and forgets those that every script will
prune (`Members` are the ones a script counts, named by their age and number); a stamp is taken at `Enter` and may be up to `MaxDelay` ticks old when the
script runs. `expire` and `blocked` are the remaining TTLs. `passed` is the history
of hits that a layer let through. `overtaken` marks keys where a stamp was late:
a newer hit was counted before it, or the set expired under it. There the guard
may admit more than its limit, since the late script puts its hit behind a prune
that used a later time; TLC shows it when that history is left out.

`ThrottleRoutes` says where keys come from. A request is a record of what guards
read (peer, forwarding headers, user agent, device, e-mail, token) and of its true
`origin`, which they do not know. `ClientIp` is `resolveClientIp` with trusted
ranges; an e-mail is a mailbox and a spelling, of which `Email` keeps the mailbox.
`LayerKeys(r, q)` are the layers of all guards of route `r` in the order NestJS runs
them. `MCThrottle` makes clients of `Throttle` out of requests to the login route, and
`Identity` tells which keys the layers should be counting together; an
ASSUME of that module evaluates for all 24 routes that no layer counts a user
before `JwtAuthGuard` has set one.

### Media and SignedUrls

`row`, `cached`, `bucket`, `media` and `entry` are the avatar column, the user-row cache,
the objects, the Media rows and the signed URLs in Redis. `req[c]` is a handler
between two awaits: `Find`, `Fill` (findById), `Write` (the update, with
everything the handler starts before its next await), then the `call` of
`getOrSet` that `SignedUrls` specifies. What is started and not awaited is a member
of `tasks`: `create` and `drop` of a Media row, `delete` of an object, and, after the
object is gone, `forget` of its URL. Tasks run in any order. `Evict` is at once the
TTL of the cached row and its DEL, which nobody waits for; so a handler may find
an old avatar in the row it reads and clean that one up. `FilterMisses` is a Bloom
filter that denies the user, for which `findById` answers null and the handler goes on
as for a user who has no avatar. `astray` is a history of what was left behind and
by what: a failed or unanswered command, a crash, an update whose handler had
not seen the avatar it replaced, a URL stored after its object was gone.

### Mail, Breaker and Outbox

A job is queued (`Ask`, `Add`), taken (`Take`), sent, and answered: `Accept` is the
server's step, `Complete`, `Refuse`, `TimeOut` are what becomes of the promise. A
timed-out send is not cancelled, so the server may accept it all the same
(`Abandoned`). `Retried` is what BullMQ does with a handler that throws. `Stop` and
`Restart` are SIGTERM and the next process, with `worker.close()` in between
(`Drained`); `Crash` loses the calls in flight and leaves active jobs to be found
stalled. `brk` is a value of `Breaker`: opossum's states, its rolling counts,
its reset timer. BullMQ, opossum and the SMTP server are libraries and services;
they are modelled by what the options in the code ask of them. `Outbox` knows only calls and
mails: a mail is kept while its job waits, is delayed or active (`Whereabouts`).

### Finance

A report is created by a count outside of a transaction (`Check`) and one
transaction (`Insert`, `InsertLine`, `Commit`), in which an insert waits for another
one of the same month and is refused by the unique index. Seed runs share these
steps, after the upserts of the accounts. A month is a name and a spelling, since the
table keeps the spelling. `sent` is a history of what requests gave a report. `Fail`
ends a request or a seed run anywhere.

## 3. What TLC checks

| run | instance | shows |
|---|---|---|
| `sessions` | 1 user, 2 requests at once, 3 sessions, 1 login, 1 expiry | `DeadStaysDead`, `OneRefreshTokenWhenSerial`, `SignedInUntilEnded` |
| `password_reset` | 2 users, 2 requests, 2 OTPs, 3 tokens | `UsedOtpIsClosed`, `SingleActiveWhenSerial`, `OneResetPerOtpWhenSerial`, `ForgotCancelsWhenSerial`, refinement `SingleUse` |
| `accounts` | 2 users, 3 addresses, 2 processes, 2 requests, 3 mailed OTPs, 1 other row cached when one is looked up | `AddressIsProven`, `AddressIsCurrentWhenSerial` |
| `cache` | 2 processes, 1 key, 2 requests, 2 versions | refinement `Coalesces`, `ReadYourWritesWhenSerial`, `EventuallyFresh`, `WaitersReturn` |
| `bloom` | 2 ids, page size 1, 2 rebuilds or warm-ups at once, 1 fault | `OneRebuildUnlessOverrun`, `FilterComplete`, `FilterRepaired`, `LockIsReturned` |
| `throttle` | 2 ways to log in to 1 mailbox, address and e-mail layers with windows and blocks of 1 and 2 ticks, 2 requests | `AdmitAtMostLimit`, `BlockEnds` |
| `media` | 1 user, 3 paths, 2 requests at once, 3 in all, 1 fault | `ReferencedObjectIsKept`, `OrphansAreExplained`, `MediaMirrorsBucket`, `GoneUrlIsForgotten`, `WaitersHaveALoader` |
| `mail` | 1 call for 2 recipients, 2 attempts, 2 crashes, 1 graceful restart | `DuplicatesNeedDoubt`, `AttemptsAreKept`, `EveryJobEnds`, refinement `KeepsItsPromise` |
| `finance` | 3 requests or seed runs at once, 4 in all, 3 ids, 2 spellings, 2 lines, 2 accounts | `OneReportPerMonth`, `ReportsAreIntact`, `SeedIsComplete` |
| `bloom_old_filter`, `throttle_within_limit`, `mail_starvation` | see below | each ends in a counterexample |

The properties, in words:

* **DeadStaysDead** - a key that a logout deleted, or that a logout-all found when
  it began, never exists again, whatever was in flight.
* **OneRefreshTokenWhenSerial** - rotation: a client that exchanges one token at a
  time never holds two that Redis would accept, also after failures and crashes.
* **SignedInUntilEnded** - a refresh never signs its own client out, also when
  several race and commands fail.
* **SingleUse** - the Redis protocol is an implementation of the ledger of tokens.
* **UsedOtpIsClosed** - once an OTP led to a password, it cannot be verified again.
* **SingleActiveWhenSerial**, **OneResetPerOtpWhenSerial**,
  **ForgotCancelsWhenSerial** - the policy of one live token per user holds as
  long as one user's requests do not overlap, whichever of them crashed.
* **AddressIsProven** - a verified account has only an address for which somebody
  presented an OTP that was mailed there, also when a second change of address
  starts while the first is being confirmed.
* **AddressIsCurrentWhenSerial** - `commitEmailChange` and the other writes invalidate
  enough keys: after serial requests nothing in L2, in a fill, or in the L1 of the process
  that changed the address last has another address than the account, under any key. Look-ups in
  *other* processes may give the old address until their L1's TTL is over, and a fill that
  overlaps a write may bring it back; the property claims neither.
* **Coalesces**, **WaitersReturn** - coalescing: of all who ask a process for a key exactly
  one works, so nobody waits where nobody works; a later one joins and does not start
  over; when it ends, everybody who joined is told the same answer or error, at once, and
  none of it survives the process. Who waits returns in the end.
* **ReadYourWritesWhenSerial** - a process that wrote and invalidated a row does not
  read an older version, unless a fill was at work or the invalidation was lost.
* **EventuallyFresh** - whatever stale entry a race leaves is gone after the TTLs.
* **OneRebuildUnlessOverrun** - the lock excludes rebuilds that do not outlast it,
  and an overrunning rebuild does not free its successor's lock.
* **FilterComplete** - without faults, a created user is missing from the filter only
  between the swap and the reconciliation, or if its INSERT was in flight across
  the start of the rebuild.
* **FilterRepaired**, **LockIsReturned** - the system heals after its last fault.
* **AdmitAtMostLimit** - no window of a layer lets more hits of one identity (an
  origin, a mailbox, a user) through than its limit, however many requests are
  between their block check and their count, and however they spell the e-mail or
  forge headers, unless a stamp was overtaken.
* **BlockEnds** - a block ends even if its client never stops: requests that meet the
  block do not renew it, and the window behind it drains.
* **ReferencedObjectIsKept** - the object of a current avatar exists and no cleanup
  under way is going to delete it, whatever stale rows the handlers had read.
* **OrphansAreExplained**, **MediaMirrorsBucket** - an object nobody refers to, or a Media
  row without an object (or the reverse), is on its way out or was left by a failure, a
  crash, a lost update or commands that overtook each other: `astray` names the cases.
* **GoneUrlIsForgotten** - a cached URL outlives its object only until the DEL, unless
  that DEL failed or a caller stored the URL when the object was gone.
* **WaitersHaveALoader** - nobody waits for a loader that is not running.
* **DuplicatesNeedDoubt** - a mail is sent twice only if a send timed out or died with the
  process; a refused send, a graceful restart and a breaker that opens double none.
* **AttemptsAreKept** - a recipient gets as many copies as the job has attempts at most, and
  one more only if the process died, since a stalled job is queued again once; a job
  fails for good with attempts left only if the process died twice during its sends. A
  graceful restart costs neither.
* **KeepsItsPromise** - a call is answered only when every recipient has a job, and refused only
  if one has none or the process died; what Redis took is never lost or revived and ends
  once, as delivered only if the server took it: the fallback of the breaker never passes
  for a sent mail. After a refusal the other recipients get their mail all the same, so a
  caller that tries again sends it twice.
* **EveryJobEnds** - a queued job is delivered or fails for good, whatever the server, the
  breaker and the restarts do.
* **OneReportPerMonth** - creates and seeds that pass the count together do not both write.
* **ReportsAreIntact** - no failure leaves half a report, and no update takes back a field it does not send.
* **SeedIsComplete** - a seed that succeeded left nothing out that an earlier, failed run
  had begun, and re-running it takes back nothing.

### Disagreements with the documentation

Three have a run of their own that ends in TLC's counterexample:

* `bloom_old_filter` / `OldFilterPreserved`: "any error during rebuild leaves the
  OLD live key intact" (`bloom-rebuild.service.ts:36-37`). A failed EXISTS counts
  as an empty table, and the live filter is deleted.
* `throttle_within_limit` / `OnlyExcessIsBlocked`: LIMIT is the "maximum requests
  allowed within the window", a block follows "once limit is exceeded"
  (`throttle.config.ts:12`, `:15`). `BLOCK_THRESHOLD`, 10 for every layer, is
  compared first (`base-throttle.guard.ts:355`), so a route with a limit of 30 or
  100 blocks a client for minutes at its 11th request.
* `mail_starvation` / `AuthFailsOnItsOwn`: "A general-email SMTP failure cannot starve OTP
  delivery" (`auth-email.processor.ts:10`). Both workers share the breaker `smtp`; while
  general mails keep it open, an auth mail uses up its attempts, at 0, 3, 9, 21 and 45
  seconds, without being sent. The run has 3 attempts at 0, 1 and 3 ticks and a breaker
  that stays open for 2; five attempts and 30 seconds exceed what TLC
  searches in minutes.

Five more do not hold, and no run keeps them. Four are stated in their modules: adding
the definition to the module's .cfg shows the counterexample (as an INVARIANT, the
first as a PROPERTY). The fourth below takes the change it names:

* `Sessions!AllDevicesRevoked`: logoutAll "effectively revokes all devices at once"
  (`auth.service.ts:519-520`). A refresh in flight survives it.
* `PasswordReset!SingleActiveToken`: one live token per user
  (`password-reset-token.service.ts:52-53`, `:117`). Two verifyOtp requests that
  overlap leave two.
* `Accounts!RowIsCurrentWhenSerial`: "all write paths invalidate the relevant cache
  entries" (`user.dao.ts:26`). The verification of an account leaves its row cached by
  e-mail, which says unverified.
* `Accounts!AddressIsCurrentWhenSerial` without the clause `Outdated` of `Begin` (one user,
  one request, two processes, `MaxRows` 2): "invalidates user:id and both old + new
  user:email cache keys" (`user.dao.ts:379`). Requests that never overlap change the address
  in one process and, while the other's L1 still has the row by id, once more in the other:
  there `before` is the address before the first change, the key of the address that
  is replaced is not invalidated, and L2 finds the account under it until its TTL.
* `CacheOrchestrator!ReadYourWrites`: after invalidate "subsequent reads re-fetch from DB"
  (`cache-orchestrator.service.ts:158`). A fill that read before the write stores the
  old row after the invalidation.

Met while reading, and about code that the modules abstract from or follow as it is:

* The month route says it is case-insensitive (`finance.controller.ts:97`), and it is for
  reports stored with a capital; `createReport` stores the spelling of the request
  (`finance.service.ts:184-189`), and one stored as "august" is found by no spelling. It
  may also stand beside "August": the unique index compares spellings.
* Of two creates of a month that pass the count together the second gets 500 (the unique
  index), not 409; two seeds at once make one exit with 1.
* `finance.dao.ts:186` says "ordered newest first"; months are ordered as strings.
* The seed's `total_expenses` (453822.1) is not the sum of its lines (453821.1), nor its
  `net_remaining` (171165.4) the difference of its totals; the code never adds up.
* `circuit-breaker.factory.ts:78-82` says that fire rethrows the underlying error unless
  the circuit is open; the fallback turns every failure into the open exception.
* `base-throttle.guard.ts:248` says the IP layer must always be included; guards of
  profiles and of authenticated users have only the user. `userId ?? 'anon'` makes
  their `if (userId)` always true. `ResetPasswordDto` has no e-mail, so the e-mail layer
  of that route never applies.

### Bounds

Two requests are enough for every race of two handlers, and most handlers here
only ever race in pairs on one key, token or row; three sessions allow a refresh
of a refresh, or two racing refreshes of one login. Three tokens allow a revoked
one, a consumed one and a live one. Three addresses and three OTPs
allow an account to have an address, a pending one and its replacement, and two
accounts to want the same one. Two processes give a writer and an L1 that it does not
clear. `MaxRows` 1 lets one key be looked up at a time: entries expire, so a request still
reads a row by id and finds, before it writes, the row cached by address, in another process
or in a fill. Each exclusion of `raced` but one, and `movedBy`, is needed at this bound: without it TLC
finds `AddressIsCurrentWhenSerial` violated. The one left (`Outdated`) needs two rows
cached at once; with one user, one request and `MaxRows` 2 (0.5 million states) the
property was checked once, and is violated without it (see above).
In the cache, one key suffices because nothing in
the cache relates two keys except the eviction of the oldest, which `Forget`
covers; two processes are needed because L1 is per process. Two ids with page
size one give a rebuild with several pages, an empty last page, and a row that
commits behind the cursor. In `Throttle`, keys of different clients do not meet
unless they share a layer, so one mailbox reached in two ways, with two layers of
different windows, shows all there is; a threshold of 2 over limits of 1 gives admitted, refused and blocked
requests (the ratio of `LOGIN`; the real 10 only lengthens every behaviour), `MaxCount` 3 is the first count that the guard no longer tells from larger
ones, and `MaxDelay` 1 makes stamps late. `MaxStale`, `MaxLogins`, `MaxOtps`,
`MaxVersion` and `MaxFaults` bound what would otherwise count up; each is named in
its module. Larger instances (three requests and three versions, two keys) were run once for the
cache's safety properties without an error.

In `Media` one user is enough since users share no path, and a path is never reused;
an avatar to begin with and two new ones give an object that is replaced while it
is being replaced; three requests at two callers allow a request that reads the
row between the write and the eviction of the two others; one fault meets every
step of every interleaving of these (5.3 million states, about two minutes). In `mail`
two jobs at work at once and the breaker at two calls reach every state of the breaker, and
one recipient may lose its job while the other's mail is sent; which queue a job is on only
matters to who takes it, except for starvation, whose run has both queues and three jobs. Two
attempts give a retry and a last failure, two crashes the two times a job may stall
before BullMQ gives it up. The type invariant of `Mail` is proved and not run.
In `Finance` the third caller is the one that reads or
seeds after two that raced, the fourth call an update of what they wrote; three ids
let two transactions be open beside a committed report.

Symmetry is used where no property is temporal over the permuted values: requests
and sessions, all sets of the reset flow and of `Accounts`, callers of `Media`, ids,
accounts and callers of `Finance`. The cache, Bloom, throttle and mail runs check
liveness and use none. Deadlock is checked in the first three; sessions, tokens,
OTPs, requests and mails are used up by a bounded run, so the other runs may stop.

### Fairness

The cache, Bloom, throttle and mail modules state liveness. `CacheOrchestrator` assumes
that each await of a request settles (client libraries answer or time out) and
that entries have TTLs, which SETEX and `L1CacheService` give them. It assumes no
fairness of new requests, of writes or of restarts. `BloomRebuild` assumes that
the cron keeps firing (some run can acquire a free lock), that each command of a
run answers or fails, and that the lock, set with PX, expires. Faults are never
fair and are bounded, which is how "after the last fault" is said. `Throttle`
assumes that time passes and that each command of a request is answered or fails;
nobody has to send a request, and a client may send them for ever. `Mail` assumes
that Redis answers an add, that the workers poll their queues, that a send is answered or
timed out (the breaker has a timeout), that BullMQ looks for stalled jobs, that time
passes and that Docker restarts a process that stopped. It does not assume that
the server ever accepts a mail, or that anybody asks for one.

## 4. What is proved

Every safety property that a run checks is a theorem for every set of users, sessions,
tokens, keys, processes and requests, and without bounds on their number:

| module | theorem | statement |
|---|---|---|
| `SessionsProofs` | `TypeCorrect` | `Spec => []TypeOK` |
| | `LogoutIsFinal` | `Spec => []DeadStaysDead` |
| | `RotationLeavesOne` | `Spec => []OneRefreshTokenWhenSerial` |
| | `RefreshKeepsSignedIn` | `Spec => []SignedInUntilEnded` |
| `PasswordResetProofs` | `TypeCorrect` | `Spec => []TypeOK` |
| | `UsedOtpIsClosedAlways` | `Spec => []UsedOtpIsClosed` |
| | `ImplementsLedger` | `Spec => SingleUse` (refinement of `ResetLedger`) |
| | `SingleActive` | `Spec => []SingleActiveWhenSerial` |
| | `OneResetPerOtp` | `Spec => []OneResetPerOtpWhenSerial` |
| | `ForgotCancels` | `Spec => ForgotCancelsWhenSerial` (action property) |
| `AccountsProofs` | `TypeCorrect` | `Spec => []TypeOK` |
| | `ProvenAddress` | `Spec => []AddressIsProven` |
| | `CurrentAddress` | `Spec => []AddressIsCurrentWhenSerial` |
| `CacheProofs` | `TypeCorrect` | `Spec => []TypeOK` |
| | `Coalescing` | `Spec => []OneFetchPerKey` (what the refinement rests on) |
| | `CoalescesAlways` | `Spec => Coalesces` (refinement of `SingleFlight`) |
| | `ReadsItsWrites` | `Spec => []ReadYourWritesWhenSerial` |
| `RedisProofs` | `TypeCorrect` | `Spec => []TypeOK` (`BloomRebuild`) |
| | `LockExcludes` | `Spec => []OneRebuildUnlessOverrun` |
| | `NobodyIsLost` | `Spec => []FilterComplete` |
| | `ThrottleTypeCorrect` | `ThrottleSpec => []ThrottleTypeOK` |
| | `LimitInductive` | the invariant behind the limits, for any keys |
| | `KeyKeepsLimit` | of the hits that one key let through and that nothing overtook, at most its limit are in any window |
| | `LimitIsKept` | `OneKeyEach`: `ThrottleSpec => []AdmitAtMostLimit` |
| | `RouteKeysCountTogether` | the keys that the guards of the routes make satisfy `OneKeyEach`, if `resolveClientIp` names the client |
| `MediaProofs` | `TypeCorrect` | `Spec => []TypeOK` |
| | `AvatarIsKept` | `Spec => []ReferencedObjectIsKept` |
| | `OrphansExplained` | `Spec => []OrphansAreExplained` |
| | `TableMirrors` | `Spec => []MediaMirrorsBucket` |
| | `GoneUrl` | `Spec => []GoneUrlIsForgotten` |
| | `NoLostWaiter` | `Spec => []WaitersHaveALoader` |
| `MailProofs` | `TypeCorrect` | `Spec => []TypeOK` |
| | `Delivered` | `Spec => []CompletedWasAccepted` (what the refinement rests on) |
| | `Undoubled` | `Spec => []DuplicatesNeedDoubt` |
| | `AttemptsKept` | `Spec => []AttemptsAreKept` |
| | `PromiseKept` | `Spec => KeepsItsPromise` (refinement of `Outbox`) |
| `FinanceProofs` | `TypeCorrect` | `Spec => []TypeOK` |
| | `OneReport` | `Spec => []OneReportPerMonth` |
| | `Intact` | `Spec => []ReportsAreIntact` |
| | `SeedCompletes` | `Spec => SeedIsComplete` (action property) |

The proofs use nothing but the ASSUMEs of the modules, which TLC evaluates in every run:
null values are not members of the sets they stand beside and bounds are naturals, and
beyond that

* `BloomAssumption`: ids are positive numbers, so that a cursor of 0 is before all of them,
  and finitely many (the table is finite); the page size is positive;
* `ThrottleAssumption`: every client has layers, windows and blocks last at least a tick,
  there are finitely many lengths of windows (the table of `throttle.config.ts` is finite), and
  `MaxCount`, the count beyond which the model no longer tells sets apart, is above every
  limit and threshold;
* `MediaAssumption`: users begin with different avatars, as `gcp-storage.service.ts` names
  every object with a fresh UUID;
* `MailAssumption`, `BreakerAssumption`: at least one attempt, delays, reset time and volume
  threshold of at least one, and no job that belongs to two letters;
* `FinanceAssumption`: the seed's month is spelled with a capital, as `prisma/seed.ts` does.

`LimitIsKept` has one hypothesis more, `OneKeyEach`: clients whom a layer should count
together (one origin, one mailbox, one user) meet it with one key. That is what the
code's keys are for, and it is not left there: `RouteKeysCountTogether` proves it of the keys
that `ThrottleRoutes` makes for all routes, from the order of the guards and the
normalisation of e-mails. What remains is that `resolveClientIp` finds the address the request
came from, which it does when its ranges of trusted proxies are those of the
deployment and cannot know otherwise.

### The inductive invariants

None of the properties is inductive. Each proof module states an `IInv` (or a second
invariant on top of it) that is, as named conjuncts; TLC checked each on the instance of the
component's run before it was proved. What they add, and why:

*LogoutIsFinal.* A SET that is still to come could hit a dead key. `IInv` adds that ids
are minted once and belong to one request until it answers (`MintInv`), that the keys an
in-flight request will SET were never in Redis, and so are in no snapshot and no SCAN
reply (`PendingInv`, `FreshInv` through `Unwritten`), that a request past the guard
presented a session that had been answered (`GuardInv`), and that a scan has deleted,
holds or still owes each surviving key of its snapshot (`ScanInv`) - the last is why a
logout-all may count its whole snapshot as dead when it ends.

*RotationLeavesOne, RefreshKeepsSignedIn.* `FamilyInv` is about the sessions that descend
from one login. While a refresh is in flight, the token it exchanges is the only one of the
family that is known and accepted, and after its DEL there is none (`RotationInv`); two
requests at work on one family have raced (`RacedInv`), a login has its family to itself
(`LineageInv`); the new refresh token is in Redis before the old one is deleted unless a
SET failed, which ends the family (`StoredInv`); and a token whose JWT expired ended its
family (`TraceInv`, `PurgeInv`). Most steps only take away, which one lemma (`QuietStep`)
covers; minting, storing, deleting and answering have a lemma each.

*ImplementsLedger.* The refinement needs that a consumed token is owned by one
request, has no forward key and was not applied (`SpentInv`), and that a forward
key names the user the token was issued for (`IssuedInv`). One lemma per action
maps it to a step of the ledger or a stutter.

*SingleActive, OneResetPerOtp, ForgotCancels.* `SerialInv`: for a user without a race the
token that a revocation is about to delete is the one in the back-pointer or already gone
(`RevokeInv`), a request past its revocation or its GETDEL has left no live token
(`ClearInv`), and whatever is verified, live or consumed is the proof of the OTP that the row
still has (`CurrentInv`). With `OwnInv`, no OTP was mailed to two users, the last gives one
reset per OTP: the first reset clears the column.

*ProvenAddress, CurrentAddress.* An account that is not verified cannot change its
address (`UserInv`, `Stands`), so the OTP that verifies it was mailed to the address it
still has. For the caches, an entry is under a key of its own row (`Sound`), so the keys that
a commit invalidates are the keys of every entry that was right before it. `FreshInv` says what
else there may be of a user without a race, tier by tier: an old entry in L2 is one that the
request in `evict` will delete there, one in the L1 of the process that changed the address
last is one that request will clear, a fill has none, and there is none in an L1 where a
request for the user has yet to write. The last part makes it inductive: it is why the address
that `Before` takes from L1 is the one the write replaces, so that the keys of
both are invalidated. `SerialInv` (one request per such user) keeps two writes apart.

*Coalescing, ReadsItsWrites.* The map of promises names exactly requests that still resolve
(`PromiseInv`) and who waits has joined such a one (`WaitInv`). For a key without a race no
read and write are at work at once (`ApartInv`), what a read carries is the row
(`ReadInv`), L2 is the row or empty unless a writer is about to invalidate it (`L2Inv`), and
L1 is no older than what its node settled (`L1Inv`). `ReadInv` has to say too that what is
carried is never "no row", which nobody stores; without that it is not inductive.

*CoalescesAlways.* With `OneFetchPerKey` and the two invariants above, those who wait on a
request are exactly those who ask where it works. Each action is then a step of
`SingleFlight` at one place, or none: a miss asks (`AttachAsks`), `Settle` tells all who
asked there (`SettleLands`), a restart forgets them (`RestartKills`), and the rest moves
nobody in or out (`MovesUnseen`).

*LockExcludes, NobodyIsLost.* A run that has not lost its lock holds it (`LockInv`). `ScanInv`
says where the scan is at each command: the rows up to the cursor that were
there when the run began are in the shadow key or in the page in hand. It rests on
`PageIsPrefix`, that a keyset page is a prefix of the rows behind the cursor, and on nobody
else writing the shadow. An idle slot must have its cursor at 0, or the next run would
skip rows - the code's `let cursor` does that, and the invariant has to say it.

*LimitIsKept.* The script knows its sorted set, the property speaks of what was let
through. `KeptInv` joins them: a hit that was let through is still counted in its set, or it is
too old for the window of any hit that is counted there or still on its way with an
old stamp, or it was overtaken. It needs that no hit outlives the TTL of its set (`AgedInv`), and
`BoundInv`, that no key let more hits through in a window than its limit. When the script
admits a hit, the earlier ones in its window are mapped one to one into the members it
counted, and likewise the hits of an identity into those of its one key, which bounds their
numbers without a sum over ages.

*AvatarIsKept and its companions.* A path is named once, so the object of an upload under way
is known to nobody else, and a path that a handler has seen or that waits to be
deleted is or was an avatar of one user and never becomes one again (`PathInv`). The rest
(`TraceInv`) accounts for every object and row by a task or a kind of left-over; the delete
of a row must be matched by the delete of its object, or by its excuse.

*Delivered, Undoubled.* Job by job (`Sound`): a mail the server took is the answer of a send
that still runs, the reason the job completed, or a send whose end nobody saw. That the
breaker never gets stuck open with its timer at 0 (`Works`) is one lemma over its operators.

*AttemptsKept.* Every time a worker takes a job a try begins (`Tries`), and it
ends with a throw, which uses up an attempt, with a death of the process, which is a stall,
or with the job. `TriesInv` adds that the server took no more copies than there were
tries, not counting one under way, that a stalled job and one whose worker is gone each
stand for a death, and so that two of them do for two different ones. That is where the drain
of `worker.close()` is needed: without it a restart would orphan a job without a death.

*PromiseKept.* Rests on `IInv`: a call hands in mails that nobody has touched (`AskedInv`), and
a job that completes has a copy at the server (`Sound`). What a worker, the server or the
breaker's timeout does with a job is then an arrival, an end, both or neither (`WorkStep`);
time and graceful restarts are nothing to a caller.

*OneReport, Intact, SeedCompletes.* Open transactions have different ids and months, none of
which has a committed report (`OpenInv`): it is the index that excludes, not the count
before. `SentInv` ties an open transaction's rows to the call; `SeedInv` says for each
place of a seed run what is stored by then, and that nothing is ever taken away.

Proofs are laid out with lemmas for each kind of update of a request's job or for each
kind of step, then one step per action.

### Left to TLC

* All liveness, which needs fairness and ENABLED: `WaitersReturn`, `EventuallyFresh`,
  `FilterRepaired`, `LockIsReturned`, `BlockEnds`, `EveryJobEnds`.
* That the guards of a route run in the order of `FlattenSeq` in `LayerKeys`: the theorem about
  keys is about each layer by itself, wherever it stands.
* The properties that the code does not have (section 3).
* Nothing in the modules is recursive. Two facts about finite sets of numbers, that they have a least
  and a greatest member, are proved from the well-foundedness of the order
  (`HasLeast`, `HasGreatest` in `RedisProofs`), since induction over data is out of reach.

## 5. What is not modelled

* Cryptography and guessing: a JWT, an OTP and a token are told apart from all
  others. Real OTPs have six digits.
* Hash collisions of the Bloom filter and false positives, which only cost a
  read; `mightExist` and its treatment of failed GETBITs is a free choice.
* The text of mails, metrics, logging, response formats, input validation, the file
  checks of an upload (`Refuse` stands for all of them).
* `changePassword`: a comparison, then a write of the column that a reset writes too. The
  last write stands, and no document says which of two proven requests should win. The
  other columns of a profile are written and read as a whole.
* Clocks of processes that differ by more than a command takes: to a window they
  look like late stamps. The delay that the guard adds to a refusal.
* Finance: the mapping of rows to answers, the totals (opaque values, in the code too), the
  list queries. `seedAugustReport` in `finance.service.ts` has no caller; the script
  in `prisma/seed.ts` is what is modelled, and it does nothing in production.
* Uploads and deletions in batches, `PublicApiThrottleGuard`, and keyset cursors: no route
  uses them.
* BullMQ's renewal of job locks while Redis is out of reach, and its event streams. A worker
  that outlives its lock is `Crash` without the death of the process; it would
  duplicate mails in the same way.
* The drain flag and the health probes, which only read; roles, which
  are set with an account and never change, and suspension, which nothing sets.
* HTTP plumbing, metrics and configuration: per-request transformations, counters that
  nothing reads, environment variables.

## 6. Plan

1. (done) `Sessions`, `PasswordReset` with `ResetLedger`, `CacheOrchestrator`,
   `BloomRebuild`, `Accounts`, `Throttle`; proofs of the first two.
2. (done) `Media` with `SignedUrls`, `Mail` with `Breaker`, `Finance`,
   `ThrottleRoutes` composed into `Throttle`.
3. (done) Proofs of every safety property that a run checks, and of the refinements
   `SingleUse`, `Coalesces` and `KeepsItsPromise`.
4. Left: action properties that say more about how histories grow; the other parts that section 5
   names.
