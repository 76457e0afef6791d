------------------------------ MODULE Throttle ------------------------------
(***************************************************************************)
(* BaseThrottleGuard: every request passes the layers of its route one     *)
(* after the other; a layer counts the hits of an identifier in a sliding  *)
(* window and turns the identifier away while its hard block lasts.        *)
(*                                                                         *)
(* A layer is three commands with awaits in between: EXISTS of the block   *)
(* key, the Lua script, which is atomic, and the SET of the block key.     *)
(* Time passes in ticks; a hit is known by its age, so that runs may be    *)
(* infinite.  The delay of a refusal (computeBackoffMs) only keeps the     *)
(* answer back and is left out.                                            *)
(***************************************************************************)
EXTENDS Naturals, Sequences, FiniteSetsExt, Functions

CONSTANTS
  Client,    \* who sends requests
  Key,       \* identifiers with their prefix: an address, an e-mail, a user
  Layers,    \* Layers[c]: the keys that the guard checks for client c, in order
  Identity,  \* Identity[k]: who sends requests under k, as the layer means it
  Limit,     \* LIMIT of a key's layer
  Window,    \* TTL_SECONDS, in ticks
  Block,     \* BLOCK_SECONDS or BLOCK_DURATION_SECS, in ticks
  Threshold, \* BLOCK_THRESHOLD
  Req,       \* slots for requests being checked at the same time
  MaxDelay,  \* bound: ticks between the time stamp of a hit and its script
  MaxCount   \* bound: hits of one age that are told apart

ASSUME ThrottleAssumption ==
  /\ \A c \in Client : Layers[c] \in Seq(Key) \ {<<>>}
  /\ Key # {}
  /\ \A k \in Key : Limit[k] \in Nat /\ Block[k] \in Nat \ {0}
  /\ Window \in [Key -> Nat \ {0}] /\ IsFiniteSet(Range(Window))
  /\ MaxDelay \in Nat /\ Threshold \in Nat
  /\ MaxCount \in Nat /\ MaxCount > Threshold /\ \A k \in Key : MaxCount > Limit[k]

VARIABLES
  hits,      \* hits[k][a]: members of the sorted set of k whose score is a ticks old;
             \* older ones than MaxAge, which every script will prune, are left out
  expire,    \* expire[k]: TTL of that set in ticks, 0 when it does not exist
  blocked,   \* blocked[k]: TTL of the block key in ticks, 0 when it does not exist
  job,       \* job[r]: the request in slot r
  passed,    \* history: passed[k][a]: hits of age a that layer k let through, until
             \* a stamp is overtaken
  overtaken  \* history: keys of which a stamp was overtaken by a newer one, or by
             \* the expiry of the set, before it was counted

throttleVars == <<hits, expire, blocked, job, passed, overtaken>>

MaxAge == MaxDelay + Max(Range(Window)) - 1
Age == 0..MaxAge
Cap(n) == IF n < MaxCount THEN n ELSE MaxCount

Job == [pc : {"idle", "exists", "eval", "block"},
        keys : Seq(Key),     \* of the layers still to be passed
        age : 0..MaxDelay,   \* of the time stamp that the script will be given
        over : BOOLEAN]      \* history: the limit was exceeded

NoJob == [pc |-> "idle", keys |-> <<>>, age |-> 0, over |-> FALSE]

\* The last conjunct: a counter that holds something will go away by itself.
ThrottleTypeOK ==
  /\ hits \in [Key -> [Age -> 0..MaxCount]]
  /\ expire \in [Key -> Nat] /\ blocked \in [Key -> Nat]
  /\ \A k \in Key : expire[k] <= Window[k] /\ blocked[k] <= Block[k]
  /\ job \in [Req -> Job]
  /\ \A r \in Req : job[r].pc # "idle" => job[r].keys # <<>>
  /\ passed \in [Key -> [Age -> 0..MaxCount]]
  /\ overtaken \subseteq Key
  /\ \A k \in Key : (\E a \in Age : hits[k][a] > 0) => expire[k] > 0

NoHits == [a \in Age |-> 0]

ThrottleInit ==
  /\ hits = [k \in Key |-> NoHits] /\ expire = [k \in Key |-> 0]
  /\ blocked = [k \in Key |-> 0]
  /\ job = [r \in Req |-> NoJob]
  /\ passed = [k \in Key |-> NoHits]
  /\ overtaken = {}

-----------------------------------------------------------------------------
(* The guard *)

\* The key of the layer that request r is at.
KeyOf(r) == Head(job[r].keys)

\* The guard throws: 429, or 500 if a command failed.
Refuse(r) == job' = [job EXCEPT ![r] = NoJob]

\* Mutant of Enter: the block key is not looked at before the window.
EnterBlocked(r, keys) ==
  job' = [job EXCEPT ![r] = [NoJob EXCEPT !.pc = "eval", !.keys = keys]]

\* evaluateWindow: EXISTS of the block key; if there is none, the time is taken.
Enter(r, keys) ==
  IF blocked[Head(keys)] > 0
  THEN Refuse(r)
  ELSE job' = [job EXCEPT ![r] = [NoJob EXCEPT !.pc = "eval", !.keys = keys]]

\* canActivate begins with the first layer.
CanActivate(r, c) ==
  /\ job[r].pc = "idle"
  /\ Enter(r, Layers[c])
  /\ UNCHANGED <<hits, expire, blocked, passed, overtaken>>

\* canActivate goes on with the next layer.
GoOn(r) ==
  /\ job[r].pc = "exists"
  /\ Enter(r, job[r].keys)
  /\ UNCHANGED <<hits, expire, blocked, passed, overtaken>>

\* Mutant of Script: the member is the time stamp alone, so that hits of one
\* millisecond are one member.
ScriptMerges(h, w, d) ==
  LET pruned == [a \in Age |-> IF a >= d + w THEN 0 ELSE h[a]]
  IN  [pruned EXCEPT ![d] = 1]

\* The sorted set h when the script has pruned it and added a hit of age d.
Script(h, w, d) ==
  LET pruned == [a \in Age |-> IF a >= d + w THEN 0 ELSE h[a]]
  IN  [pruned EXCEPT ![d] = Cap(@ + 1)]

\* The members of a sorted set h: the i-th of age a.
Members(h) == {m \in Age \X (1..MaxCount) : m[2] <= h[m[1]]}

\* canActivate when the layer lets the request through.
NextLayer(r) ==
  LET keys == job[r].keys
  IN  job' = [job EXCEPT ![r] = IF Len(keys) > 1
                                THEN [@ EXCEPT !.pc = "exists", !.keys = Tail(keys), !.age = 0]
                                ELSE NoJob]

\* Layer k lets the request through.
Passes(k, count) == count <= Threshold /\ count <= Limit[k]

\* canActivate: what the count means for request r at layer k.
Judge(r, k, count) ==
  \/ /\ count > Threshold
     /\ job' = [job EXCEPT ![r].pc = "block", ![r].age = 0, ![r].over = count > Limit[k]]
  \/ /\ count <= Threshold /\ count > Limit[k]
     /\ Refuse(r)
  \/ /\ Passes(k, count)
     /\ NextLayer(r)

\* Mutant of Rearm: the script does not set the TTL.
RearmNever(k) == UNCHANGED expire

\* EXPIRE of the script.
Rearm(k) == expire' = [expire EXCEPT ![k] = Window[k]]

\* evaluateWindow: the script, and what canActivate makes of its count.
Eval(r) ==
  /\ job[r].pc = "eval"
  /\ LET k == KeyOf(r)
         d == job[r].age
         count == Cardinality(Members(Script(hits[k], Window[k], d)))
     IN  /\ hits' = [hits EXCEPT ![k] = Script(@, Window[k], d)]
         /\ Rearm(k)
         /\ Judge(r, k, count)
         /\ overtaken' = IF \E a \in Age : a < d /\ hits[k][a] > 0
                         THEN overtaken \cup {k} ELSE overtaken
         /\ passed' = [passed EXCEPT ![k] =
                          IF k \in overtaken' THEN NoHits
                          ELSE IF Passes(k, count)
                          THEN [@ EXCEPT ![d] = Cap(passed[k][d] + 1)]
                          ELSE @]
  /\ UNCHANGED blocked

\* activateBlock, and the refusal.
ActivateBlock(r) ==
  /\ job[r].pc = "block"
  /\ blocked' = [blocked EXCEPT ![KeyOf(r)] = Block[KeyOf(r)]]
  /\ Refuse(r)
  /\ UNCHANGED <<hits, expire, passed, overtaken>>

\* A command of the request fails.
CommandFails(r) ==
  /\ job[r].pc # "idle"
  /\ Refuse(r)
  /\ UNCHANGED <<hits, expire, blocked, passed, overtaken>>

-----------------------------------------------------------------------------
(* Time *)

\* A tick later.
Older(h) == [a \in Age |-> IF a = 0 THEN 0 ELSE h[a - 1]]

\* The keys whose set is in its last tick.
Expiring == {k \in Key : expire[k] = 1}

\* No command is under way for longer than MaxDelay ticks.
Tick ==
  /\ \A r \in Req : job[r].pc = "eval" => job[r].age < MaxDelay
  /\ hits' = [k \in Key |-> IF k \in Expiring THEN NoHits ELSE Older(hits[k])]
  /\ expire' = [k \in Key |-> IF expire[k] > 0 THEN expire[k] - 1 ELSE 0]
  /\ blocked' = [k \in Key |-> IF blocked[k] > 0 THEN blocked[k] - 1 ELSE 0]
  /\ job' = [r \in Req |-> IF job[r].pc = "eval" THEN [job[r] EXCEPT !.age = @ + 1] ELSE job[r]]
  /\ overtaken' = overtaken \cup
       {k \in Expiring : \E r \in Req : job[r].pc = "eval" /\ KeyOf(r) = k}
  /\ passed' = [k \in Key |-> IF k \in overtaken' THEN NoHits ELSE Older(passed[k])]

Command(r) == GoOn(r) \/ Eval(r) \/ ActivateBlock(r)

ThrottleNext ==
  \/ \E r \in Req : \/ \E c \in Client : CanActivate(r, c)
                    \/ Command(r) \/ CommandFails(r)
  \/ Tick

\* Commands are answered and time passes; nobody has to send requests, or to stop.
ThrottleFairness == WF_throttleVars(Tick) /\ \A r \in Req : WF_throttleVars(Command(r))

ThrottleSpec == ThrottleInit /\ [][ThrottleNext]_throttleVars /\ ThrottleFairness

-----------------------------------------------------------------------------
(* Properties *)

\* The keys of the layers that count somebody whom k counts.
Alike(k) == {m \in Key : Identity[m] \cap Identity[k] # {}}

\* The hits that k and its like let through in the window that ends a ticks ago.
Admitted(k, a) ==
  {q \in Alike(k) \X (Age \X (1..MaxCount)) :
     q[2] \in Members(passed[q[1]]) /\ a <= q[2][1] /\ q[2][1] < a + Window[k]}

\* No window lets more hits of an identity (an origin, a mailbox, a user) through than its
\* limit, however many requests are checked at once and however they spell the e-mail or
\* forge a header, unless a stamp was overtaken on its way.
AdmitAtMostLimit ==
  \A k \in Key : Alike(k) \cap overtaken = {} =>
    \A a \in Age : Cardinality(Admitted(k, a)) <= Limit[k]

\* A request has its identifier blocked only if it exceeded the limit: LIMIT is the
\* "maximum requests allowed within the window", and BLOCK_SECONDS the "hard-block
\* duration once limit is exceeded".
OnlyExcessIsBlocked == \A r \in Req : job[r].pc = "block" => job[r].over

\* A block ends even if its identifier never stops sending requests, since those that
\* meet it do not renew it.
BlockEnds == \A k \in Key : []<>(blocked[k] = 0)

=============================================================================
