---------------------------- MODULE FinanceProofs ----------------------------
(***************************************************************************)
(* Proofs about Finance, for any number of callers, reports, line items    *)
(* and accounts: one report per month, reports that are whole, and a seed  *)
(* that can be repeated.                                                   *)
(*                                                                         *)
(* What holds between the statements: the transactions that have inserted  *)
(* a report are about different months, none of which has a committed      *)
(* report, and a run of the seed has behind it what its place says.        *)
(***************************************************************************)
EXTENDS Finance, TLAPS

AllUsers == \A u \in DevUser : user[u] # "none"

\* How far a run of the seed has come, and a request.
CallInv ==
  \A c \in Caller :
    /\ At(c, "users") => /\ call[c].seed /\ call[c].key = SeedKey
                         /\ \A u \in DevUser \ call[c].todo : user[u] # "none"
    /\ At(c, "check") => ~call[c].seed
    /\ call[c].pc \in {"insert", "lines"} /\ call[c].seed => call[c].key = SeedKey /\ AllUsers
    /\ At(c, "ends") => call[c].seed /\ AllUsers /\ ReportsOf(SeedKey) # {}
    /\ At(c, "write") => call[c].data = call[c].dto

\* What the unique index keeps apart before anything is committed.
OpenInv ==
  /\ \A c, d \in Open : c # d => call[c].key # call[d].key /\ call[c].id # call[d].id
  /\ \A c \in Open : ReportsOf(call[c].key) = {}

\* Nobody has updated a report that is not there.
SentInv ==
  \A i \in Id \ Reports : sent[i].fields = [f \in Field |-> New]

SeedInv ==
  seeded => AllUsers /\ ReportsOf(SeedKey) # {}

IInv ==
  /\ TypeOK /\ CallInv /\ OpenInv /\ SentInv /\ SeedInv
  /\ OneReportPerMonth /\ ReportsAreIntact
-----------------------------------------------------------------------------
(* The calls *)

AnyCall == {NoCall} \cup Creator \cup Updater

Others(c) == \A d \in Caller \ {c} : call'[d] = call[d]

\* Its place tells what a call is.
LEMMA Kinds ==
  ASSUME TypeOK, NEW c \in Caller
  PROVE  /\ call[c].pc \in {"users", "check", "insert", "lines", "ends"} => call[c] \in Creator
         /\ call[c].pc \in {"find", "write"} => call[c] \in Updater
         /\ call[c] \in AnyCall
BY DEF TypeOK, AnyCall, NoCall, Creator, Updater

\* A step that writes one call.
LEMMA OneCall ==
  ASSUME TypeOK, NEW c \in Caller, NEW r \in AnyCall, call' = [call EXCEPT ![c] = r]
  PROVE  call' \in [Caller -> AnyCall] /\ call'[c] = r /\ Others(c)
BY DEF TypeOK, AnyCall, Others

\* A call moves, and no report is written.
LEMMA Moves ==
  ASSUME IInv, NEW c \in Caller, call' \in [Caller -> AnyCall], Others(c),
         UNCHANGED <<report, sent>>,
         calls' \in 0 .. MaxCalls, seeded' \in BOOLEAN,
         user' \in [DevUser -> {"none", "seeded", "changed"}],
         \A u \in DevUser : user[u] # "none" => user'[u] # "none",
         seeded' => seeded \/ (AllUsers /\ ReportsOf(SeedKey) # {}),
         call'[c].pc = "users" => /\ call'[c].seed /\ call'[c].key = SeedKey
                                  /\ \A u \in DevUser \ call'[c].todo : user'[u] # "none",
         call'[c].pc = "check" => ~call'[c].seed,
         call'[c].pc \in {"insert", "lines"} /\ call'[c].seed =>
           call'[c].key = SeedKey /\ AllUsers,
         call'[c].pc = "ends" => call'[c].seed /\ AllUsers /\ ReportsOf(SeedKey) # {},
         call'[c].pc = "write" => call'[c].id \in Reports /\ call'[c].data = call'[c].dto,
         call'[c].pc = "lines" =>
           /\ call'[c].id \in Id \ Reports /\ ReportsOf(call'[c].key) = {}
           /\ \A d \in Open \ {c} : call[d].key # call'[c].key /\ call[d].id # call'[c].id
  PROVE  IInv'
<1> USE DEF IInv, Others, At
<1>1. TypeOK'
  BY DEF TypeOK, Reports, AnyCall
<1>2. CallInv'
  BY DEF CallInv, AllUsers, ReportsOf, Reports
<1>3. OpenInv'
  BY DEF OpenInv, Open, ReportsOf, Reports
<1>4. SentInv'
  BY DEF SentInv, Reports
<1>5. SeedInv'
  BY DEF SeedInv, AllUsers, ReportsOf, Reports
<1>6. OneReportPerMonth' /\ ReportsAreIntact'
  BY DEF OneReportPerMonth, ReportsAreIntact, Reports
<1> QED
  BY <1>1, <1>2, <1>3, <1>4, <1>5, <1>6

\* A call ends without a word.
LEMMA Leaves ==
  ASSUME IInv, NEW c \in Caller, End(c), UNCHANGED <<report, user, calls, sent>>,
         seeded' \in BOOLEAN, seeded' => seeded \/ (AllUsers /\ ReportsOf(SeedKey) # {})
  PROVE  IInv'
<1>1. NoCall \in AnyCall /\ NoCall.pc = "none"
  BY DEF AnyCall, NoCall
<1>2. call' \in [Caller -> AnyCall] /\ call'[c] = NoCall /\ Others(c)
  BY <1>1, OneCall DEF End, IInv
<1> QED
  BY <1>1, <1>2, Moves DEF IInv, TypeOK
-----------------------------------------------------------------------------
(* The steps *)

\* A transaction commits.
LEMMA CommitStep ==
  ASSUME IInv, NEW c \in Caller, Commit(c)
  PROVE  IInv'
<1> DEFINE i == call[c].id
           k == call[c].key
           r == Written(c)
           e == [call[c] EXCEPT !.pc = "ends"]
<1> USE DEF IInv, At
<1>1. /\ call[c] \in Creator /\ call[c].pc = "lines" /\ call[c].todo = {}
      /\ i \in Id \ Reports /\ ReportsOf(k) = {}
      /\ \A d \in Open \ {c} : call[d].key # k /\ call[d].id # i
      /\ UNCHANGED <<user, calls, seeded>>
  BY Kinds DEF Commit, MayCommit, TypeOK, OpenInv, Open
<1>2. /\ r \in Row /\ r.key = k /\ r.lines = call[c].lines /\ r.fields = [f \in Field |-> New]
      /\ r # None
  BY <1>1, FinanceAssumption DEF Written, Row, Creator
<1>3. /\ report' \in [Id -> Row \cup {None}]
      /\ report'[i] = r /\ \A j \in Id \ {i} : report'[j] = report[j]
  BY <1>1, <1>2 DEF Commit, TypeOK
<1>4. /\ sent' \in [Id -> [lines : SUBSET Line, fields : [Field -> Value]]]
      /\ sent'[i].lines = call[c].lines /\ sent'[i].fields = [f \in Field |-> New]
      /\ \A j \in Id \ {i} : sent'[j] = sent[j]
  <2>1. sent' = [sent EXCEPT ![i].lines = call[c].lines]
    BY DEF Commit
  <2>2. call[c].lines \in SUBSET Line /\ sent[i].fields = [f \in Field |-> New]
    BY <1>1 DEF Creator, SentInv
  <2> QED
    BY <1>1, <2>1, <2>2 DEF TypeOK
<1>5. \/ call[c].seed /\ call' = [call EXCEPT ![c] = e]
      \/ ~call[c].seed /\ call' = [call EXCEPT ![c] = NoCall]
  BY DEF Commit, Goto, End
<1>6. /\ e \in Creator /\ e.pc = "ends" /\ e.seed = call[c].seed /\ e.key = k
      /\ NoCall.pc = "none" /\ {e, NoCall} \subseteq AnyCall
  BY <1>1 DEF Creator, AnyCall, NoCall
<1> HIDE DEF r, e, i, k
<1>7. /\ call' \in [Caller -> AnyCall] /\ Others(c)
      /\ \/ call[c].seed /\ call'[c] = e
         \/ ~call[c].seed /\ call'[c] = NoCall
  BY <1>5, <1>6, OneCall
<1>8. /\ Reports' = Reports \cup {i} /\ i \notin Reports /\ i \in Id
      /\ \A j \in Reports : report'[j] = report[j]
      /\ report'[i] = r
  BY <1>1, <1>2, <1>3 DEF Reports
<1>9. \A x \in Key : IF x = k THEN ReportsOf(x)' # {} ELSE ReportsOf(x)' = ReportsOf(x)
  BY <1>2, <1>8 DEF ReportsOf
<1>10. \A x \in Key : ReportsOf(x) # {} => ReportsOf(x)' # {}
  BY <1>8 DEF ReportsOf
<1> USE DEF Others
<1>11. SeedKey \in Key /\ \A d \in Open : call[d].key \in Key
  BY FinanceAssumption, Kinds DEF Open, Creator
<1>12. TypeOK'
  <2>1. \A d \in Caller : call'[d].pc = "write" => call'[d].id \in Reports'
    BY <1>6, <1>7, <1>8 DEF TypeOK
  <2>2. \A d \in Caller : call'[d].pc = "lines" => call'[d].id \in Id \ Reports'
    BY <1>1, <1>6, <1>7, <1>8 DEF TypeOK, Open, i
  <2> QED
    BY <1>1, <1>3, <1>4, <1>7, <2>1, <2>2 DEF TypeOK, AnyCall
<1>13. CallInv'
  <2>1. UNCHANGED user
    BY <1>1
  <2>2. call[c].seed => k = SeedKey /\ AllUsers
    BY <1>1 DEF CallInv, k
  <2>3. k = SeedKey \/ ReportsOf(SeedKey) # {} => ReportsOf(SeedKey)' # {}
    BY <1>9, <1>10, <1>11
  <2> QED
    BY <1>6, <1>7, <2>1, <2>2, <2>3 DEF CallInv, AllUsers
<1>14. OpenInv'
  <2>1. Open' = Open \ {c} /\ \A d \in Open' : call'[d] = call[d]
    BY <1>6, <1>7 DEF Open
  <2> QED
    BY <1>1, <1>9, <1>11, <2>1 DEF OpenInv
<1>15. SentInv'
  BY <1>4, <1>8 DEF SentInv
<1>16. SeedInv'
  BY <1>1, <1>10, <1>11 DEF SeedInv, AllUsers
<1>17. OneReportPerMonth'
  BY <1>1, <1>2, <1>8 DEF OneReportPerMonth, ReportsOf
<1>18. ReportsAreIntact'
  <2>1. \A j \in Reports : sent'[j] = sent[j]
    BY <1>4, <1>8 DEF Reports
  <2> QED
    BY <1>2, <1>4, <1>8, <2>1 DEF ReportsAreIntact
<1> QED
  BY <1>12, <1>13, <1>14, <1>15, <1>16, <1>17, <1>18

\* An update reaches its row.
LEMMA WriteStep ==
  ASSUME IInv, NEW c \in Caller, Write(c)
  PROVE  IInv'
<1> DEFINE i == call[c].id
           p == call[c].dto
           Put(fs) == [f \in Field |-> IF f \in DOMAIN p THEN p[f] ELSE fs[f]]
           r == [report[i] EXCEPT !.fields = Put(report[i].fields)]
           s == [sent[i] EXCEPT !.fields = Put(sent[i].fields)]
<1> USE DEF IInv, At
<1>1. /\ call[c] \in Updater /\ call[c].pc = "write" /\ i \in Reports /\ i \in Id
      /\ report[i] \in Row /\ call[c].data = p /\ p \in Patch
      /\ UNCHANGED <<user, calls, seeded>>
  BY Kinds DEF Write, TypeOK, CallInv, Reports, Updater
<1>2. /\ report' = [report EXCEPT ![i] = r] /\ sent' = [sent EXCEPT ![i] = s]
      /\ call' = [call EXCEPT ![c] = NoCall]
  BY <1>1 DEF Write, End
<1>3. \A fs \in [Field -> Value] : Put(fs) \in [Field -> Value]
  BY <1>1 DEF Patch
<1>4. /\ sent[i] \in [lines : SUBSET Line, fields : [Field -> Value]]
      /\ report[i].fields \in [Field -> Value] /\ sent[i].fields \in [Field -> Value]
      /\ report[i].fields = sent[i].fields /\ report[i].lines = sent[i].lines
  BY <1>1 DEF TypeOK, Row, ReportsAreIntact
<1>5. /\ Put(report[i].fields) \in [Field -> Value] /\ Put(report[i].fields) = Put(sent[i].fields)
  BY <1>3, <1>4
<1> HIDE DEF Put
<1>6. /\ r \in Row /\ r # None /\ r.key = report[i].key
      /\ s \in [lines : SUBSET Line, fields : [Field -> Value]]
      /\ r.lines = s.lines /\ r.fields = s.fields
  BY <1>1, <1>4, <1>5, FinanceAssumption DEF Row
<1> HIDE DEF r, s, i
<1>7. /\ report' \in [Id -> Row \cup {None}] /\ report'[i] = r
      /\ \A j \in Id \ {i} : report'[j] = report[j]
      /\ sent' \in [Id -> [lines : SUBSET Line, fields : [Field -> Value]]] /\ sent'[i] = s
      /\ \A j \in Id \ {i} : sent'[j] = sent[j]
  BY <1>1, <1>2, <1>6 DEF TypeOK
<1>8. NoCall \in AnyCall /\ NoCall.pc = "none"
  BY DEF AnyCall, NoCall
<1>9. call' \in [Caller -> AnyCall] /\ call'[c] = NoCall /\ Others(c)
  BY <1>2, <1>8, OneCall
<1>10. /\ Reports' = Reports /\ \A j \in Reports : report'[j].key = report[j].key
  BY <1>1, <1>6, <1>7 DEF Reports
<1>11. \A x : ReportsOf(x)' = ReportsOf(x)
  BY <1>10 DEF ReportsOf
<1> USE DEF Others
<1>12. TypeOK'
  BY <1>1, <1>7, <1>8, <1>9, <1>10 DEF TypeOK, AnyCall
<1>13. CallInv'
  BY <1>1, <1>8, <1>9, <1>11 DEF CallInv, AllUsers
<1>14. OpenInv'
  BY <1>8, <1>9, <1>11 DEF OpenInv, Open
<1>15. SentInv'
  BY <1>1, <1>7, <1>10 DEF SentInv
<1>16. SeedInv'
  BY <1>1, <1>11 DEF SeedInv, AllUsers
<1>17. OneReportPerMonth'
  BY <1>10 DEF OneReportPerMonth
<1>18. ReportsAreIntact'
  BY <1>6, <1>7, <1>10 DEF ReportsAreIntact, Reports
<1> QED
  BY <1>12, <1>13, <1>14, <1>15, <1>16, <1>17, <1>18
\* Every step keeps the invariant.
LEMMA Step ==
  ASSUME IInv, [Next]_vars
  PROVE  IInv'
<1> USE DEF IInv, At
<1>0. NoCall \in AnyCall /\ NoCall.pc = "none"
  BY DEF AnyCall, NoCall
<1>1. ASSUME NEW c \in Caller, NEW k \in Key, NEW ls \in SUBSET Line, Create(c, k, ls)
      PROVE  IInv'
  <2> DEFINE r == [pc |-> "check", seed |-> FALSE, key |-> k, lines |-> ls, todo |-> {}, id |-> None]
  <2>1. r \in AnyCall /\ r.pc = "check" /\ ~r.seed
    BY DEF AnyCall, Creator
  <2>2. /\ call' = [call EXCEPT ![c] = r] /\ calls' \in 0 .. MaxCalls
        /\ UNCHANGED <<report, user, sent, seeded>>
    BY <1>1, FinanceAssumption DEF Create, Starts, TypeOK
  <2> HIDE DEF r
  <2>3. call' \in [Caller -> AnyCall] /\ call'[c] = r /\ Others(c)
    BY <2>1, <2>2, OneCall
  <2> QED
    BY <2>1, <2>2, <2>3, Moves DEF TypeOK
<1>2. ASSUME NEW c \in Caller, Seed(c)
      PROVE  IInv'
  <2> DEFINE r == [pc |-> "users", seed |-> TRUE, key |-> SeedKey, lines |-> SeedLines,
                   todo |-> DevUser, id |-> None]
  <2>1. r \in AnyCall /\ r.pc = "users" /\ r.seed /\ r.key = SeedKey /\ r.todo = DevUser
    BY FinanceAssumption DEF AnyCall, Creator
  <2>2. /\ call' = [call EXCEPT ![c] = r] /\ calls' \in 0 .. MaxCalls
        /\ UNCHANGED <<report, user, sent, seeded>>
    BY <1>2, FinanceAssumption DEF Seed, Starts, TypeOK
  <2> HIDE DEF r
  <2>3. call' \in [Caller -> AnyCall] /\ call'[c] = r /\ Others(c)
    BY <2>1, <2>2, OneCall
  <2> QED
    BY <2>1, <2>2, <2>3, Moves DEF TypeOK
<1>3. ASSUME NEW c \in Caller, Check(c)
      PROVE  IInv'
  <2> DEFINE r(pc) == [call[c] EXCEPT !.pc = pc]
  <2>1. /\ call[c] \in Creator /\ call[c].pc \in {"users", "check"}
        /\ call[c].pc = "users" => call[c].todo = {}
        /\ UNCHANGED <<report, user, calls, sent, seeded>>
    BY <1>3, Kinds DEF Check, UsersDone
  <2>2. call[c].seed => call[c].key = SeedKey /\ AllUsers
    BY <2>1 DEF CallInv, AllUsers
  <2>3. \A pc \in {"insert", "ends"} :
          r(pc) \in AnyCall /\ r(pc).pc = pc /\ r(pc).seed = call[c].seed /\ r(pc).key = call[c].key
    BY <2>1 DEF AnyCall, Creator
  <2>4. CASE ReportsOf(call[c].key) = {} /\ call' = [call EXCEPT ![c] = r("insert")]
    <3> HIDE DEF r
    <3>1. call' \in [Caller -> AnyCall] /\ call'[c] = r("insert") /\ Others(c)
      BY <2>3, <2>4, OneCall
    <3> QED
      BY <2>1, <2>2, <2>3, <3>1, Moves DEF TypeOK
  <2>5. CASE ReportsOf(call[c].key) # {} /\ call[c].seed /\ call' = [call EXCEPT ![c] = r("ends")]
    <3> HIDE DEF r
    <3>1. call' \in [Caller -> AnyCall] /\ call'[c] = r("ends") /\ Others(c)
      BY <2>3, <2>5, OneCall
    <3> QED
      BY <2>1, <2>2, <2>3, <2>5, <3>1, Moves DEF TypeOK
  <2>6. CASE End(c)
    BY <2>1, <2>6, Leaves DEF TypeOK
  <2> QED
    BY <1>3, <2>4, <2>5, <2>6 DEF Check, Goto
<1>4. ASSUME NEW c \in Caller, NEW u \in DevUser, Upsert(c, u)
      PROVE  IInv'
  <2> DEFINE r == [call[c] EXCEPT !.todo = call[c].todo \ {u}]
  <2>1. /\ call[c] \in Creator /\ call[c].pc = "users" /\ u \in call[c].todo
        /\ call' = [call EXCEPT ![c] = r]
        /\ UNCHANGED <<report, calls, sent, seeded>>
    BY <1>4, Kinds DEF Upsert
  <2>2. /\ r \in AnyCall /\ r.pc = "users" /\ r.seed = call[c].seed /\ r.key = call[c].key
        /\ r.todo = call[c].todo \ {u}
    BY <2>1 DEF AnyCall, Creator
  <2>3. /\ user' \in [DevUser -> {"none", "seeded", "changed"}] /\ user'[u] # "none"
        /\ \A w \in DevUser : user[w] # "none" => user'[w] # "none"
    BY <1>4 DEF Upsert, TypeOK
  <2> HIDE DEF r
  <2>4. call' \in [Caller -> AnyCall] /\ call'[c] = r /\ Others(c)
    BY <2>1, <2>2, OneCall
  <2>5. r.seed /\ r.key = SeedKey /\ \A w \in DevUser \ r.todo : user'[w] # "none"
    BY <2>1, <2>2, <2>3 DEF CallInv
  <2> QED
    BY <2>1, <2>2, <2>3, <2>4, <2>5, Moves DEF TypeOK
<1>5. ASSUME NEW c \in Caller, NEW i \in Id, Insert(c, i)
      PROVE  IInv'
  <2> DEFINE r == [call[c] EXCEPT !.pc = "lines", !.id = i, !.todo = call[c].lines]
  <2>1. /\ call[c] \in Creator /\ call[c].pc = "insert"
        /\ i \notin Reports /\ \A d \in Open : call[d].key # call[c].key /\ call[d].id # i
        /\ UNCHANGED <<report, user, calls, sent, seeded>>
    BY <1>5, Kinds DEF Insert
  <2>2. CASE ReportsOf(call[c].key) = {} /\ call' = [call EXCEPT ![c] = r]
    <3>1. /\ r \in AnyCall /\ r.pc = "lines" /\ r.id = i
          /\ r.key = call[c].key /\ r.seed = call[c].seed
      BY <2>1 DEF AnyCall, Creator
    <3> HIDE DEF r
    <3>2. call' \in [Caller -> AnyCall] /\ call'[c] = r /\ Others(c)
      BY <2>2, <3>1, OneCall
    <3>3. r.seed => r.key = SeedKey /\ AllUsers
      BY <2>1, <3>1 DEF CallInv
    <3> QED
      BY <2>1, <2>2, <3>1, <3>2, <3>3, Moves DEF TypeOK
  <2>3. CASE End(c)
    BY <2>1, <2>3, Leaves DEF TypeOK
  <2> QED
    <3>1. MayInsert(call[c].key) => call' = [call EXCEPT ![c] = r]
      BY <1>5 DEF Insert, TypeOK
    <3> QED
      BY <1>5, <2>2, <2>3, <3>1 DEF Insert, MayInsert
<1>6. ASSUME NEW c \in Caller, NEW l \in Line, InsertLine(c, l)
      PROVE  IInv'
  <2> DEFINE r == [call[c] EXCEPT !.todo = call[c].todo \ {l}]
  <2>1. /\ call[c] \in Creator /\ call[c].pc = "lines" /\ call[c].id \in Id \ Reports
        /\ call' = [call EXCEPT ![c] = r]
        /\ UNCHANGED <<report, user, calls, sent, seeded>>
    BY <1>6, Kinds DEF InsertLine, TypeOK
  <2>2. /\ r \in AnyCall /\ r.pc = "lines" /\ r.seed = call[c].seed /\ r.key = call[c].key
        /\ r.id = call[c].id
    BY <2>1 DEF AnyCall, Creator
  <2> HIDE DEF r
  <2>3. call' \in [Caller -> AnyCall] /\ call'[c] = r /\ Others(c)
    BY <2>1, <2>2, OneCall
  <2>4. /\ ReportsOf(r.key) = {}
        /\ \A d \in Open \ {c} : call[d].key # r.key /\ call[d].id # r.id
        /\ r.seed => r.key = SeedKey /\ AllUsers
    BY <2>1, <2>2 DEF OpenInv, Open, CallInv
  <2> QED
    BY <2>1, <2>2, <2>3, <2>4, Moves DEF TypeOK
<1>7. ASSUME NEW c \in Caller, Fail(c)
      PROVE  IInv'
  BY <1>7, Leaves DEF Fail, TypeOK
<1>8. ASSUME NEW c \in Caller, SeedEnds(c)
      PROVE  IInv'
  BY <1>8, Leaves DEF SeedEnds, CallInv
<1>9. ASSUME NEW u \in DevUser, ChangeUser(u)
      PROVE  IInv'
  <2>1. /\ user' \in [DevUser -> {"none", "seeded", "changed"}]
        /\ \A w \in DevUser : user[w] # "none" => user'[w] # "none"
        /\ UNCHANGED <<report, call, calls, sent, seeded>>
    BY <1>9 DEF ChangeUser, TypeOK
  <2> QED
    BY <2>1 DEF TypeOK, CallInv, AllUsers, OpenInv, Open, SentInv, SeedInv, OneReportPerMonth,
                ReportsAreIntact, ReportsOf, Reports
<1>10. ASSUME NEW c \in Caller, NEW i \in Id, NEW f \in Field, NEW v \in Value,
              Update(c, i, [g \in {f} |-> v])
       PROVE  IInv'
  <2> DEFINE r == [pc |-> "find", id |-> i, dto |-> [g \in {f} |-> v], data |-> <<>>]
  <2>1. [g \in {f} |-> v] \in Patch /\ <<>> \in Patch
    <3>1. [g \in {f} |-> v] \in [{f} -> Value] /\ {f} \in SUBSET Field
      OBVIOUS
    <3>2. <<>> \in [{} -> Value] /\ {} \in SUBSET Field
      OBVIOUS
    <3> QED
      BY <3>1, <3>2 DEF Patch
  <2>2. r \in AnyCall /\ r.pc = "find"
    BY <2>1 DEF AnyCall, Updater
  <2>3. /\ call' = [call EXCEPT ![c] = r] /\ calls' \in 0 .. MaxCalls
        /\ UNCHANGED <<report, user, sent, seeded>>
    BY <1>10, FinanceAssumption DEF Update, Starts, TypeOK
  <2> HIDE DEF r
  <2>4. call' \in [Caller -> AnyCall] /\ call'[c] = r /\ Others(c)
    BY <2>2, <2>3, OneCall
  <2> QED
    BY <2>2, <2>3, <2>4, Moves DEF TypeOK
<1>11. ASSUME NEW c \in Caller, Find(c)
       PROVE  IInv'
  <2> DEFINE r == [call[c] EXCEPT !.pc = "write", !.data = call[c].dto]
  <2>1. /\ call[c] \in Updater /\ call[c].pc = "find"
        /\ UNCHANGED <<report, user, calls, sent, seeded>>
        /\ \/ call[c].id \in Reports /\ call' = [call EXCEPT ![c] = r]
           \/ End(c)
    BY <1>11, Kinds DEF Find, Data, TypeOK
  <2>2. CASE call[c].id \in Reports /\ call' = [call EXCEPT ![c] = r]
    <3>1. /\ r \in AnyCall /\ r.pc = "write" /\ r.id = call[c].id /\ r.data = r.dto
      BY <2>1 DEF AnyCall, Updater
    <3> HIDE DEF r
    <3>2. call' \in [Caller -> AnyCall] /\ call'[c] = r /\ Others(c)
      BY <2>2, <3>1, OneCall
    <3> QED
      BY <2>1, <2>2, <3>1, <3>2, Moves DEF TypeOK
  <2>3. CASE End(c)
    BY <2>1, <2>3, Leaves DEF TypeOK
  <2> QED
    BY <2>1, <2>2, <2>3
<1>12. CASE UNCHANGED vars
  BY <1>12 DEF vars, TypeOK, CallInv, AllUsers, OpenInv, Open, SentInv, SeedInv, OneReportPerMonth,
               ReportsAreIntact, ReportsOf, Reports
<1> QED
  BY <1>1, <1>2, <1>3, <1>4, <1>5, <1>6, <1>7, <1>8, <1>9, <1>10, <1>11, <1>12,
     CommitStep, WriteStep DEF Next
\* The invariant holds at the start.
LEMMA Start == Init => IInv
<1> SUFFICES ASSUME Init
             PROVE  IInv
  OBVIOUS
<1>1. Reports = {} /\ Open = {} /\ \A c \in Caller : call[c].pc = "none"
  BY DEF Init, Reports, Open, At, NoCall
<1>2. TypeOK
  <2>1. sent \in [Id -> [lines : SUBSET Line, fields : [Field -> Value]]]
    BY FinanceAssumption DEF Init
  <2>2. call \in [Caller -> {NoCall} \cup Creator \cup Updater]
    BY DEF Init
  <2>3. report \in [Id -> Row \cup {None}] /\ user \in [DevUser -> {"none", "seeded", "changed"}]
    BY DEF Init
  <2>4. \A c \in Caller : ~At(c, "write") /\ ~At(c, "lines")
    BY <1>1 DEF At
  <2>5. calls \in 0 .. MaxCalls
    <3>1. MaxCalls \in Nat
      BY FinanceAssumption
    <3> QED
      BY <3>1 DEF Init
  <2>6. seeded \in BOOLEAN
    BY DEF Init
  <2> QED
    BY <2>1, <2>2, <2>3, <2>4, <2>5, <2>6 DEF TypeOK
<1> QED
  BY <1>1, <1>2 DEF Init, IInv, CallInv, At, OpenInv, SentInv, SeedInv, OneReportPerMonth,
                    ReportsAreIntact

\* The invariant.
LEMMA Invariant == Spec => []IInv
BY Start, Step, PTL DEF Spec

\* Type correctness.
THEOREM TypeCorrect == Spec => []TypeOK
<1>1. IInv => TypeOK
  BY DEF IInv
<1> QED
  BY <1>1, Invariant, PTL

\* However many requests and seed runs pass the count together, the unique index leaves one
\* report for a spelling of a month.
THEOREM OneReport == Spec => []OneReportPerMonth
<1>1. IInv => OneReportPerMonth
  BY DEF IInv
<1> QED
  BY <1>1, Invariant, PTL

\* A report that can be read is whole, and no update takes back a field
\* that it does not send.
THEOREM Intact == Spec => []ReportsAreIntact
<1>1. IInv => ReportsAreIntact
  BY DEF IInv
<1> QED
  BY <1>1, Invariant, PTL

\* What a successful seed leaves is there for good, and no run takes back a developer's change.
THEOREM SeedCompletes == Spec => SeedIsComplete
<1> DEFINE Complete == seeded => /\ AllUsers
                                 /\ \A f \in Form : ReportByMonth([SeedKey.month EXCEPT !.form = f],
                                                                  SeedKey.year) # {}
           Kept == \A u \in DevUser : user[u] = "changed" => user'[u] = "changed"
<1>1. IInv => Complete
  <2> SUFFICES ASSUME IInv, seeded, NEW f \in Form
               PROVE  /\ AllUsers
                      /\ ReportByMonth([SeedKey.month EXCEPT !.form = f], SeedKey.year) # {}
    BY DEF IInv, SeedInv
  <2>1. [month |-> [[SeedKey.month EXCEPT !.form = f] EXCEPT !.form = Title], year |-> SeedKey.year]
          = SeedKey
    BY FinanceAssumption DEF Key
  <2> QED
    BY <2>1 DEF ReportByMonth, IInv, SeedInv
<1>2. IInv /\ [Next]_vars => Kept
  <2> SUFFICES ASSUME IInv, [Next]_vars, NEW u \in DevUser, user[u] = "changed"
               PROVE  user'[u] = "changed"
    OBVIOUS
  <2>1. user \in [DevUser -> {"none", "seeded", "changed"}]
    BY DEF IInv, TypeOK
  <2>2. ASSUME NEW c \in Caller, NEW w \in DevUser, Upsert(c, w)
        PROVE  user'[u] = "changed"
    BY <2>1, <2>2 DEF Upsert
  <2>3. ASSUME NEW w \in DevUser, ChangeUser(w)
        PROVE  user'[u] = "changed"
    BY <2>1, <2>3 DEF ChangeUser
  <2>4. ASSUME UNCHANGED user
        PROVE  user'[u] = "changed"
    BY <2>4
  <2> QED
    BY <2>2, <2>3, <2>4 DEF Next, Create, Seed, Starts, Check, Commit, SeedEnds, Find, Write, Fail,
                            Insert, InsertLine, Update, vars
<1>3. IInv /\ [Next]_vars => [Complete /\ Kept]_vars
  BY <1>1, <1>2
<1> QED
  BY <1>3, Invariant, PTL DEF Spec, SeedIsComplete, AllUsers
=============================================================================
