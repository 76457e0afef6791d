------------------------------- MODULE Finance -------------------------------
(***************************************************************************)
(* Finance reports and the seed script.  A report is a row and its line    *)
(* items, written by one transaction and visible with its commit; before   *)
(* it, createReport and the seed count the reports of the month outside of *)
(* any transaction.  Requests and seed runs interleave between statements. *)
(* A month is stored as it was spelled.  Reports are never deleted.        *)
(***************************************************************************)
EXTENDS Naturals

CONSTANTS
  Name,       \* the months of the calendar
  Form,       \* the ways to write a name; Title is the capitalised one
  Title,
  Year,
  SeedKey,    \* August 2026
  Line,       \* line items
  SeedLines,  \* the line items of the seed's report
  Field,      \* status, drive_verification_url, reconciliation_notes
  Value,      \* their values; reports are created with New
  New,
  DevUser,    \* DEV_USERS
  Id,         \* ids of reports
  Caller,     \* requests and seed runs that can be under way
  MaxCalls,   \* bound: requests and seed runs
  None

VARIABLES
  report,  \* report[i]: the committed report with id i, or None
  user,    \* user[u]: the row of development account u
  call,    \* call[c]
  calls,   \* requests and seed runs so far
  sent,    \* sent[i] (history): the lines and values that requests gave report i
  seeded   \* (history) a run of the seed ended with success

vars == <<report, user, call, calls, sent, seeded>>

Key == [month : [name : Name, form : Form], year : Year]

Row == [key : Key, lines : SUBSET Line, fields : [Field -> Value]]

\* The seed spells the month as getReportByMonthYear looks for it.
ASSUME FinanceAssumption ==
  /\ Title \in Form
  /\ New \in Value
  /\ SeedKey \in Key /\ SeedKey.month.form = Title
  /\ SeedLines \subseteq Line
  /\ None \notin Id /\ None \notin Row
  /\ MaxCalls \in Nat

Patch == UNION {[S -> Value] : S \in SUBSET Field}

\* A createReport or a run of the seed; a run of updateReport.
NoCall == [pc |-> "none"]
Creator ==
  [pc : {"users", "check", "insert", "lines", "ends"}, seed : BOOLEAN, key : Key,
   lines : SUBSET Line, todo : SUBSET (DevUser \cup Line), id : Id \cup {None}]
Updater == [pc : {"find", "write"}, id : Id, dto : Patch, data : Patch]

Reports == {i \in Id : report[i] # None}

At(c, pc) == call[c].pc = pc

TypeOK ==
  /\ report \in [Id -> Row \cup {None}]
  /\ user \in [DevUser -> {"none", "seeded", "changed"}]
  /\ call \in [Caller -> {NoCall} \cup Creator \cup Updater]
  /\ \A c \in Caller : At(c, "write") => call[c].id \in Reports
  /\ \A c \in Caller : At(c, "lines") => call[c].id \in Id \ Reports
  /\ calls \in 0 .. MaxCalls
  /\ sent \in [Id -> [lines : SUBSET Line, fields : [Field -> Value]]]
  /\ seeded \in BOOLEAN

Init ==
  /\ report = [i \in Id |-> None]
  /\ user = [u \in DevUser |-> "none"]
  /\ call = [c \in Caller |-> NoCall]
  /\ calls = 0
  /\ sent = [i \in Id |-> [lines |-> {}, fields |-> [f \in Field |-> New]]]
  /\ seeded = FALSE

\* findByMonthYear, existsByMonthYear: the spelling counts.
ReportsOf(k) == {i \in Reports : report[i].key = k}

\* getReportByMonthYear looks for the capitalised spelling.
ReportByMonth(m, y) == ReportsOf([month |-> [m EXCEPT !.form = Title], year |-> y])

Goto(c, pc) == call' = [call EXCEPT ![c].pc = pc]
End(c) == call' = [call EXCEPT ![c] = NoCall]

Starts(c, r) ==
  /\ At(c, "none")
  /\ calls < MaxCalls
  /\ calls' = calls + 1
  /\ call' = [call EXCEPT ![c] = r]
  /\ UNCHANGED <<report, user, sent, seeded>>

(***************************************************************************)
(* createReport and the seed                                               *)
(***************************************************************************)
Create(c, k, ls) ==
  Starts(c, [pc |-> "check", seed |-> FALSE, key |-> k, lines |-> ls, todo |-> {}, id |-> None])

Seed(c) ==
  Starts(c, [pc |-> "users", seed |-> TRUE, key |-> SeedKey, lines |-> SeedLines,
             todo |-> DevUser, id |-> None])

\* Mutant: the upsert writes the account of the seed over an existing one.
UpsertResets(c, u) ==
  /\ At(c, "users")
  /\ u \in call[c].todo
  /\ user' = [user EXCEPT ![u] = "seeded"]
  /\ call' = [call EXCEPT ![c].todo = @ \ {u}]
  /\ UNCHANGED <<report, calls, sent, seeded>>

\* upsert with an empty update: an existing account is left alone.
Upsert(c, u) ==
  /\ At(c, "users")
  /\ u \in call[c].todo
  /\ user' = [user EXCEPT ![u] = IF @ = "none" THEN "seeded" ELSE @]
  /\ call' = [call EXCEPT ![c].todo = @ \ {u}]
  /\ UNCHANGED <<report, calls, sent, seeded>>

\* Mutant: the first account stands for all of them.
AnyUser(c) == At(c, "users") /\ (call[c].todo = {} \/ \E u \in DevUser : user[u] # "none")

UsersDone(c) == At(c, "users") /\ call[c].todo = {}

\* The count of the reports of the month: 409, or nothing left for the seed to do.
Check(c) ==
  /\ At(c, "check") \/ UsersDone(c)
  /\ IF ReportsOf(call[c].key) = {} THEN Goto(c, "insert")
     ELSE IF call[c].seed THEN Goto(c, "ends")
     ELSE End(c)
  /\ UNCHANGED <<report, user, calls, sent, seeded>>

\* Callers whose transaction has inserted a report that is not committed.
Open == {c \in Caller : At(c, "lines")}

\* Mutant: only the count keeps two reports of one month apart.
InsertAnyway(k) == TRUE

\* @@unique([month, year]).
MayInsert(k) == ReportsOf(k) = {}

\* The INSERT of the report waits for a transaction that has inserted the same month.  The
\* unique index refuses it when that one has committed: 500, and the seed exits with 1.
Insert(c, i) ==
  /\ At(c, "insert")
  /\ i \notin Reports \cup {call[d].id : d \in Open}
  /\ \A d \in Open : call[d].key # call[c].key
  /\ IF MayInsert(call[c].key)
     THEN call' = [call EXCEPT ![c].pc = "lines", ![c].id = i, ![c].todo = call[c].lines]
     ELSE End(c)
  /\ UNCHANGED <<report, user, calls, sent, seeded>>

\* A nested line item.
InsertLine(c, l) ==
  /\ At(c, "lines")
  /\ l \in call[c].todo
  /\ call' = [call EXCEPT ![c].todo = @ \ {l}]
  /\ UNCHANGED <<report, user, calls, sent, seeded>>

\* What a transaction that ends makes visible.
Written(c) ==
  [key |-> call[c].key, lines |-> call[c].lines \ call[c].todo, fields |-> [f \in Field |-> New]]

\* Mutant: the report is written outside of the transaction of its lines.
CommitEarly(c) == At(c, "lines")

MayCommit(c) == At(c, "lines") /\ call[c].todo = {}

Commit(c) ==
  /\ MayCommit(c)
  /\ report' = [report EXCEPT ![call[c].id] = Written(c)]
  /\ sent' = [sent EXCEPT ![call[c].id].lines = call[c].lines]
  /\ IF call[c].seed THEN Goto(c, "ends") ELSE End(c)
  /\ UNCHANGED <<user, calls, seeded>>

\* A statement or the connection fails, the transaction times out, or the process dies:
\* what is not committed is rolled back.
Fail(c) ==
  /\ ~At(c, "none")
  /\ End(c)
  /\ UNCHANGED <<report, user, calls, sent, seeded>>

SeedEnds(c) ==
  /\ At(c, "ends")
  /\ seeded' = TRUE
  /\ End(c)
  /\ UNCHANGED <<report, user, calls, sent>>

\* A developer changes the password or the role of a seeded account.
ChangeUser(u) ==
  /\ user[u] = "seeded"
  /\ user' = [user EXCEPT ![u] = "changed"]
  /\ UNCHANGED <<report, call, calls, sent, seeded>>

(***************************************************************************)
(* updateReport                                                            *)
(***************************************************************************)
Update(c, i, dto) ==
  Starts(c, [pc |-> "find", id |-> i, dto |-> dto, data |-> <<>>])

\* Mutant: the row that was read is written back with the changes.
WholeRow(i, dto) == [f \in Field |-> IF f \in DOMAIN dto THEN dto[f] ELSE report[i].fields[f]]

\* Only the fields of the request are written.
Data(i, dto) == dto

\* Mutant: no 404.
FindAny(c) ==
  /\ At(c, "find")
  /\ call' = [call EXCEPT ![c].pc = "write", ![c].data = call[c].dto]
  /\ UNCHANGED <<report, user, calls, sent, seeded>>

\* findById: 404, or go on to the write.
Find(c) ==
  /\ At(c, "find")
  /\ IF call[c].id \in Reports
     THEN call' = [call EXCEPT ![c].pc = "write", ![c].data = Data(call[c].id, call[c].dto)]
     ELSE End(c)
  /\ UNCHANGED <<report, user, calls, sent, seeded>>

Write(c) ==
  LET i == call[c].id
      Put(fs, p) == [f \in Field |-> IF f \in DOMAIN p THEN p[f] ELSE fs[f]]
  IN  /\ At(c, "write")
      /\ report' = [report EXCEPT ![i].fields = Put(@, call[c].data)]
      /\ sent' = [sent EXCEPT ![i].fields = Put(@, call[c].dto)]
      /\ End(c)
      /\ UNCHANGED <<user, calls, seeded>>

Next ==
  \/ \E c \in Caller :
       \/ \E k \in Key, ls \in SUBSET Line : Create(c, k, ls)
       \/ Seed(c) \/ Check(c) \/ Commit(c) \/ SeedEnds(c) \/ Find(c) \/ Write(c) \/ Fail(c)
       \/ \E u \in DevUser : Upsert(c, u)
       \/ \E i \in Id : Insert(c, i)
       \/ \E l \in Line : InsertLine(c, l)
       \/ \E i \in Id, f \in Field, v \in Value : Update(c, i, [g \in {f} |-> v])
  \/ \E u \in DevUser : ChangeUser(u)

Spec == Init /\ [][Next]_vars

(***************************************************************************)
(* Properties                                                              *)
(***************************************************************************)
\* Two reports never have the same spelling of a month and the same year, whichever
\* requests and seed runs passed the count together.
OneReportPerMonth ==
  \A i, j \in Reports : report[i].key = report[j].key => i = j

\* A report that can be read has all the line items its creator sent, and in every field
\* the value that was written last: no failure leaves half a report behind, and no update
\* takes back a field that it does not send.
ReportsAreIntact ==
  \A i \in Reports :
    /\ report[i].lines = sent[i].lines
    /\ report[i].fields = sent[i].fields

\* Once a run of the seed succeeded, every account is there and every spelling of the month
\* finds its report, whatever runs failed half-way before it; and no later run takes back
\* what a developer changed in an account ("idempotent").
SeedIsComplete ==
  [][/\ seeded => /\ \A u \in DevUser : user[u] # "none"
                  /\ \A f \in Form : ReportByMonth([SeedKey.month EXCEPT !.form = f], SeedKey.year) # {}
     /\ \A u \in DevUser : user[u] = "changed" => user'[u] = "changed"]_vars
=============================================================================
