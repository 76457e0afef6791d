----------------------------- MODULE MediaProofs -----------------------------
(***************************************************************************)
(* Proofs about Media and SignedUrls, for any number of users, objects and *)
(* requests: what the handlers leave in the bucket, in the Media table and *)
(* in the cache of URLs.                                                   *)
(*                                                                         *)
(* The argument for the bucket: a path is named once, so the object of an  *)
(* upload under way is known to nobody else, and a path that a handler has *)
(* seen, or that waits to be deleted, is or was the avatar of one user and *)
(* never becomes an avatar again.                                          *)
(***************************************************************************)
EXTENDS Media, TLAPS

\* What a request holds at its place in the handler.
PlaceInv ==
  \A c \in Caller :
    /\ req[c].pc \notin {"idle", "sign"} => req[c].user \in User
    /\ req[c].pc = "upload" => req[c].kind = "upload"
    /\ req[c].new # None => req[c].pc \in {"find", "fill", "write"} /\ req[c].kind = "upload"
    /\ req[c].pc \in {"find", "fill", "write"} /\ req[c].kind = "upload" => req[c].new # None
    /\ req[c].seen # None => req[c].pc \in {"fill", "write"}

\* The calls of getOrSet have a path.
CallInv == \A c \in Caller : call[c].pc # "none" => call[c].path \in Path

\* A path that somebody may act on.
Known(p) ==
  \/ \E u \in User : row[u] = p \/ p \in cached[u]
  \/ \E c \in Caller : req[c].seen = p
  \/ \E t \in tasks : t.path = p

\* The object of an upload under way is there, for this request only.
NewInv ==
  \A c \in Caller, p \in Path : req[c].new = p =>
    /\ p \in bucket /\ ~ Known(p)
    /\ \A d \in Caller \ {c} : req[d].new # p

FreshInv == \A p \in fresh : ~ Known(p)

\* The current avatar of a user is known for that user only.
OwnInv ==
  \A v \in User : row[v] # None =>
    /\ \A u \in User : row[u] = row[v] \/ row[v] \in cached[u] => u = v
    /\ \A c \in Caller : req[c].seen = row[v] => req[c].user = v

Excused(p) == <<"object", p>> \in astray \/ <<"row", p>> \in astray

\* A Media row without an object is about to go, or excused; so it is of an object that
\* is about to go.
RowInv ==
  \A p \in media : p \notin bucket \/ Pending("delete", p) =>
    Pending("drop", p) \/ <<"row", p>> \in astray

\* An object without a Media row is about to get one, or about to go, or excused; and a row
\* that is about to go is so with its object.
ObjectInv ==
  \A p \in bucket :
    /\ p \notin media =>
         InHand(p) \/ Pending("create", p) \/ Pending("delete", p) \/ Excused(p)
    /\ Pending("drop", p) => Pending("delete", p) \/ Excused(p)

\* The types, in parts.
UrlInv == UrlTypeOK /\ CallInv /\ WaitersHaveALoader

StoreTypes ==
  /\ row \in [User -> Avatar]
  /\ cached \in [User -> {{}} \cup {{a} : a \in Avatar}]
  /\ fresh \subseteq Path /\ bucket \subseteq Path \ fresh /\ media \subseteq Path \ fresh
  /\ tasks \subseteq Task
  /\ astray \subseteq {"object", "row", "url"} \X Path

ReqInv ==
  /\ req \in [Caller -> Req]
  /\ \A c \in Caller : (req[c].pc = "sign") = (call[c].pc # "none")
  /\ PlaceInv

\* What is known of the paths.
PathInv == NewInv /\ FreshInv /\ OwnInv /\ ReferencedObjectIsKept

\* What is under way about them.
TraceInv == RowInv /\ ObjectInv /\ OrphansAreExplained /\ GoneUrlIsForgotten

Inner == UrlInv /\ StoreTypes /\ ReqInv /\ PathInv /\ TraceInv

Counters == begun \in 0..MaxRequests /\ faults \in 0..MaxFaults

IInv == Inner /\ Counters

-----------------------------------------------------------------------------
(* The calls of getOrSet *)

\* What the callers see of a step of getOrSet: a call moves to another wait, or is
\* answered.
Goes(c) == call'[c] = NoCall \/ (call[c].pc # "none" /\ call'[c].pc # "none")

\* What a caller is that has not called.
LEMMA NoCallFacts == NoCall \in Call /\ NoCall.pc = "none"
BY DEF Call, NoCall

\* The promise of a loader settles.
LEMMA SettleUrl ==
  ASSUME UrlInv, NEW c \in Caller, NEW ok \in BOOLEAN, call[c].pc = "load", Settle(c, ok),
         entry' \subseteq Path
  PROVE  UrlInv' /\ \A d \in Caller : call'[d] = call[d] \/ Goes(d)
<1> DEFINE p == call[c].path
<1> USE DEF UrlInv
<1>1. p \in Path
  BY DEF CallInv
<1>2. \A d \in Caller : IF d = c \/ (call[d].pc = "wait" /\ call[d].path = p)
                        THEN call'[d] = NoCall ELSE call'[d] = call[d]
  BY DEF Settle, Settled
<1>3. call' \in [Caller -> Call]
  BY NoCallFacts DEF Settle, Settled, UrlTypeOK
<1>4. /\ inflight' \in [Path -> Caller \cup {None}]
      /\ inflight'[p] = None /\ \A x \in Path \ {p} : inflight'[x] = inflight[x]
  BY <1>1 DEF Settle, UrlTypeOK
<1> HIDE DEF p
<1>5. CallInv'
  BY <1>2, NoCallFacts DEF CallInv
<1>6. WaitersHaveALoader'
  <2>1. \A d \in Caller : call'[d].pc = "wait" => inflight'[call'[d].path] # None
    BY <1>2, <1>4, NoCallFacts DEF WaitersHaveALoader, CallInv
  <2>2. ASSUME NEW x \in Path, inflight'[x] # None
        PROVE  call'[inflight'[x]] = [pc |-> "load", path |-> x]
    <3>1. x # p /\ inflight'[x] = inflight[x] /\ inflight[x] \in Caller
          /\ call[inflight[x]] = [pc |-> "load", path |-> x]
      BY <1>4, <2>2 DEF WaitersHaveALoader, UrlTypeOK
    <3>2. inflight[x] # c /\ call[inflight[x]].pc = "load"
      BY <3>1 DEF p
    <3>3. call'[inflight[x]] = call[inflight[x]]
      BY <1>2, <3>1, <3>2
    <3> QED
      BY <3>1, <3>3
  <2> QED
    BY <2>1, <2>2 DEF WaitersHaveALoader
<1> QED
  BY <1>2, <1>3, <1>4, <1>5, <1>6 DEF UrlTypeOK, Goes

\* A call that has not joined yet moves.
LEMMA MoveUrl ==
  ASSUME UrlInv, NEW c \in Caller, NEW r \in Call, call' = [call EXCEPT ![c] = r],
         call[c].pc # "load", r.pc \notin {"load", "wait"}, r.pc # "none" => r.path \in Path,
         UNCHANGED <<entry, inflight>>
  PROVE  UrlInv' /\ call'[c] = r /\ \A d \in Caller \ {c} : call'[d] = call[d]
<1> USE DEF UrlInv
<1>1. call' \in [Caller -> Call] /\ call'[c] = r /\ \A d \in Caller \ {c} : call'[d] = call[d]
  BY DEF UrlTypeOK
<1>2. CallInv'
  BY <1>1 DEF CallInv
<1>3. WaitersHaveALoader'
  <2>1. \A d \in Caller : call'[d].pc = "wait" => inflight'[call'[d].path] # None
    BY <1>1 DEF WaitersHaveALoader
  <2>2. ASSUME NEW x \in Path, inflight[x] # None
        PROVE  call'[inflight[x]] = [pc |-> "load", path |-> x]
    <3>1. inflight[x] \in Caller /\ call[inflight[x]] = [pc |-> "load", path |-> x]
      BY <2>2 DEF WaitersHaveALoader, UrlTypeOK
    <3> QED
      BY <1>1, <3>1
  <2> QED
    BY <2>1, <2>2 DEF WaitersHaveALoader
<1> QED
  BY <1>1, <1>2, <1>3 DEF UrlTypeOK

\* Every step of getOrSet.
LEMMA CallUrl ==
  ASSUME UrlInv, NEW c \in Caller, CallStep(c) \/ CallFault(c)
  PROVE  UrlInv' /\ \A d \in Caller : call'[d] = call[d] \/ Goes(d)
<1> USE DEF UrlInv
<1>1. ASSUME Lookup(c) \/ LookupFails(c)
      PROVE  UrlInv' /\ \A d \in Caller : call'[d] = call[d] \/ Goes(d)
  <2> DEFINE r == [call[c] EXCEPT !.pc = "join"]
  <2>1. call[c] \in Call /\ call[c].pc = "get" /\ call[c].path \in Path
    BY <1>1 DEF UrlTypeOK, CallInv, Lookup, LookupFails
  <2>2. r \in Call /\ r.pc = "join" /\ r.path \in Path
    BY <2>1 DEF Call
  <2>3. /\ call' = [call EXCEPT ![c] = NoCall] \/ call' = [call EXCEPT ![c] = r]
        /\ UNCHANGED <<entry, inflight>>
    BY <1>1 DEF Lookup, LookupFails
  <2> HIDE DEF r
  <2> QED
    BY <2>1, <2>2, <2>3, MoveUrl, NoCallFacts DEF Goes
<1>2. ASSUME JoinOrLoad(c)
      PROVE  UrlInv' /\ \A d \in Caller : call'[d] = call[d] \/ Goes(d)
  <2> DEFINE p == call[c].path
             w == [call[c] EXCEPT !.pc = "wait"]
             l == [call[c] EXCEPT !.pc = "load"]
  <2>1. call[c] \in Call /\ call[c].pc = "join" /\ p \in Path
    BY <1>2 DEF UrlTypeOK, CallInv, JoinOrLoad
  <2>2. /\ w \in Call /\ w.pc = "wait" /\ w.path = p
        /\ l \in Call /\ l.pc = "load" /\ l.path = p /\ l = [pc |-> "load", path |-> p]
    BY <2>1 DEF Call
  <2>3. \A x \in Path : inflight[x] # None => inflight[x] \in Caller /\ inflight[x] # c
    <3> SUFFICES ASSUME NEW x \in Path, inflight[x] # None
                 PROVE  inflight[x] \in Caller /\ inflight[x] # c
      OBVIOUS
    <3>1. inflight[x] \in Caller /\ call[inflight[x]] = [pc |-> "load", path |-> x]
      BY DEF WaitersHaveALoader, UrlTypeOK
    <3> QED
      BY <2>1, <3>1
  <2>4. CASE inflight[p] # None /\ call' = [call EXCEPT ![c] = w] /\ UNCHANGED <<entry, inflight>>
    <3> HIDE DEF w, l, p
    <3>1. call' \in [Caller -> Call] /\ call'[c] = w /\ \A d \in Caller \ {c} : call'[d] = call[d]
      BY <2>2, <2>4 DEF UrlTypeOK
    <3>2. CallInv'
      BY <2>1, <2>2, <3>1 DEF CallInv
    <3>3. WaitersHaveALoader'
      BY <2>2, <2>3, <2>4, <3>1 DEF WaitersHaveALoader
    <3> QED
      BY <2>1, <2>2, <2>4, <3>1, <3>2, <3>3 DEF UrlTypeOK, Goes
  <2>5. CASE /\ inflight[p] = None /\ inflight' = [inflight EXCEPT ![p] = c]
             /\ call' = [call EXCEPT ![c] = l] /\ UNCHANGED entry
    <3> HIDE DEF w, l, p
    <3>1. call' \in [Caller -> Call] /\ call'[c] = l /\ \A d \in Caller \ {c} : call'[d] = call[d]
      BY <2>2, <2>5 DEF UrlTypeOK
    <3>2. /\ inflight' \in [Path -> Caller \cup {None}] /\ inflight'[p] = c
          /\ \A x \in Path \ {p} : inflight'[x] = inflight[x]
      BY <2>1, <2>5 DEF UrlTypeOK
    <3>3. CallInv'
      BY <2>1, <2>2, <3>1 DEF CallInv
    <3>4. WaitersHaveALoader'
      <4>1. \A d \in Caller : call'[d].pc = "wait" => inflight'[call'[d].path] # None
        BY <2>2, <3>1, <3>2, SignedUrlsAssumption DEF WaitersHaveALoader, CallInv
      <4>2. \A x \in Path : inflight'[x] # None => call'[inflight'[x]] = [pc |-> "load", path |-> x]
        BY <2>2, <2>3, <3>1, <3>2 DEF WaitersHaveALoader
      <4> QED
        BY <4>1, <4>2 DEF WaitersHaveALoader
    <3> QED
      BY <2>1, <2>2, <2>5, <3>1, <3>2, <3>3, <3>4 DEF UrlTypeOK, Goes
  <2> QED
    BY <1>2, <2>4, <2>5 DEF JoinOrLoad
<1>3. ASSUME Load(c) \/ StoreFails(c) \/ LoadFails(c)
      PROVE  UrlInv' /\ \A d \in Caller : call'[d] = call[d] \/ Goes(d)
  <2>1. call[c].pc = "load" /\ call[c].path \in Path
    BY <1>3 DEF Load, StoreFails, LoadFails, CallInv
  <2>2. entry' \subseteq Path
    BY <1>3, <2>1 DEF Load, StoreFails, LoadFails, UrlTypeOK
  <2> QED
    BY <1>3, <2>1, <2>2, SettleUrl DEF Load, StoreFails, LoadFails
<1> QED
  BY <1>1, <1>2, <1>3 DEF CallStep, CallFault

\* The process dies.
LEMMA CrashUrl ==
  ASSUME UrlInv, UrlCrash
  PROVE  UrlInv' /\ \A d \in Caller : call'[d].pc = "none"
<1>1. \A d \in Caller : call'[d] = NoCall
  BY DEF UrlCrash
<1> QED
  BY <1>1, NoCallFacts DEF UrlInv, UrlCrash, UrlTypeOK, CallInv, WaitersHaveALoader
-----------------------------------------------------------------------------
(* The requests *)

Others(c) == \A d \in Caller \ {c} : req'[d] = req[d] /\ call'[d] = call[d]

\* Request c moves to another place.
LEMMA ReqMoves ==
  ASSUME ReqInv, NEW c \in Caller, NEW r \in Req, req' = [req EXCEPT ![c] = r],
         \A d \in Caller \ {c} : call'[d] = call[d],
         (r.pc = "sign") = (call'[c].pc # "none"),
         r.pc \notin {"idle", "sign"} => r.user \in User,
         r.pc = "upload" => r.kind = "upload",
         r.new # None => r.pc \in {"find", "fill", "write"} /\ r.kind = "upload",
         r.pc \in {"find", "fill", "write"} /\ r.kind = "upload" => r.new # None,
         r.seen # None => r.pc \in {"fill", "write"}
  PROVE  ReqInv' /\ req'[c] = r /\ Others(c)
<1>1. req' \in [Caller -> Req] /\ req'[c] = r /\ Others(c)
  BY DEF ReqInv, Others
<1> QED
  BY <1>1 DEF ReqInv, PlaceInv, Others

\* No store but the caches is written, and no request learns a path that nobody knew.
LEMMA Quiet ==
  ASSUME Inner, UNCHANGED <<row, bucket, media, fresh, tasks>>, astray \subseteq astray',
         \A p \in entry' \ bucket : p \in entry \/ <<"url", p>> \in astray',
         \A u \in User : \A a \in cached'[u] :
           a \in cached[u] \/ a = None \/ (Known(a) /\ \A v \in User : row[v] = a => u = v),
         \A d \in Caller :
           /\ req'[d].new = req[d].new
              \/ (req'[d].new = None /\ <<"object", req[d].new>> \in astray')
           /\ req'[d].seen # None =>
                Known(req'[d].seen) /\ \A v \in User : row[v] = req'[d].seen => req'[d].user = v
  PROVE  PathInv' /\ TraceInv'
<1> USE DEF Inner, PathInv, TraceInv
<1>1. None \notin Path /\ fresh \subseteq Path /\ tasks \subseteq Task
  BY SignedUrlsAssumption DEF StoreTypes
<1>2. \A p \in Path : Known(p)' => Known(p)
  <2> SUFFICES ASSUME NEW p \in Path, Known(p)'
               PROVE  Known(p)
    OBVIOUS
  <2>1. CASE \E u \in User : row[u] = p
    BY <2>1 DEF Known
  <2>2. CASE \E u \in User : p \in cached'[u]
    <3>1. p # None
      BY <1>1
    <3> QED
      BY <2>2, <3>1 DEF Known
  <2>3. CASE \E c \in Caller : req'[c].seen = p
    <3>1. p # None
      BY <1>1
    <3> QED
      BY <2>3, <3>1
  <2>4. CASE \E t \in tasks : t.path = p
    BY <2>4 DEF Known
  <2> QED
    BY <2>1, <2>2, <2>3, <2>4 DEF Known
<1>3. NewInv'
  BY <1>1, <1>2 DEF NewInv
<1>4. FreshInv'
  BY <1>1, <1>2 DEF FreshInv
<1>5. OwnInv'
  <2> SUFFICES ASSUME NEW v \in User, row[v] # None
               PROVE  /\ \A u \in User : row[u] = row[v] \/ row[v] \in cached'[u] => u = v
                      /\ \A c \in Caller : req'[c].seen = row[v] => req'[c].user = v
    BY DEF OwnInv
  <2> QED
    BY DEF OwnInv
<1>6. ReferencedObjectIsKept' /\ RowInv'
  BY DEF ReferencedObjectIsKept, RowInv, Pending
<1>7. \A p \in Path : InHand(p) => InHand(p)' \/ <<"object", p>> \in astray'
  BY <1>1 DEF InHand
<1>8. ObjectInv' /\ OrphansAreExplained'
  BY <1>7 DEF ObjectInv, OrphansAreExplained, Pending, Excused, StoreTypes
<1>9. GoneUrlIsForgotten'
  BY DEF GoneUrlIsForgotten, Pending
<1> QED
  BY <1>3, <1>4, <1>5, <1>6, <1>8, <1>9

\* What UrlInv reads.
LEMMA SameUrl ==
  ASSUME UrlInv, UNCHANGED <<inflight, call>>, entry' \subseteq Path
  PROVE  UrlInv'
BY DEF UrlInv, UrlTypeOK, CallInv, WaitersHaveALoader

\* An empty slot.
LEMMA NoReqFacts ==
  /\ NoReq \in Req /\ NoReq.pc = "idle" /\ NoReq.new = None /\ NoReq.seen = None
  /\ LET s == [NoReq EXCEPT !.pc = "sign"]
     IN  s \in Req /\ s.pc = "sign" /\ s.new = None /\ s.seen = None
BY DEF NoReq, Req, Kind, Avatar

\* Request c is answered, or goes on to sign the URL of an avatar.
LEMMA Replies ==
  ASSUME Inner, NEW c \in Caller, NEW a \in Avatar, req[c].pc # "sign",
         UNCHANGED <<entry, inflight>>,
         \/ Answer(c) /\ UNCHANGED call
         \/ a # None /\ SignFor(c, a)
  PROVE  /\ UrlInv' /\ ReqInv' /\ Others(c)
         /\ req'[c].new = None /\ req'[c].seen = None
<1> USE DEF Inner
<1>1. CASE Answer(c) /\ UNCHANGED call
  BY <1>1, NoReqFacts, ReqMoves, SameUrl DEF Answer, ReqInv, UrlInv, UrlTypeOK
<1>2. CASE a # None /\ SignFor(c, a)
  <2> DEFINE g == [pc |-> "get", path |-> a]
             s == [NoReq EXCEPT !.pc = "sign"]
  <2>1. /\ g \in Call /\ g.pc = "get" /\ g.path \in Path
        /\ call' = [call EXCEPT ![c] = g] /\ req' = [req EXCEPT ![c] = s]
    BY <1>2 DEF Call, Avatar, SignFor, GetSignedUrl
  <2>2. s \in Req /\ s.pc = "sign" /\ s.new = None /\ s.seen = None
    BY NoReqFacts
  <2> HIDE DEF g, s
  <2>3. call[c].pc = "none"
    BY DEF ReqInv
  <2>4. UrlInv' /\ call'[c] = g /\ \A d \in Caller \ {c} : call'[d] = call[d]
    BY <2>1, <2>3, MoveUrl
  <2> QED
    BY <2>1, <2>2, <2>4, ReqMoves
<1> QED
  BY <1>1, <1>2

\* A handler has its row.
LEMMA FoundStep ==
  ASSUME Inner, NEW c \in Caller, NEW a \in Avatar, req[c].pc \in {"find", "fill"},
         Found(c, a), UNCHANGED <<entry, inflight, row, bucket, media, fresh, tasks, astray>>,
         a = None \/ (Known(a) /\ \A v \in User : row[v] = a => req[c].user = v),
         cached' = cached
           \/ (cached' = [cached EXCEPT ![req[c].user] = {a}])
  PROVE  Inner'
<1> USE DEF Inner
<1> DEFINE r == [req[c] EXCEPT !.pc = "write", !.seen = a]
<1>1. /\ req[c] \in Req /\ req[c].user \in User
      /\ req[c].new # None => req[c].kind = "upload"
      /\ req[c].kind = "upload" => req[c].new # None
  BY DEF ReqInv, PlaceInv
<1>2. StoreTypes'
  BY <1>1 DEF StoreTypes
<1>3. \A u \in User : \A b \in cached'[u] :
        b \in cached[u] \/ b = None \/ (Known(b) /\ \A v \in User : row[v] = b => u = v)
  BY <1>1 DEF StoreTypes
<1>4. CASE req[c].kind # "profile"
  <2>1. /\ req' = [req EXCEPT ![c] = r] /\ UNCHANGED call
    BY <1>4 DEF Found
  <2>2. /\ r \in Req /\ r.pc = "write" /\ r.new = req[c].new /\ r.seen = a /\ r.user = req[c].user
        /\ r.kind = req[c].kind
    BY <1>1 DEF Req
  <2> HIDE DEF r
  <2>3. ReqInv' /\ req'[c] = r /\ Others(c)
    <3>1. call[c].pc = "none"
      BY DEF ReqInv
    <3> QED
      BY <1>1, <2>1, <2>2, <3>1, ReqMoves
  <2>4. UrlInv'
    BY <2>1, SameUrl DEF UrlInv, UrlTypeOK
  <2>5. \A d \in Caller :
           /\ req'[d].new = req[d].new
           /\ req'[d].seen # None =>
                Known(req'[d].seen) /\ \A v \in User : row[v] = req'[d].seen => req'[d].user = v
    <3> TAKE d \in Caller
    <3>1. CASE d = c
      BY <2>2, <2>3, <3>1
    <3>2. CASE d # c
      <4>1. req'[d] = req[d]
        BY <2>3, <3>2 DEF Others
      <4> QED
        BY <4>1 DEF PathInv, OwnInv, Known
    <3> QED
      BY <3>1, <3>2
  <2> QED
    BY <1>2, <1>3, <2>3, <2>4, <2>5, Quiet DEF StoreTypes
<1>5. CASE req[c].kind = "profile"
  <2>1. \/ Answer(c) /\ UNCHANGED call
        \/ a # None /\ SignFor(c, a)
    BY <1>5 DEF Found
  <2>2. UrlInv' /\ ReqInv' /\ Others(c) /\ req'[c].new = None /\ req'[c].seen = None
    BY <2>1, Replies
  <2>3. \A d \in Caller :
           /\ req'[d].new = req[d].new
           /\ req'[d].seen # None =>
                Known(req'[d].seen) /\ \A v \in User : row[v] = req'[d].seen => req'[d].user = v
    <3> TAKE d \in Caller
    <3>1. CASE d = c
      BY <1>1, <1>5, <2>2, <3>1
    <3>2. CASE d # c
      <4>1. req'[d] = req[d]
        BY <2>2, <3>2 DEF Others
      <4> QED
        BY <4>1 DEF PathInv, OwnInv, Known
    <3> QED
      BY <3>1, <3>2
  <2> QED
    BY <1>2, <1>3, <2>2, <2>3, Quiet DEF StoreTypes
<1> QED
  BY <1>4, <1>5

\* What the requests of a state tell Quiet when they stay.
LEMMA Known1 ==
  ASSUME Inner, NEW d \in Caller, req[d].seen # None
  PROVE  Known(req[d].seen) /\ \A v \in User : row[v] = req[d].seen => req[d].user = v
BY DEF Inner, PathInv, OwnInv, Known

\* The steps of a handler that write no store.
LEMMA HandlerStep ==
  ASSUME Inner, NEW c \in Caller,
         \/ \E u \in User, k \in Kind : Begin(c, u, k)
         \/ Refuse(c) \/ Find(c) \/ FilterMisses(c) \/ Fill(c) \/ Fail(c)
  PROVE  Inner'
<1> USE DEF Inner
<1>1. ASSUME NEW u \in User, NEW k \in Kind, Begin(c, u, k)
      PROVE  Inner'
  <2> DEFINE r == [NoReq EXCEPT !.kind = k, !.user = u,
                     !.pc = CASE k = "upload" -> "upload" [] k = "rename" -> "write" [] OTHER -> "find"]
  <2>1. /\ req[c].pc = "idle" /\ req' = [req EXCEPT ![c] = r]
        /\ UNCHANGED <<urlVars, row, cached, bucket, media, fresh, tasks, astray>>
    BY <1>1 DEF Begin
  <2>2. /\ r \in Req /\ r.user = u /\ r.kind = k /\ r.new = None /\ r.seen = None
        /\ r.pc = IF k = "upload" THEN "upload" ELSE IF k = "rename" THEN "write" ELSE "find"
    BY DEF NoReq, Req, Kind, Avatar
  <2> HIDE DEF r
  <2>3. ReqInv' /\ req'[c] = r /\ Others(c)
    BY <2>1, <2>2, ReqMoves DEF urlVars, ReqInv
  <2>4. UrlInv' /\ StoreTypes' /\ UNCHANGED entry
    BY <2>1, SameUrl DEF urlVars, StoreTypes, UrlInv, UrlTypeOK
  <2>5. \A d \in Caller : req'[d].new = req[d].new /\ (req'[d].seen # None => req'[d] = req[d])
    BY <2>1, <2>2, <2>3 DEF Others, ReqInv, PlaceInv
  <2> QED
    BY <2>1, <2>4, <2>3, <2>5, Known1, Quiet
<1>2. ASSUME Answer(c), UNCHANGED <<urlVars, row, cached, bucket, media, fresh, tasks>>,
             req[c].pc # "sign", astray \subseteq astray', StoreTypes',
             req[c].new = None \/ <<"object", req[c].new>> \in astray'
      PROVE  Inner'
  <2>1. /\ UrlInv' /\ ReqInv' /\ Others(c) /\ req'[c].new = None /\ req'[c].seen = None
        /\ UNCHANGED entry
    BY <1>2, Replies DEF urlVars, Avatar
  <2>2. \A d \in Caller :
           /\ req'[d].new = req[d].new
              \/ (req'[d].new = None /\ <<"object", req[d].new>> \in astray')
           /\ req'[d].seen # None => req'[d] = req[d]
    BY <1>2, <2>1 DEF Others
  <2> QED
    BY <1>2, <2>1, <2>2, Known1, Quiet
<1>3. ASSUME Refuse(c)
      PROVE  Inner'
  <2>1. req[c].pc = "upload" /\ req[c].new = None
    BY <1>3 DEF Refuse, ReqInv, PlaceInv
  <2> QED
    BY <1>2, <1>3, <2>1 DEF Refuse, StoreTypes
<1>4. ASSUME Fail(c)
      PROVE  Inner'
  <2>1. /\ req[c].pc \in {"find", "write"} /\ req[c].new \in Path \cup {None}
        /\ astray' = astray \cup ({"object"} \X ({req[c].new} \ {None}))
    BY <1>4 DEF Fail, ReqInv, Req, Avatar
  <2>2. StoreTypes'
    BY <1>4, <2>1 DEF Fail, StoreTypes
  <2> QED
    BY <1>2, <1>4, <2>1, <2>2 DEF Fail
<1>5. ASSUME Find(c)
      PROVE  Inner'
  <2>1. req[c].pc = "find" /\ req[c].user \in User
    BY <1>5 DEF Find, ReqInv, PlaceInv
  <2>2. ASSUME NEW a \in cached[req[c].user], Found(c, a)
        PROVE  Inner'
    <3>1. a \in Avatar
      BY <2>1, <2>2 DEF StoreTypes
    <3>2. \A v \in User : a # None /\ row[v] = a => req[c].user = v
      BY <2>1, <2>2 DEF PathInv, OwnInv
    <3>3. Known(a)
      BY <2>1, <2>2 DEF Known
    <3> QED
      BY <1>5, <2>1, <2>2, <3>1, <3>2, <3>3, FoundStep DEF Find
  <2>3. ASSUME req' = [req EXCEPT ![c].pc = "fill", ![c].seen = row[req[c].user]], UNCHANGED call
        PROVE  Inner'
    <3> DEFINE r == [req[c] EXCEPT !.pc = "fill", !.seen = row[req[c].user]]
    <3>1. /\ req[c] \in Req /\ row[req[c].user] \in Avatar
          /\ req[c].new # None <=> req[c].kind = "upload"
      BY <2>1 DEF ReqInv, PlaceInv, StoreTypes
    <3>2. /\ r \in Req /\ r.pc = "fill" /\ r.user = req[c].user /\ r.kind = req[c].kind
          /\ r.new = req[c].new /\ r.seen = row[req[c].user]
      BY <3>1 DEF Req
    <3>3. req' = [req EXCEPT ![c] = r] /\ call[c].pc = "none"
      BY <2>1, <2>3 DEF ReqInv
    <3> HIDE DEF r
    <3>4. ReqInv' /\ req'[c] = r /\ Others(c)
      BY <2>1, <2>3, <3>1, <3>2, <3>3, ReqMoves
    <3>5. /\ UNCHANGED <<entry, inflight, row, cached, bucket, media, fresh, tasks, astray>>
          /\ StoreTypes' /\ UrlInv'
      BY <1>5, <2>3, SameUrl DEF Find, StoreTypes, UrlInv, UrlTypeOK
    <3>6. \A d \in Caller :
            /\ req'[d].new = req[d].new
            /\ req'[d].seen # None =>
                 Known(req'[d].seen) /\ \A v \in User : row[v] = req'[d].seen => req'[d].user = v
      <4> TAKE d \in Caller
      <4>1. CASE d = c
        BY <2>1, <3>2, <3>4, <4>1 DEF PathInv, OwnInv, Known
      <4>2. CASE d # c
        <5>1. req'[d] = req[d]
          BY <3>4, <4>2 DEF Others
        <5> QED
          BY <5>1, Known1
      <4> QED
        BY <4>1, <4>2
    <3> QED
      BY <3>4, <3>5, <3>6, Quiet
  <2> QED
    BY <1>5, <2>2, <2>3 DEF Find
<1>6. ASSUME FilterMisses(c)
      PROVE  Inner'
  BY <1>6, FoundStep DEF FilterMisses, Avatar
<1>7. ASSUME Fill(c)
      PROVE  Inner'
  <2>1. req[c].pc = "fill" /\ req[c].seen \in Avatar
    BY <1>7 DEF Fill, ReqInv, Req
  <2> QED
    BY <1>7, <2>1, FoundStep, Known1 DEF Fill
<1> QED
  BY <1>1, <1>3, <1>4, <1>5, <1>6, <1>7

-----------------------------------------------------------------------------
(* Uploads and updates *)

\* A new object is stored for request c.
LEMMA Stores ==
  ASSUME Inner, NEW c \in Caller, NEW p \in fresh, Others(c),
         fresh' = fresh \ {p}, bucket' = bucket \cup {p}, astray \subseteq astray',
         UNCHANGED <<entry, row, cached, media, tasks>>,
         req[c].new = None, req'[c].seen = None, req'[c].new \in {None, p},
         req'[c].new = p \/ <<"object", p>> \in astray'
  PROVE  PathInv' /\ TraceInv'
<1> USE DEF Inner, PathInv, TraceInv, Others
<1>1. p \in Path /\ p \notin bucket /\ p \notin media /\ p # None /\ None \notin Path
  BY SignedUrlsAssumption DEF StoreTypes
<1>2. \A x \in Path : Known(x)' => Known(x)
  <2> SUFFICES ASSUME NEW x \in Path, Known(x)'
               PROVE  Known(x)
    OBVIOUS
  <2>1. CASE \E d \in Caller : req'[d].seen = x
    <3>1. x # None
      BY <1>1
    <3> QED
      BY <2>1, <3>1 DEF Known
  <2> QED
    BY <2>1 DEF Known
<1>3. ~ Known(p)
  BY DEF FreshInv
<1>4. \A d \in Caller : req[d].new # p
  BY <1>1 DEF NewInv
<1>5. NewInv'
  BY <1>1, <1>2, <1>3, <1>4 DEF NewInv
<1>6. FreshInv'
  BY <1>2 DEF FreshInv, StoreTypes
<1>7. OwnInv'
  BY DEF OwnInv
<1>8. ReferencedObjectIsKept'
  BY DEF ReferencedObjectIsKept, Pending
<1>9. RowInv'
  BY DEF RowInv, Pending
<1>10. \A x \in Path : InHand(x) => InHand(x)'
  BY <1>1 DEF InHand
<1>11. InHand(p)' \/ <<"object", p>> \in astray'
  BY DEF InHand
<1>12. ObjectInv' /\ OrphansAreExplained'
  <2>1. ~ Pending("drop", p)
    BY <1>3 DEF Known, Pending
  <2> QED
    BY <1>10, <1>11, <2>1 DEF ObjectInv, OrphansAreExplained, Excused, Pending, StoreTypes
<1>13. GoneUrlIsForgotten'
  BY DEF GoneUrlIsForgotten, Pending
<1> QED
  BY <1>5, <1>6, <1>7, <1>8, <1>9, <1>12, <1>13

\* The interceptor.
LEMMA UploadStep ==
  ASSUME Inner, NEW c \in Caller, Upload(c) \/ UploadUnanswered(c)
  PROVE  Inner'
<1> USE DEF Inner
<1>1. PICK p \in fresh :
        /\ fresh' = fresh \ {p} /\ bucket' = bucket \cup {p}
        /\ \/ req' = [req EXCEPT ![c].pc = "find", ![c].new = p] /\ UNCHANGED astray
           \/ Answer(c) /\ astray' = astray \cup {<<"object", p>>}
  <2>1. (CHOOSE p \in fresh : TRUE) \in fresh
    BY DEF Upload, UploadUnanswered
  <2> QED
    BY <2>1 DEF Upload, UploadUnanswered
<1>2. /\ req[c].pc = "upload" /\ req[c].user \in User /\ req[c].kind = "upload"
      /\ req[c].new = None /\ req[c].seen = None /\ req[c] \in Req
      /\ UNCHANGED <<urlVars, row, cached, media, tasks>>
  BY DEF Upload, UploadUnanswered, ReqInv, PlaceInv
<1>3. p \in Path /\ p # None
  BY SignedUrlsAssumption DEF StoreTypes
<1>4. StoreTypes'
  BY <1>1, <1>2, <1>3 DEF StoreTypes
<1>5. UrlInv'
  BY <1>2, SameUrl DEF urlVars, UrlInv, UrlTypeOK
<1>6. CASE req' = [req EXCEPT ![c].pc = "find", ![c].new = p] /\ UNCHANGED astray
  <2> DEFINE r == [req[c] EXCEPT !.pc = "find", !.new = p]
  <2>1. /\ r \in Req /\ r.pc = "find" /\ r.new = p /\ r.seen = None
        /\ r.user = req[c].user /\ r.kind = "upload"
    BY <1>2, <1>3 DEF Req, Avatar
  <2>2. req' = [req EXCEPT ![c] = r] /\ call[c].pc = "none" /\ UNCHANGED call
    BY <1>2, <1>6 DEF ReqInv, urlVars
  <2> HIDE DEF r
  <2>3. ReqInv' /\ req'[c] = r /\ Others(c)
    BY <1>2, <1>3, <2>1, <2>2, ReqMoves
  <2> QED
    BY <1>1, <1>2, <1>4, <1>5, <1>6, <2>1, <2>3, Stores DEF urlVars
<1>7. CASE Answer(c) /\ astray' = astray \cup {<<"object", p>>}
  <2>1. ReqInv' /\ Others(c) /\ req'[c].new = None /\ req'[c].seen = None
    BY <1>2, <1>7, Replies DEF urlVars, Avatar
  <2> QED
    BY <1>1, <1>2, <1>4, <1>5, <1>7, <2>1, Stores DEF urlVars
<1> QED
  BY <1>1, <1>6, <1>7

\* userDAO.update and what the handler starts with it.
LEMMA WriteStep ==
  ASSUME Inner, NEW c \in Caller, Write(c)
  PROVE  Inner'
<1> USE DEF Inner
<1> DEFINE u == req[c].user
           k == req[c].kind
           n == req[c].new
           s == req[c].seen
           a == Written(c)
<1>1. /\ req[c].pc = "write" /\ u \in User /\ req[c] \in Req /\ n \in Avatar /\ s \in Avatar
      /\ row[u] \in Avatar /\ None \notin Path
      /\ k = "upload" <=> n # None
      /\ UNCHANGED <<entry, inflight, cached, bucket, media, fresh>>
  BY SignedUrlsAssumption DEF Write, ReqInv, PlaceInv, Req, StoreTypes
<1>2. /\ a \in Avatar /\ (k = "rename" => a = row[u]) /\ (k # "rename" => a = n)
      /\ k = "rename" => n = None
  BY <1>1 DEF Written
<1>3. /\ row' = [row EXCEPT ![u] = a]
      /\ tasks' = tasks \cup Cleanup(c) \cup Record(c)
      /\ astray' = astray \cup ({"object"} \X ({row[u]} \ {None, a, s}))
      /\ \/ Answer(c) /\ UNCHANGED call
         \/ a # None /\ SignFor(c, a)
  BY DEF Write
<1>4. UrlInv' /\ ReqInv' /\ Others(c) /\ req'[c].new = None /\ req'[c].seen = None
  BY <1>1, <1>2, <1>3, Replies
<1>5. \A o, p : [op |-> o, path |-> p] \in tasks' <=>
        \/ Pending(o, p)
        \/ k # "rename" /\ o \in {"delete", "drop"} /\ p = s /\ p # None
        \/ k = "upload" /\ o = "create" /\ p = n
  BY <1>3 DEF Cleanup, Record, Pending
<1>6. \A t \in tasks' : t \in Task /\
        (t \in tasks \/ (k # "rename" /\ t.path = s /\ s # None) \/ (k = "upload" /\ t.path = n))
  <2>1. \A t \in Cleanup(c) : t \in Task /\ k # "rename" /\ t.path = s /\ s # None
    BY <1>1 DEF Cleanup, Task, Avatar
  <2>2. \A t \in Record(c) : t \in Task /\ k = "upload" /\ t.path = n
    BY <1>1 DEF Record, Task, Avatar
  <2> QED
    BY <1>3, <2>1, <2>2 DEF StoreTypes
<1>7. row'[u] = a /\ \A v \in User \ {u} : row'[v] = row[v]
  BY <1>1, <1>3 DEF StoreTypes
<1>8. StoreTypes'
  <2>1. row' \in [User -> Avatar]
    BY <1>1, <1>2, <1>3 DEF StoreTypes
  <2>2. tasks' \subseteq Task
    BY <1>6
  <2>3. astray' \subseteq {"object", "row", "url"} \X Path
    BY <1>1, <1>3 DEF StoreTypes, Avatar
  <2> QED
    BY <1>1, <2>1, <2>2, <2>3 DEF StoreTypes
<1>9. s # None => Known(s) /\ \A v \in User : row[v] = s => u = v
  BY Known1
<1>10. n # None => /\ n \in bucket /\ ~ Known(n) /\ \A d \in Caller \ {c} : req[d].new # n
  BY <1>1 DEF PathInv, NewInv, Avatar
<1> HIDE DEF u, k, n, s, a
<1>11. \A p \in Path : Known(p)' => Known(p) \/ p = n
  <2> SUFFICES ASSUME NEW p \in Path, Known(p)'
               PROVE  Known(p) \/ p = n
    OBVIOUS
  <2>0. p # None
    BY <1>1
  <2>1. CASE \E v \in User : row'[v] = p
    BY <1>1, <1>2, <1>7, <2>1 DEF Known
  <2>2. CASE \E v \in User : p \in cached'[v]
    BY <1>1, <2>2 DEF Known
  <2>3. CASE \E d \in Caller : req'[d].seen = p
    BY <1>4, <2>0, <2>3 DEF Known, Others
  <2>4. CASE \E t \in tasks' : t.path = p
    BY <1>6, <1>9, <2>4 DEF Known
  <2> QED
    BY <2>1, <2>2, <2>3, <2>4 DEF Known
<1> USE DEF PathInv, TraceInv, Others
<1>12. NewInv'
  <2> SUFFICES ASSUME NEW d \in Caller, NEW p \in Path, req'[d].new = p
               PROVE  p \in bucket' /\ ~ Known(p)' /\ \A e \in Caller \ {d} : req'[e].new # p
    BY DEF NewInv
  <2>1. d # c /\ req[d].new = p
    BY <1>1, <1>4
  <2>2. p # n
    BY <1>1, <1>10, <2>1
  <2>3. p \in bucket /\ ~ Known(p) /\ \A e \in Caller \ {d} : req[e].new # p
    BY <2>1 DEF NewInv
  <2> QED
    BY <1>1, <1>4, <1>11, <2>2, <2>3
<1>13. FreshInv'
  BY <1>1, <1>10, <1>11 DEF FreshInv, StoreTypes
<1>14. OwnInv'
  <2> SUFFICES ASSUME NEW v \in User, row'[v] # None
               PROVE  /\ \A w \in User : row'[w] = row'[v] \/ row'[v] \in cached[w] => w = v
                      /\ \A d \in Caller : req'[d].seen = row'[v] => req'[d].user = v
    BY <1>1 DEF OwnInv
  <2>1. CASE k = "rename"
    <3>1. \A w \in User : row'[w] = row[w]
      BY <1>2, <1>7, <2>1
    <3> QED
      BY <1>4, <3>1 DEF OwnInv
  <2>2. CASE k # "rename" /\ v = u
    <3>1. row'[v] = n /\ n # None /\ ~ Known(n)
      BY <1>2, <1>7, <1>10, <2>2
    <3>2. \A w \in User : row'[w] = n => w = v
      BY <1>7, <2>2, <3>1 DEF Known
    <3> QED
      BY <1>4, <3>1, <3>2 DEF Known
  <2>3. CASE k # "rename" /\ v # u
    <3>1. row'[v] = row[v] /\ Known(row[v])
      BY <1>7, <2>3 DEF Known
    <3>2. \A w \in User : row'[w] = row[v] => w = v
      BY <1>2, <1>7, <1>10, <2>3, <3>1 DEF OwnInv
    <3> QED
      BY <1>4, <3>1, <3>2 DEF OwnInv
  <2> QED
    BY <2>1, <2>2, <2>3
<1>15. ReferencedObjectIsKept'
  <2> SUFFICES ASSUME NEW v \in User, row'[v] # None
               PROVE  row'[v] \in bucket /\ [op |-> "delete", path |-> row'[v]] \notin tasks'
    BY <1>1 DEF ReferencedObjectIsKept, Pending
  <2>1. CASE k = "rename"
    <3>1. row'[v] = row[v]
      BY <1>2, <1>7, <2>1
    <3> QED
      BY <1>5, <2>1, <3>1 DEF ReferencedObjectIsKept
  <2>2. CASE k # "rename" /\ v = u
    <3>1. row'[v] = n /\ n # None /\ ~ Known(n) /\ n \in bucket
      BY <1>2, <1>7, <1>10, <2>2
    <3>2. ~ Pending("delete", n) /\ n # s
      BY <1>9, <3>1 DEF Known, Pending
    <3> QED
      BY <1>5, <3>1, <3>2
  <2>3. CASE k # "rename" /\ v # u
    <3>1. row'[v] = row[v] /\ row[v] # s
      BY <1>7, <1>9, <2>3
    <3> QED
      BY <1>5, <3>1 DEF ReferencedObjectIsKept
  <2> QED
    BY <2>1, <2>2, <2>3
<1>16. RowInv'
  BY <1>1, <1>3, <1>5 DEF RowInv, Pending
<1>17. \A p \in Path : InHand(p) => InHand(p)' \/ (p = n /\ k = "upload")
  BY <1>1, <1>4 DEF InHand, n
<1>18. ObjectInv'
  <2> SUFFICES ASSUME NEW p \in bucket
               PROVE  /\ p \notin media =>
                           \/ InHand(p)' \/ [op |-> "create", path |-> p] \in tasks'
                           \/ [op |-> "delete", path |-> p] \in tasks' \/ Excused(p)'
                      /\ [op |-> "drop", path |-> p] \in tasks' =>
                           [op |-> "delete", path |-> p] \in tasks' \/ Excused(p)'
    BY <1>1 DEF ObjectInv, Pending
  <2>1. p \in Path /\ p # None
    BY <1>1 DEF StoreTypes
  <2>2. Excused(p) => Excused(p)'
    BY <1>3 DEF Excused
  <2> QED
    BY <1>5, <1>17, <2>1, <2>2 DEF ObjectInv
<1>19. OrphansAreExplained'
  <2> SUFFICES ASSUME NEW p \in bucket
               PROVE  \/ \E v \in User : row'[v] = p
                      \/ InHand(p)' \/ [op |-> "delete", path |-> p] \in tasks'
                      \/ <<"object", p>> \in astray'
    BY <1>1 DEF OrphansAreExplained, Pending
  <2>1. p \in Path /\ p # None
    BY <1>1 DEF StoreTypes
  <2>2. ASSUME NEW v \in User, row[v] = p
        PROVE  \/ \E w \in User : row'[w] = p
               \/ [op |-> "delete", path |-> p] \in tasks' \/ <<"object", p>> \in astray'
    <3>1. CASE v # u \/ p = a
      BY <1>1, <1>7, <2>2, <3>1
    <3>2. CASE v = u /\ p # a /\ p # s
      BY <1>3, <2>1, <2>2, <3>2
    <3>3. CASE v = u /\ p # a /\ p = s
      BY <1>2, <1>5, <2>1, <2>2, <3>3
    <3> QED
      BY <3>1, <3>2, <3>3
  <2>3. ASSUME InHand(p)
        PROVE  InHand(p)' \/ \E w \in User : row'[w] = p
    BY <1>1, <1>2, <1>7, <1>17, <2>1, <2>3
  <2> QED
    BY <1>3, <1>5, <2>2, <2>3 DEF OrphansAreExplained
<1>20. GoneUrlIsForgotten'
  BY <1>1, <1>3, <1>5 DEF GoneUrlIsForgotten, Pending
<1> QED
  BY <1>4, <1>8, <1>12, <1>13, <1>14, <1>15, <1>16, <1>18, <1>19, <1>20

-----------------------------------------------------------------------------
(* Signing, and what runs by itself *)

\* A step of getOrSet, and the answers it gives.
LEMMA SignStep ==
  ASSUME Inner, NEW c \in Caller, Sign(c) \/ SignFault(c)
  PROVE  Inner'
<1> USE DEF Inner
<1>1. UrlInv' /\ \A d \in Caller : call'[d] = call[d] \/ Goes(d)
  BY CallUrl DEF Sign, SignFault
<1>2. /\ UNCHANGED <<row, cached, bucket, media, fresh, tasks>>
      /\ \A d \in Caller : IF req[d].pc = "sign" /\ call'[d] = NoCall
                           THEN req'[d] = NoReq ELSE req'[d] = req[d]
      /\ req' = [d \in Caller |-> req'[d]]
  BY DEF Sign, SignFault, Answered
<1>3. /\ astray \subseteq astray' /\ astray' \subseteq {"object", "row", "url"} \X Path
      /\ \A p \in entry' \ bucket : p \in entry \/ <<"url", p>> \in astray'
  <2>1. CASE Sign(c)
    <3>1. entry' \subseteq Path
      BY <1>1 DEF UrlInv, UrlTypeOK
    <3> QED
      BY <2>1, <3>1 DEF Sign, StoreTypes
  <2>2. CASE SignFault(c)
    BY <2>2 DEF SignFault, CallFault, LookupFails, LoadFails, StoreFails, StoreTypes
  <2> QED
    BY <2>1, <2>2
<1>4. ReqInv'
  <2>1. \A d \in Caller : req'[d] \in Req
    BY <1>2, NoReqFacts DEF ReqInv
  <2>2. \A d \in Caller : (req'[d].pc = "sign") = (call'[d].pc # "none")
    BY <1>1, <1>2, NoReqFacts, NoCallFacts DEF ReqInv, Goes
  <2>3. PlaceInv'
    BY <1>2, NoReqFacts DEF ReqInv, PlaceInv
  <2> QED
    BY <1>2, <2>1, <2>2, <2>3 DEF ReqInv
<1>5. \A d \in Caller :
        /\ req'[d].new = req[d].new
        /\ req'[d].seen # None => req'[d] = req[d]
  BY <1>2, NoReqFacts DEF ReqInv, PlaceInv
<1> QED
  BY <1>1, <1>2, <1>3, <1>4, <1>5, Known1, Quiet DEF StoreTypes

\* The TTLs, and the eviction of a row.
LEMMA ExpiryStep ==
  ASSUME Inner, (\E u \in User : Evict(u)) \/ (\E p \in Path : UrlTtlEnds(p))
  PROVE  Inner'
<1> USE DEF Inner
<1>1. /\ UNCHANGED <<inflight, call, row, bucket, media, fresh, req, tasks, astray>>
      /\ entry' \subseteq entry
      /\ \A u \in User : cached'[u] \subseteq cached[u]
      /\ cached' \in [User -> {{}} \cup {{a} : a \in Avatar}]
  BY DEF Evict, UrlTtlEnds, UrlExpires, Invalidate, urlVars, mediaVars, StoreTypes
<1>2. UrlInv' /\ StoreTypes' /\ ReqInv'
  BY <1>1, SameUrl DEF UrlInv, UrlTypeOK, StoreTypes, ReqInv, PlaceInv
<1> QED
  BY <1>1, <1>2, Known1, Quiet

\* Tasks run or fail: they touch what they are about, and start none about another path.
LEMMA Runs ==
  ASSUME Inner, UNCHANGED <<row, cached, fresh, req>>, bucket' \subseteq bucket,
         \A t \in tasks' : \E s \in tasks : s.path = t.path,
         \A p \in bucket \ bucket' : Pending("delete", p),
         \A p : Pending("delete", p)' => Pending("delete", p)
  PROVE  PathInv'
<1> USE DEF Inner, PathInv
<1>1. \A p \in Path : Known(p)' => Known(p)
  BY DEF Known
<1>2. \A p \in Path : Pending("delete", p) => Known(p)
  BY DEF Pending, Known
<1>3. NewInv'
  BY <1>1, <1>2 DEF NewInv
<1>4. FreshInv' /\ OwnInv'
  BY <1>1 DEF FreshInv, OwnInv, StoreTypes
<1>5. ReferencedObjectIsKept'
  <2>1. \A u \in User : row[u] # None =>
          row[u] \in bucket /\ [op |-> "delete", path |-> row[u]] \notin tasks
    BY DEF ReferencedObjectIsKept, Pending
  <2>2. \A p \in bucket : [op |-> "delete", path |-> p] \notin tasks =>
          p \in bucket' /\ [op |-> "delete", path |-> p] \notin tasks'
    BY DEF Pending
  <2> QED
    BY <2>1, <2>2 DEF ReferencedObjectIsKept, Pending
<1> QED
  BY <1>3, <1>4, <1>5

\* A task that succeeds.
LEMMA TaskStep ==
  ASSUME Inner, RunTask
  PROVE  Inner'
<1> USE DEF Inner
<1>0. UNCHANGED <<inflight, call, row, cached, fresh, req>>
  BY DEF RunTask
<1>1. ASSUME NEW p \in Path, CreateRow(p)
      PROVE  Inner'
  <2>1. /\ \A o, x : [op |-> o, path |-> x] \in tasks' <=> Pending(o, x) /\ ~ (o = "create" /\ x = p)
        /\ tasks' \subseteq tasks /\ Pending("create", p)
        /\ media' = media \cup {p} /\ UNCHANGED <<entry, bucket>>
    BY <1>1 DEF CreateRow, Pending
  <2>2. astray' = IF p \in bucket /\ (Pending("delete", p) => Pending("drop", p))
                  THEN astray ELSE astray \cup {<<"row", p>>}
    BY <1>1 DEF CreateRow
  <2>3. p \notin fresh
    BY <2>1 DEF PathInv, FreshInv, Known, Pending
  <2>4. StoreTypes' /\ UrlInv' /\ ReqInv'
    BY <1>0, <2>1, <2>2, <2>3, SameUrl DEF StoreTypes, UrlInv, UrlTypeOK, ReqInv, PlaceInv
  <2>5. PathInv'
    BY <1>0, <2>1, Runs DEF Pending
  <2> USE DEF TraceInv
  <2>6. RowInv'
    BY <2>1, <2>2 DEF RowInv, Pending
  <2>7. ObjectInv'
    BY <1>0, <2>1, <2>2 DEF ObjectInv, Pending, Excused, InHand
  <2>8. OrphansAreExplained' /\ GoneUrlIsForgotten'
    BY <1>0, <2>1, <2>2 DEF OrphansAreExplained, GoneUrlIsForgotten, Pending, InHand
  <2> QED
    BY <2>4, <2>5, <2>6, <2>7, <2>8
<1>2. ASSUME NEW p \in Path, DropRow(p)
      PROVE  Inner'
  <2>1. /\ \A o, x : [op |-> o, path |-> x] \in tasks' <=> Pending(o, x) /\ ~ (o = "drop" /\ x = p)
        /\ tasks' \subseteq tasks /\ Pending("drop", p)
        /\ media' = media \ {p} /\ UNCHANGED <<entry, bucket, astray>>
    BY <1>2 DEF DropRow, Pending
  <2>2. StoreTypes' /\ UrlInv' /\ ReqInv'
    BY <1>0, <2>1, SameUrl DEF StoreTypes, UrlInv, UrlTypeOK, ReqInv, PlaceInv
  <2>3. PathInv'
    BY <1>0, <2>1, Runs DEF Pending
  <2> USE DEF TraceInv
  <2>4. RowInv'
    BY <2>1 DEF RowInv, Pending
  <2>5. ObjectInv'
    BY <1>0, <2>1 DEF ObjectInv, Pending, Excused, InHand
  <2>6. OrphansAreExplained' /\ GoneUrlIsForgotten'
    BY <1>0, <2>1 DEF OrphansAreExplained, GoneUrlIsForgotten, Pending, InHand
  <2> QED
    BY <2>2, <2>3, <2>4, <2>5, <2>6
<1>3. ASSUME NEW p \in Path, DeleteObject(p)
      PROVE  Inner'
  <2>1. /\ \A o, x : [op |-> o, path |-> x] \in tasks' <=>
             (Pending(o, x) /\ ~ (o = "delete" /\ x = p)) \/ (o = "forget" /\ x = p)
        /\ \A t \in tasks' : t \in Task /\ (t \in tasks \/ t.path = p)
        /\ Pending("delete", p)
        /\ bucket' = bucket \ {p} /\ UNCHANGED <<entry, media, astray>>
    BY <1>3 DEF DeleteObject, Pending, StoreTypes, Task
  <2>2. [op |-> "delete", path |-> p] \in tasks /\ [op |-> "delete", path |-> p].path = p
    BY <2>1 DEF Pending
  <2>3. StoreTypes' /\ UrlInv' /\ ReqInv'
    BY <1>0, <2>1, SameUrl DEF StoreTypes, UrlInv, UrlTypeOK, ReqInv, PlaceInv
  <2>4. PathInv'
    BY <1>0, <2>1, <2>2, Runs DEF Pending
  <2> USE DEF TraceInv
  <2>5. RowInv'
    BY <2>1 DEF RowInv, Pending
  <2>6. ObjectInv'
    BY <1>0, <2>1 DEF ObjectInv, Pending, Excused, InHand
  <2>7. OrphansAreExplained' /\ GoneUrlIsForgotten'
    BY <1>0, <2>1 DEF OrphansAreExplained, GoneUrlIsForgotten, Pending, InHand
  <2> QED
    BY <2>3, <2>4, <2>5, <2>6, <2>7
<1>4. ASSUME NEW p \in Path, DeleteAgain(p)
      PROVE  Inner'
  <2>1. /\ \A o, x : [op |-> o, path |-> x] \in tasks' <=> Pending(o, x) /\ ~ (o = "delete" /\ x = p)
        /\ tasks' \subseteq tasks /\ p \notin bucket
        /\ UNCHANGED <<entry, bucket, media, astray>>
    BY <1>4 DEF DeleteAgain, Pending
  <2>2. StoreTypes' /\ UrlInv' /\ ReqInv'
    BY <1>0, <2>1, SameUrl DEF StoreTypes, UrlInv, UrlTypeOK, ReqInv, PlaceInv
  <2>3. PathInv'
    BY <1>0, <2>1, Runs DEF Pending
  <2> USE DEF TraceInv
  <2>4. RowInv'
    BY <2>1 DEF RowInv, Pending
  <2>5. ObjectInv'
    BY <1>0, <2>1 DEF ObjectInv, Pending, Excused, InHand
  <2>6. OrphansAreExplained' /\ GoneUrlIsForgotten'
    BY <1>0, <2>1 DEF OrphansAreExplained, GoneUrlIsForgotten, Pending, InHand
  <2> QED
    BY <2>2, <2>3, <2>4, <2>5, <2>6
<1>5. ASSUME NEW p \in Path, ForgetUrl(p)
      PROVE  Inner'
  <2>1. /\ \A o, x : [op |-> o, path |-> x] \in tasks' <=> Pending(o, x) /\ ~ (o = "forget" /\ x = p)
        /\ tasks' \subseteq tasks /\ entry' = entry \ {p}
        /\ UNCHANGED <<bucket, media, astray>>
    BY <1>5 DEF ForgetUrl, Pending, Invalidate
  <2>2. StoreTypes' /\ UrlInv' /\ ReqInv'
    BY <1>0, <2>1, SameUrl DEF StoreTypes, UrlInv, UrlTypeOK, ReqInv, PlaceInv
  <2>3. PathInv'
    BY <1>0, <2>1, Runs DEF Pending
  <2> USE DEF TraceInv
  <2>4. RowInv'
    BY <2>1 DEF RowInv, Pending
  <2>5. ObjectInv'
    BY <1>0, <2>1 DEF ObjectInv, Pending, Excused, InHand
  <2>6. OrphansAreExplained' /\ GoneUrlIsForgotten'
    BY <1>0, <2>1 DEF OrphansAreExplained, GoneUrlIsForgotten, Pending, InHand
  <2> QED
    BY <2>2, <2>3, <2>4, <2>5, <2>6
<1> QED
  BY <1>1, <1>2, <1>3, <1>4, <1>5 DEF RunTask

\* A task that fails.
LEMMA FailTaskStep ==
  ASSUME Inner, NEW t \in tasks, FailTask(t)
  PROVE  Inner'
<1> USE DEF Inner
<1> DEFINE p == t.path
<1>1. /\ t \in Task /\ p \in Path /\ t.op \in {"create", "drop", "delete", "forget"}
      /\ t = [op |-> t.op, path |-> p] /\ Pending(t.op, p)
  BY DEF StoreTypes, Task, Pending
<1>2. /\ tasks' = tasks \ {t}
      /\ bucket' = bucket \/ (t.op = "delete" /\ bucket' = bucket \ {p})
      /\ UNCHANGED <<urlVars, row, cached, media, fresh, req>>
      /\ astray' = astray \cup
           ((IF t.op = "delete" THEN {"object", "row", "url"}
             ELSE IF t.op = "forget" THEN {"url"} ELSE {"row"}) \X {p})
  BY <1>1 DEF FailTask
<1>3. \A o, x : [op |-> o, path |-> x] \in tasks' <=> Pending(o, x) /\ ~ (o = t.op /\ x = p)
  BY <1>1, <1>2 DEF Pending
<1>4. /\ astray \subseteq astray'
      /\ t.op = "delete" => {<<"object", p>>, <<"row", p>>, <<"url", p>>} \subseteq astray'
      /\ t.op = "forget" => <<"url", p>> \in astray'
      /\ t.op \in {"create", "drop"} => <<"row", p>> \in astray'
  BY <1>2
<1>5. StoreTypes'
  BY <1>1, <1>2 DEF StoreTypes
<1>6. UrlInv' /\ ReqInv'
  BY <1>2, SameUrl DEF urlVars, UrlInv, UrlTypeOK, ReqInv, PlaceInv
<1>7. PathInv'
  BY <1>1, <1>2, <1>3, Runs DEF Pending
<1> HIDE DEF p
<1> USE DEF TraceInv
<1>8. RowInv'
  BY <1>1, <1>2, <1>3, <1>4 DEF RowInv, Pending
<1>9. ObjectInv'
  BY <1>1, <1>2, <1>3, <1>4 DEF ObjectInv, Pending, Excused, InHand
<1>10. OrphansAreExplained'
  BY <1>1, <1>2, <1>3, <1>4 DEF OrphansAreExplained, Pending, InHand
<1>11. GoneUrlIsForgotten'
  BY <1>1, <1>2, <1>3, <1>4 DEF GoneUrlIsForgotten, Pending, urlVars
<1> QED
  BY <1>5, <1>6, <1>7, <1>8, <1>9, <1>10, <1>11

\* The process dies.
LEMMA CrashStep ==
  ASSUME Inner, Crash
  PROVE  Inner'
<1> USE DEF Inner
<1>1. /\ tasks' = {} /\ req' = [c \in Caller |-> NoReq]
      /\ UNCHANGED <<entry, row, cached, bucket, media, fresh>>
      /\ astray' = astray \cup ({"object"} \X {p \in Path : InHand(p) \/ Pending("delete", p)})
                          \cup ({"row", "url"} \X {t.path : t \in tasks})
  BY DEF Crash, UrlCrash
<1>2. UrlInv' /\ \A c \in Caller : call'[c].pc = "none"
  BY CrashUrl DEF Crash
<1>3. /\ req' \in [Caller -> Req]
      /\ \A c \in Caller : req'[c].pc = "idle" /\ req'[c].new = None /\ req'[c].seen = None
  BY <1>1, NoReqFacts
<1>4. ReqInv'
  BY <1>2, <1>3 DEF ReqInv, PlaceInv
<1>5. StoreTypes'
  BY <1>1 DEF StoreTypes, Task
<1>6. /\ astray \subseteq astray'
      /\ \A p \in Path : InHand(p) \/ Pending("delete", p) => <<"object", p>> \in astray'
      /\ \A o, p : Pending(o, p) => <<"row", p>> \in astray' /\ <<"url", p>> \in astray'
  <2>1. ASSUME NEW o, NEW p, Pending(o, p)
        PROVE  p \in {t.path : t \in tasks}
    <3>1. [op |-> o, path |-> p].path = p /\ [op |-> o, path |-> p] \in tasks
      BY <2>1 DEF Pending
    <3> QED
      BY <3>1
  <2>2. \A p \in {t.path : t \in tasks} : <<"row", p>> \in astray' /\ <<"url", p>> \in astray'
    BY <1>1
  <2>3. \A p \in Path : InHand(p) \/ Pending("delete", p) => <<"object", p>> \in astray'
    BY <1>1
  <2> QED
    BY <1>1, <2>1, <2>2, <2>3
<1>7. None \notin Path
  BY SignedUrlsAssumption
<1>8. PathInv'
  <2>1. \A p \in Path : Known(p)' => Known(p)
    BY <1>1, <1>3, <1>7 DEF Known
  <2>2. NewInv'
    BY <1>3, <1>7 DEF NewInv
  <2>3. FreshInv'
    BY <1>1, <2>1 DEF PathInv, FreshInv, StoreTypes
  <2>4. OwnInv' /\ ReferencedObjectIsKept'
    BY <1>1, <1>3 DEF PathInv, OwnInv, ReferencedObjectIsKept, Pending
  <2> QED
    BY <2>2, <2>3, <2>4 DEF PathInv
<1> USE DEF TraceInv
<1>9. RowInv'
  BY <1>1, <1>6 DEF RowInv, Pending, StoreTypes
<1>10. ObjectInv'
  BY <1>1, <1>6 DEF ObjectInv, Pending, Excused, StoreTypes
<1>11. OrphansAreExplained'
  BY <1>1, <1>6 DEF OrphansAreExplained, StoreTypes
<1>12. GoneUrlIsForgotten'
  BY <1>1, <1>6 DEF GoneUrlIsForgotten
<1> QED
  BY <1>2, <1>4, <1>5, <1>8, <1>9, <1>10, <1>11, <1>12

-----------------------------------------------------------------------------
(* The theorems *)

\* The invariant holds at the start.
LEMMA Start == Init => IInv
<1> SUFFICES ASSUME Init
             PROVE  IInv
  OBVIOUS
<1>1. UrlInv
  BY NoCallFacts DEF Init, UrlInit, UrlInv, UrlTypeOK, CallInv, WaitersHaveALoader
<1>2. /\ req \in [Caller -> Req]
      /\ \A c \in Caller : req[c].pc = "idle" /\ req[c].new = None /\ req[c].seen = None
      /\ \A c \in Caller : call[c].pc = "none"
  BY NoReqFacts, NoCallFacts DEF Init, UrlInit
<1>3. ReqInv
  BY <1>2 DEF ReqInv, PlaceInv
<1>4. /\ row \in [User -> Avatar] /\ bucket = Path \cap {row[u] : u \in User}
      /\ \A u, v \in User : row[u] = row[v] /\ row[u] # None => u = v
      /\ fresh = Path \ bucket /\ media = bucket /\ tasks = {} /\ astray = {} /\ entry = {}
      /\ cached = [u \in User |-> {}]
  BY MediaAssumption DEF Init, UrlInit, Avatar, Range
<1>5. StoreTypes
  BY <1>4 DEF StoreTypes
<1>6. None \notin Path
  BY SignedUrlsAssumption
<1>7. \A p \in Path : Known(p) => \E u \in User : row[u] = p
  BY <1>2, <1>4, <1>6 DEF Known
<1>8. PathInv
  <2>1. NewInv
    BY <1>2, <1>6 DEF NewInv
  <2>2. FreshInv
    BY <1>4, <1>7 DEF FreshInv
  <2>3. OwnInv
    BY <1>2, <1>4 DEF OwnInv
  <2>4. ReferencedObjectIsKept
    BY <1>4 DEF ReferencedObjectIsKept, Pending, Avatar
  <2> QED
    BY <2>1, <2>2, <2>3, <2>4 DEF PathInv
<1>9. TraceInv
  BY <1>4 DEF TraceInv, RowInv, ObjectInv, OrphansAreExplained, GoneUrlIsForgotten, Pending
<1>10. Counters
  BY MediaAssumption DEF Init, Counters
<1> QED
  BY <1>1, <1>3, <1>5, <1>8, <1>9, <1>10 DEF IInv, Inner

\* Every step keeps it.
LEMMA NextStep ==
  ASSUME IInv, [Next]_vars
  PROVE  IInv'
<1> USE DEF IInv
<1>1. Counters'
  BY MediaAssumption DEF Next, vars, Counters
<1>2. CASE UNCHANGED vars
  <2>1. UNCHANGED <<entry, inflight, call, row, cached, bucket, media, fresh, req, tasks, astray>>
    BY <1>2 DEF vars, urlVars, mediaVars
  <2>2. UrlInv' /\ StoreTypes' /\ ReqInv'
    BY <2>1, SameUrl DEF Inner, UrlInv, UrlTypeOK, StoreTypes, ReqInv, PlaceInv
  <2>3. PathInv' /\ TraceInv'
    BY <2>1, Known1, Quiet
  <2> QED
    BY <1>1, <2>2, <2>3 DEF Inner
<1>3. CASE \E c \in Caller, u \in User, k \in Kind : Begin(c, u, k)
  BY <1>1, <1>3, HandlerStep
<1>4. CASE \E c \in Caller : Step(c)
  BY <1>1, <1>4, HandlerStep, UploadStep, WriteStep, SignStep DEF Step
<1>5. CASE \/ \E u \in User : Evict(u)
           \/ \E p \in Path : UrlTtlEnds(p)
  BY <1>1, <1>5, ExpiryStep
<1>6. CASE RunTask
  BY <1>1, <1>6, TaskStep
<1>7. CASE Fault
  BY <1>1, <1>7, UploadStep, HandlerStep, SignStep, FailTaskStep, CrashStep DEF Fault
<1> QED
  BY <1>2, <1>3, <1>4, <1>5, <1>6, <1>7 DEF Next

\* The invariant.
LEMMA Invariant == Spec => []IInv
BY Start, NextStep, PTL DEF Spec

\* Type correctness.
THEOREM TypeCorrect == Spec => []TypeOK
<1>1. IInv => TypeOK
  BY DEF IInv, Inner, UrlInv, StoreTypes, ReqInv, Counters, TypeOK
<1> QED
  BY <1>1, Invariant, PTL

\* No interleaving of uploads and removals, no stale row, fault or crash takes the object of
\* an avatar away.
THEOREM AvatarIsKept == Spec => []ReferencedObjectIsKept
<1>1. IInv => ReferencedObjectIsKept
  BY DEF IInv, Inner, PathInv
<1> QED
  BY <1>1, Invariant, PTL

\* An object that nobody refers to is on its way out, or there is a reason.
THEOREM OrphansExplained == Spec => []OrphansAreExplained
<1>1. IInv => OrphansAreExplained
  BY DEF IInv, Inner, TraceInv
<1> QED
  BY <1>1, Invariant, PTL

\* The Media table is the list of the objects, once nothing is under way.
THEOREM TableMirrors == Spec => []MediaMirrorsBucket
<1>1. IInv => MediaMirrorsBucket
  <2> SUFFICES ASSUME IInv, NEW p \in Path, ~ (p \in media <=> p \in bucket)
               PROVE  \/ InHand(p) \/ \E t \in tasks : t.path = p
                      \/ <<"object", p>> \in astray \/ <<"row", p>> \in astray
    BY DEF MediaMirrorsBucket
  <2>1. \A o : Pending(o, p) => \E t \in tasks : t.path = p
    BY DEF Pending
  <2> QED
    BY <2>1 DEF IInv, Inner, TraceInv, RowInv, ObjectInv, Excused
<1> QED
  BY <1>1, Invariant, PTL

\* A URL outlives its object only until it is forgotten.
THEOREM GoneUrl == Spec => []GoneUrlIsForgotten
<1>1. IInv => GoneUrlIsForgotten
  BY DEF IInv, Inner, TraceInv
<1> QED
  BY <1>1, Invariant, PTL

\* Nobody waits for a loader that is gone.
THEOREM NoLostWaiter == Spec => []WaitersHaveALoader
<1>1. IInv => WaitersHaveALoader
  BY DEF IInv, Inner, UrlInv
<1> QED
  BY <1>1, Invariant, PTL
=============================================================================
