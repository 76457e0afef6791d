----------------------------- MODULE MCThrottle -----------------------------
(* Small instances of Throttle for TLC; its clients are requests of ThrottleRoutes. *)
EXTENDS Throttle, ThrottleRoutes

\* Addresses of four bits: the proxies are 8..11, the clients are not trusted.
Proxies == {[range |-> 8, bits |-> 2]}

Request(e, f) ==
  [socket |-> 1, cf |-> Nobody, realIp |-> Nobody, xff |-> f,
   ua |-> "ua", device |-> Nobody, email |-> e, user |-> "u", origin |-> 1]

\* No guard that counts users runs before JwtAuthGuard: nobody is counted as 'anon'.
ASSUME UsersAreKnown ==
  LET q == Request([box |-> "a@x", form |-> "lower"], Nobody)
  IN  \A r \in AllRoutes : \A k \in Range(LayerKeys(r, q)) : k[3] # "anon"

\* Somebody logs in to one mailbox, directly or through a proxy, with the address spelled
\* in another way, and forges a header both times; the e-mail has a longer window.
Plain == Request([box |-> "a@x", form |-> "lower"], 3)
Other == [Request([box |-> "a@x", form |-> "upper"], 2) EXCEPT !.socket = 9, !.cf = 1]
Sends == <<Plain, Other>>
LoginClients == {1, 2}

Login == CHOOSE r \in SignUpRoutes : r.path = "login"
LoginLayers == <<LayerKeys(Login, Plain), LayerKeys(Login, Other)>>
LoginKeys == Range(LoginLayers[1]) \cup Range(LoginLayers[2])
LoginIdentity ==
  [k \in LoginKeys |-> {<<k[1], k[2], Who(k, Sends[c])>> :
                          c \in {d \in LoginClients : k \in Range(LoginLayers[d])}}]
LoginLimit == [k \in LoginKeys |-> 1]
LoginWindow == [k \in LoginKeys |-> IF k[2] = "email" THEN 2 ELSE 1]
LoginBlock == [k \in LoginKeys |-> IF k[2] = "email" THEN 1 ELSE 2]

\* One client of refresh-token, whose limit is above the threshold; a tick is its window.
Refresh == CHOOSE r \in SessionRoutes : r.path = "refresh-token"
RefreshLayers == <<LayerKeys(Refresh, Request(Nobody, Nobody))>>
RefreshKeys == Range(RefreshLayers[1])
RefreshIdentity == [k \in RefreshKeys |-> {k}]
RefreshLimit == [k \in RefreshKeys |-> REFRESH_TOKEN.limit]
RefreshWindow == [k \in RefreshKeys |-> 1]
RefreshBlock == [k \in RefreshKeys |-> REFRESH_TOKEN.block \div REFRESH_TOKEN.ttl]
RefreshCount == REFRESH_TOKEN.limit + 1
=============================================================================
