--------------------------- MODULE ThrottleRoutes ---------------------------
(***************************************************************************)
(* What the guards of a route make of a request: the throttle layers they  *)
(* build and the key of every layer, <<counter, signal, identifier>>.  The *)
(* guards of a class run before those of the method; only JwtAuthGuard     *)
(* tells a later guard who the user is.                                    *)
(***************************************************************************)
EXTENDS Naturals, Sequences, SequencesExt

CONSTANTS
  Width,    \* bits of an address
  Trusted,  \* TRUSTED_PROXIES: [range, bits]
  Nobody    \* an absent header, e-mail or device id

(***************************************************************************)
(* A request has the fields                                                *)
(*   socket                address of the peer                             *)
(*   cf, realIp, xff       forwarding headers: an address, or Nobody       *)
(*   ua, device            user agent, device id or Nobody                 *)
(*   email                 [box, form] or Nobody; every form of a box is   *)
(*                         the same string once lower-cased and trimmed    *)
(*   user                  the user whose access token it carries          *)
(*   origin                where it really comes from; no code reads this  *)
(***************************************************************************)
Headers(q) == <<q.cf, q.realIp, q.xff>>

\* The mask of a range keeps the leading bits; of no bits, it keeps nothing.
InCidr(ip, c) == ip \div 2^(Width - c.bits) = c.range \div 2^(Width - c.bits)

TrustedProxy(ip) == \E c \in Trusted : InCidr(ip, c)

\* resolveClientIp: the first forwarding header that is there, if the peer is trusted.
ClientIp(q) ==
  LET given == SelectSeq(Headers(q), LAMBDA h : h # Nobody)
  IN  IF TrustedProxy(q.socket) /\ given # <<>> THEN Head(given) ELSE q.socket

HybridIpKey(q) == <<ClientIp(q), q.ua, q.device>>

-----------------------------------------------------------------------------
(* The layers *)

\* PROGRESSIVE_BACKOFF: hits that bring the hard block, and its seconds by default.
BLOCK_THRESHOLD == 10
BLOCK_DURATION_SECS == 900

\* A sliding window, in hits and seconds, and how long its hard block lasts.
Windowed(prefix, limit, ttl, block) ==
  [prefix |-> prefix, limit |-> limit, ttl |-> ttl, block |-> block]

LOGIN == Windowed("login:ip", 5, 300, 900)
LOGIN_EMAIL == Windowed("login:email", 10, 600, BLOCK_DURATION_SECS)
REGISTER == Windowed("register:ip", 3, 3600, 86400)
REGISTER_EMAIL == Windowed("register:email", 3, 86400, BLOCK_DURATION_SECS)
RESEND_VERIFICATION_EMAIL == Windowed("resend-verif:ip", 3, 3600, BLOCK_DURATION_SECS)
RESEND_VERIFICATION_EMAIL_IDENTITY == Windowed("resend-verif:email", 3, 3600, BLOCK_DURATION_SECS)
FORGOT_PASSWORD == Windowed("forgot-pw:ip", 3, 300, 900)
FORGOT_PASSWORD_EMAIL == Windowed("forgot-pw:email", 5, 600, BLOCK_DURATION_SECS)
VERIFY_OTP == Windowed("verify-otp:ip", 5, 300, 900)
VERIFY_OTP_EMAIL == Windowed("verify-otp:email", 8, 300, BLOCK_DURATION_SECS)
RESET_PASSWORD == Windowed("reset-pw:ip", 5, 300, 900)
RESET_PASSWORD_EMAIL == Windowed("reset-pw:email", 8, 300, BLOCK_DURATION_SECS)
CHANGE_PASSWORD == Windowed("change-pw:user", 3, 3600, BLOCK_DURATION_SECS)
REFRESH_TOKEN == Windowed("refresh-token:ip", 30, 300, 900)
CHANGE_EMAIL == Windowed("change-email:user", 3, 3600, BLOCK_DURATION_SECS)
AUTHENTICATED_USER == Windowed("auth-user", 100, 60, BLOCK_DURATION_SECS)
PROFILE_WRITE == Windowed("profile:write:user", 20, 3600, BLOCK_DURATION_SECS)
PROFILE_AVATAR == Windowed("profile:avatar:user", 10, 3600, BLOCK_DURATION_SECS)

\* Mutant of Email: the address as the client wrote it.
EmailVerbatim(q) == <<q.email.box, q.email.form>>

\* email.toLowerCase().trim()
Email(q) == <<q.email.box>>

\* request.user?.id ?? 'anon': which is truthy, so that the layer is always built.
UserId(q, known) == IF known THEN q.user ELSE "anon"

\* One layer, as a sequence: its counter, what it is to count, and the identifier.
ByIp(c, q) == << <<c.prefix, "ip", HybridIpKey(q)>> >>
ByEmail(c, q) == IF q.email = Nobody THEN <<>> ELSE << <<c.prefix, "email", Email(q)>> >>
ByUser(c, q, known) == << <<c.prefix, "user", UserId(q, known)>> >>

-----------------------------------------------------------------------------
(* The guards: buildLayers for request q, when JwtAuthGuard has set the user or has not *)

RegisterThrottleGuard(q) == ByIp(REGISTER, q) \o ByEmail(REGISTER_EMAIL, q)
ResendVerificationOtpThrottleGuard(q) ==
  ByIp(RESEND_VERIFICATION_EMAIL, q) \o ByEmail(RESEND_VERIFICATION_EMAIL_IDENTITY, q)
LoginThrottleGuard(q) == ByIp(LOGIN, q) \o ByEmail(LOGIN_EMAIL, q)
ForgotPasswordThrottleGuard(q) == ByIp(FORGOT_PASSWORD, q) \o ByEmail(FORGOT_PASSWORD_EMAIL, q)
VerifyOtpThrottleGuard(q) == ByIp(VERIFY_OTP, q) \o ByEmail(VERIFY_OTP_EMAIL, q)
ResetPasswordThrottleGuard(q) == ByIp(RESET_PASSWORD, q) \o ByEmail(RESET_PASSWORD_EMAIL, q)
RefreshTokenThrottleGuard(q) == ByIp(REFRESH_TOKEN, q)
ChangePasswordThrottleGuard(q, known) ==
  ByUser(CHANGE_PASSWORD, q, known) \o ByIp(CHANGE_PASSWORD, q)
ChangeEmailThrottleGuard(q, known) == ByUser(CHANGE_EMAIL, q, known) \o ByIp(CHANGE_EMAIL, q)
AuthenticatedUserThrottleGuard(q, known) == ByUser(AUTHENTICATED_USER, q, known)
ProfileWriteThrottleGuard(q, known) == ByUser(PROFILE_WRITE, q, known)
ProfileAvatarThrottleGuard(q, known) == ByUser(PROFILE_AVATAR, q, known)

\* JwtAuthGuard and RolesGuard have no layers.
BuildLayers(g, q, known) ==
  CASE g = "register" -> RegisterThrottleGuard(q)
    [] g = "resend" -> ResendVerificationOtpThrottleGuard(q)
    [] g = "login" -> LoginThrottleGuard(q)
    [] g = "forgot" -> ForgotPasswordThrottleGuard(q)
    [] g = "verify" -> VerifyOtpThrottleGuard(q)
    [] g = "reset" -> ResetPasswordThrottleGuard(q)
    [] g = "refresh" -> RefreshTokenThrottleGuard(q)
    [] g = "changePassword" -> ChangePasswordThrottleGuard(q, known)
    [] g = "changeEmail" -> ChangeEmailThrottleGuard(q, known)
    [] g = "authUser" -> AuthenticatedUserThrottleGuard(q, known)
    [] g = "profileWrite" -> ProfileWriteThrottleGuard(q, known)
    [] g = "profileAvatar" -> ProfileAvatarThrottleGuard(q, known)
    [] OTHER -> <<>>

-----------------------------------------------------------------------------
(* The routes: their guards, in the order they run *)

SignUpRoutes == {
  [path |-> "register", guards |-> <<"register">>],
  [path |-> "verify-account", guards |-> <<>>],
  [path |-> "resend-verification-otp", guards |-> <<"resend">>],
  [path |-> "login", guards |-> <<"login">>]}

PasswordRoutes == {
  [path |-> "forgot-password", guards |-> <<"forgot">>],
  [path |-> "forget-password-verify-otp", guards |-> <<"verify">>],
  [path |-> "reset-password", guards |-> <<"reset">>],
  [path |-> "change-password", guards |-> <<"jwt", "changePassword">>]}

SessionRoutes == {
  [path |-> "logout", guards |-> <<"jwt">>],
  [path |-> "logout-all", guards |-> <<"jwt">>],
  [path |-> "refresh-token", guards |-> <<"refresh">>],
  [path |-> "change-email/initiate", guards |-> <<"jwt", "changeEmail">>],
  [path |-> "change-email/verify", guards |-> <<"jwt">>]}

ProfileRoutes == {
  [path |-> "GET profile/me", guards |-> <<"jwt", "authUser">>],
  [path |-> "PATCH profile/me", guards |-> <<"jwt", "authUser", "profileWrite">>],
  [path |-> "POST profile/me/avatar", guards |-> <<"jwt", "authUser", "profileAvatar">>],
  [path |-> "DELETE profile/me/avatar", guards |-> <<"jwt", "authUser", "profileAvatar">>]}

ReportRoutes == {
  [path |-> "GET reports", guards |-> <<"jwt", "authUser">>],
  [path |-> "GET reports/month/:year/:month", guards |-> <<"jwt", "authUser">>],
  [path |-> "GET reports/:id", guards |-> <<"jwt", "authUser">>],
  [path |-> "POST reports", guards |-> <<"jwt", "authUser", "roles">>],
  [path |-> "PATCH reports/:id", guards |-> <<"jwt", "authUser", "roles">>]}

MailRoutes == {
  [path |-> "test/email/send", guards |-> <<"jwt", "roles">>],
  [path |-> "test/email/send-bulk", guards |-> <<"jwt", "roles">>]}

AllRoutes ==
  SignUpRoutes \cup PasswordRoutes \cup SessionRoutes \cup ProfileRoutes \cup ReportRoutes
    \cup MailRoutes

\* JwtAuthGuard has set request.user when guard i runs.
KnowsUser(r, i) == \E j \in 1 .. i - 1 : r.guards[j] = "jwt"

\* The keys of the layers of route r for request q, in the order they are checked.
LayerKeys(r, q) ==
  FlattenSeq([i \in DOMAIN r.guards |-> BuildLayers(r.guards[i], q, KnowsUser(r, i))])

-----------------------------------------------------------------------------
(* What the keys are for *)

\* Who the layer of key k is to count: an origin, a mailbox, a user.
Who(k, q) ==
  CASE k[2] = "ip" -> <<q.origin, q.ua, q.device>>
    [] k[2] = "email" -> q.email.box
    [] k[2] = "user" -> q.user

=============================================================================
