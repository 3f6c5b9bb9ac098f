------------------------------ MODULE Accounts ------------------------------
(***************************************************************************)
(* The directory of e-mail addresses, src/src/users.rs, and the handlers   *)
(* of network.rs that use it: register, verify, resend-verification,       *)
(* lookup and the admin's list, each behind the rate limiter.  Every       *)
(* request is a task of its own: between two accesses to the database      *)
(* another request may take any number of steps.  The mail that brings a   *)
(* code may be lost: a code that was made may be submitted, or never.  The *)
(* database survives a crash of the node, the limiter and the requests in  *)
(* progress do not.                                                        *)
(*                                                                         *)
(* The clock of the limiter and that of the codes are one clock here.  The *)
(* database takes an e-mail address without the spaces around it, the      *)
(* limiter as it was typed.  Codes are numbered in the order they are      *)
(* created, 0 is a mistyped one.                                           *)
(***************************************************************************)
EXTENDS RateLimiter

CONSTANTS
  Emails, Addresses, Ips,
  Spellings,          \* of an e-mail address: with which spaces around it
  Requests,           \* requests served at one time
  OTP_VALID_SECONDS,
  REGISTER_IP_MAX, REGISTER_WINDOW,
  VERIFY_EMAIL_MAX, VERIFY_IP_MAX, VERIFY_WINDOW,
  RESEND_EMAIL_MAX, RESEND_IP_MAX, RESEND_WINDOW,
  MaxCodes,           \* bound: codes created
  MaxTime,            \* bound: the clock stops here
  MaxRestarts         \* bound: crashes of the node

ASSUME AccountsAssumption ==
  /\ {OTP_VALID_SECONDS, REGISTER_WINDOW, VERIFY_WINDOW, RESEND_WINDOW,
      MaxCodes, MaxTime, MaxRestarts} \subseteq Nat
  /\ {REGISTER_IP_MAX, VERIFY_EMAIL_MAX, VERIFY_IP_MAX, RESEND_EMAIL_MAX,
      RESEND_IP_MAX} \subseteq Nat \ {0}
  /\ IsFiniteSet(Spellings) /\ IsFiniteSet(Ips)
  /\ Ips \cap (Emails \X Spellings) = {}  \* keys of the limiter differ in kind

\* 15 minutes; 3600, 900 and 3600 seconds; and 7200: a window of attempts is not
\* shorter than the life of a code, and none is forgotten while it lasts.
ASSUME WindowsAssumption ==
  /\ OTP_VALID_SECONDS <= VERIFY_WINDOW
  /\ \A window \in {REGISTER_WINDOW, VERIFY_WINDOW, RESEND_WINDOW} : window < FORGET_SECS

VARIABLES
  users,     \* database, keys user:<email>
  otps,      \* database, keys otp:<email>
  windows,   \* the rate limiter's map
  request,   \* per request: the handler's stage and what it holds
  now,       \* the clock
  restarts,  \* crashes so far
  codes,     \* codes created so far
  newest,    \* history: per e-mail, the code created last
  compared,  \* history: per code, the submissions compared with it
  raced,     \* history: codes removed by a request that had read another
  doubled    \* history: e-mails of which two registrations overlapped

database == <<users, otps>>
history == <<newest, compared, raced, doubled>>
vars == <<database, windows, request, now, restarts, codes, history>>

Codes == 1 .. MaxCodes

\* An account as stored: in the format of today, or in the one without verified.
Account ==
  [format : {"current", "legacy"}, address : Addresses, verified : BOOLEAN]
PendingOtp == [code : Codes, expires_at : Nat]
no_request == [stage |-> "idle"]

Init ==
  /\ \E old \in SUBSET Emails, a \in Addresses :
       users = [e \in old |-> [format |-> "legacy", address |-> a, verified |-> FALSE]]
  /\ otps = [e \in {} |-> 0] /\ windows = [k \in {} |-> 0]
  /\ request = [r \in Requests |-> no_request]
  /\ now = 0 /\ restarts = 0 /\ codes = 0
  /\ newest = [e \in {} |-> 0] /\ raced = {} /\ doubled = {}
  /\ compared = [c \in Codes |-> 0]

idle(r) == request[r].stage = "idle"
goes_on(r, next) == request' = [request EXCEPT ![r] = next]

\* Both limits of a request are counted, whether or not the first refuses; that
\* of the e-mail address by the address as it was typed.
limited(kind, typed, email_max, ip, ip_max, window) ==
  LET by_email == check(windows, <<kind, typed>>, email_max, window, now)
      by_ip    == check(by_email.windows, <<kind, ip>>, ip_max, window, now)
  IN  [ok |-> by_email.ok /\ by_ip.ok, windows |-> by_ip.windows]

(***************************************************************************)
(* POST /api/register.  The answer is sent once the account is stored; a   *)
(* task of its own then makes the code and sends the mail.                 *)
(***************************************************************************)

\* Mutant of registered: an account in the old format is not recognised.
registered_current(email) ==
  email \in DOMAIN users /\ users[email].format = "current"

\* Is there an account of this e-mail?
registered(email) == email \in DOMAIN users

being_registered(email) ==
  \E r \in Requests : request[r].stage = "register" /\ request[r].email = email

\* register_user up to its look at the database.
RegisterRead(r, email, address, ip) ==
  /\ idle(r)
  /\ LET limit == check(windows, <<"register", ip>>, REGISTER_IP_MAX,
                        REGISTER_WINDOW, now)
     IN  /\ windows' = limit.windows
         /\ IF limit.ok /\ ~registered(email)
            THEN /\ goes_on(r, [stage |-> "register", email |-> email,
                                address |-> address])
                 /\ doubled' = IF being_registered(email) THEN doubled \cup {email}
                               ELSE doubled
            ELSE UNCHANGED <<request, doubled>>
  /\ UNCHANGED <<database, now, restarts, codes, newest, compared, raced>>

\* register_user stores the account it found missing.
RegisterStore(r) ==
  /\ request[r].stage = "register"
  /\ users' = put(users, request[r].email,
                  [format |-> "current", address |-> request[r].address,
                   verified |-> FALSE])
  /\ goes_on(r, [stage |-> "code", email |-> request[r].email])
  /\ UNCHANGED <<otps, windows, now, restarts, codes, history>>

\* create_pending_otp: a new code replaces the pending one of the e-mail.
create_pending_otp(email) ==
  LET pending == [code |-> codes + 1, expires_at |-> now + OTP_VALID_SECONDS]
  IN  /\ codes < MaxCodes
      /\ codes' = codes + 1
      /\ otps' = put(otps, email, pending)
      /\ newest' = put(newest, email, pending)

\* The task a registration started.  It gives up when the code cannot be made.
CreateCode(r) ==
  /\ request[r].stage = "code"
  /\ \/ create_pending_otp(request[r].email)
     \/ UNCHANGED <<otps, codes, newest>>
  /\ goes_on(r, no_request)
  /\ UNCHANGED <<users, windows, now, restarts, compared, raced, doubled>>

\* POST /api/resend-verification, whether or not the e-mail has an account.
Resend(r, typed, ip) ==
  /\ idle(r)
  /\ LET limit == limited("resend", typed, RESEND_EMAIL_MAX, ip, RESEND_IP_MAX,
                          RESEND_WINDOW)
     IN  /\ windows' = limit.windows
         /\ IF limit.ok THEN create_pending_otp(typed[1])
            ELSE UNCHANGED <<otps, codes, newest>>
  /\ UNCHANGED <<users, request, now, restarts, compared, raced, doubled>>

(***************************************************************************)
(* POST /api/verify.                                                       *)
(***************************************************************************)

\* Mutant of after_comparison: a wrong code uses the pending one up.
after_comparison_spent(email, pending, code) ==
  IF now > pending.expires_at \/ code # pending.code
  THEN [stage |-> "delete", email |-> email, code |-> pending.code]
  ELSE [stage |-> "account", email |-> email, code |-> pending.code]

\* What verify_otp goes on with, having read a pending code.
after_comparison(email, pending, code) ==
  IF now > pending.expires_at
  THEN [stage |-> "delete", email |-> email, code |-> pending.code]
  ELSE IF code # pending.code THEN no_request
  ELSE [stage |-> "account", email |-> email, code |-> pending.code]

\* The limits, then verify_otp's read of the pending code.
VerifyRead(r, typed, ip, code) ==
  /\ idle(r)
  /\ LET email == typed[1]
         limit == limited("verify", typed, VERIFY_EMAIL_MAX, ip, VERIFY_IP_MAX,
                          VERIFY_WINDOW)
     IN  /\ windows' = limit.windows
         /\ IF limit.ok /\ email \in DOMAIN otps
            THEN /\ goes_on(r, after_comparison(email, otps[email], code))
                 /\ compared' = IF now > otps[email].expires_at THEN compared
                                ELSE [compared EXCEPT ![otps[email].code] = @ + 1]
            ELSE UNCHANGED <<request, compared>>
  /\ UNCHANGED <<database, now, restarts, codes, newest, raced, doubled>>

\* The account is read: a missing one, or one in the old format, is an error.
VerifyAccount(r) ==
  /\ request[r].stage = "account"
  /\ LET email == request[r].email
     IN  IF email \in DOMAIN users /\ users[email].format = "current"
         THEN goes_on(r, [stage |-> "verified", email |-> email,
                          code |-> request[r].code, account |-> users[email]])
         ELSE goes_on(r, no_request)
  /\ UNCHANGED <<database, windows, now, restarts, codes, history>>

\* The account that was read is written back, verified.
VerifyStore(r) ==
  /\ request[r].stage = "verified"
  /\ users' = put(users, request[r].email,
                  [request[r].account EXCEPT !.verified = TRUE])
  /\ goes_on(r, [stage |-> "delete", email |-> request[r].email,
                 code |-> request[r].code])
  /\ UNCHANGED <<otps, windows, now, restarts, codes, history>>

\* The pending code is removed, whichever it is by now.
VerifyDelete(r) ==
  /\ request[r].stage = "delete"
  /\ LET email == request[r].email
     IN  /\ otps' = restrict_to(otps, DOMAIN otps \ {email})
         /\ raced' = IF email \in DOMAIN otps /\ otps[email].code # request[r].code
                     THEN raced \cup {otps[email].code} ELSE raced
  /\ goes_on(r, no_request)
  /\ UNCHANGED <<users, windows, now, restarts, codes, newest, compared, doubled>>

(***************************************************************************)
(* POST /api/lookup and GET /api/admin/users, which change nothing.        *)
(***************************************************************************)

\* A stored account, of either format, as the program sees it.
read_account(stored) == {[stored EXCEPT !.format = "current"]}

lookup_user(email) ==
  IF email \in DOMAIN users THEN read_account(users[email]) ELSE {}

list_all_users == UNION {read_account(users[e]) : e \in DOMAIN users}

(***************************************************************************)
(* Time, and crashes of the node.                                          *)
(***************************************************************************)

Tick ==
  /\ now < MaxTime
  /\ now' = now + 1
  /\ UNCHANGED <<database, windows, request, restarts, codes, history>>

Restart ==
  /\ restarts < MaxRestarts
  /\ restarts' = restarts + 1
  /\ windows' = [k \in {} |-> 0]
  /\ request' = [r \in Requests |-> no_request]
  /\ UNCHANGED <<database, now, codes, history>>

Next ==
  \/ \E r \in Requests :
       \/ \E typed \in Emails \X Spellings, ip \in Ips :
            \/ \E address \in Addresses : RegisterRead(r, typed[1], address, ip)
            \/ Resend(r, typed, ip)
            \/ \E code \in 0 .. codes : VerifyRead(r, typed, ip, code)
       \/ RegisterStore(r) \/ CreateCode(r)
       \/ VerifyAccount(r) \/ VerifyStore(r) \/ VerifyDelete(r)
  \/ Tick \/ Restart

Spec == Init /\ [][Next]_vars

(***************************************************************************)
(* Properties.                                                             *)
(***************************************************************************)

\* The database, the limiter's map and the requests have their shapes, and no
\* code is pending or held that was not created.
TypeOK ==
  /\ DOMAIN users \subseteq Emails /\ DOMAIN otps \subseteq Emails
  /\ \A e \in DOMAIN users : users[e] \in Account
  /\ \A e \in DOMAIN otps : otps[e] \in PendingOtp /\ otps[e].code <= codes
  /\ \A k \in DOMAIN windows :
       /\ windows[k].count \in Nat \ {0} /\ windows[k].started \in 0 .. now
  /\ \A r \in Requests :
       /\ request[r].stage \in {"idle", "register", "code", "account",
                               "verified", "delete"}
       /\ request[r].stage # "idle" => request[r].email \in Emails
       /\ request[r].stage \in {"account", "verified", "delete"} =>
            request[r].code \in 1 .. codes
       /\ request[r].stage = "verified" => request[r].account \in Account
  /\ now \in 0 .. MaxTime /\ restarts \in 0 .. MaxRestarts /\ codes \in 0 .. MaxCodes

\* However the attempts on an e-mail's code are spread over the limiter's fixed
\* windows, over spellings, callers and restarts, one code is compared with a
\* bounded number of submissions: its life of OTP_VALID_SECONDS meets at most
\* two windows of each key, and one more per restart.
AttemptsPerCode ==
  \A c \in Codes :
    /\ compared[c] <= (2 + restarts) * VERIFY_EMAIL_MAX * Cardinality(Spellings)
    /\ compared[c] <= (2 + restarts) * VERIFY_IP_MAX * Cardinality(Ips)

\* The newest code of an e-mail can still be used as long as it is valid and
\* the account is not verified, unless a request that had read an older code
\* removed it: no wrong attempt, failed mail or restart takes it away.
OnlyRacedCodesAreLost ==
  \A e \in DOMAIN newest :
    \/ now > newest[e].expires_at
    \/ newest[e].code \in raced
    \/ e \in DOMAIN users /\ users[e].verified
    \/ e \in doubled
    \/ e \in DOMAIN otps /\ otps[e] = newest[e]

\* Without two registrations of one e-mail at once, an account keeps its
\* address for ever and stays verified once it is; lookup and the list of the
\* admin show it, in whichever format it is stored.
AccountsKept ==
  [][\A e \in DOMAIN users \ doubled :
       /\ \E shown \in lookup_user(e) :
            /\ shown \in list_all_users
            /\ shown.address = users[e].address
       /\ e \in DOMAIN users'
       /\ users'[e].address = users[e].address
       /\ users[e].verified => users'[e].verified]_vars
=============================================================================
