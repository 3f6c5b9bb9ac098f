--------------------------- MODULE AccountsProofs ---------------------------
(***************************************************************************)
(* Theorems about Accounts: what two requests for one e-mail can know of   *)
(* each other, and how many submissions a code can meet.                   *)
(***************************************************************************)
EXTENDS Accounts, FiniteSetTheorems, TLAPS

(***************************************************************************)
(* The invariant of the database and the requests.                         *)
(***************************************************************************)

Request ==
  {no_request}
  \cup [stage : {"register"}, email : Emails, address : Addresses]
  \cup [stage : {"code"}, email : Emails]
  \cup [stage : {"account", "delete"}, email : Emails, code : 1 .. codes]
  \cup [stage : {"verified"}, email : Emails, code : 1 .. codes, account : Account]

\* A finite map from some of the keys to some of the values.
map_of(map, keys, values) ==
  DOMAIN map \subseteq keys /\ \A k \in DOMAIN map : map[k] \in values

Window == [count : Nat \ {0}, started : 0 .. now]
Created == [code : 1 .. codes, expires_at : 0 .. now + OTP_VALID_SECONDS]

Shape ==
  /\ map_of(users, Emails, Account)
  /\ map_of(otps, Emails, Created) /\ map_of(newest, Emails, Created)
  /\ \A k \in DOMAIN windows : windows[k] \in Window
  /\ request \in [Requests -> Request]
  /\ now \in 0 .. MaxTime /\ restarts \in 0 .. MaxRestarts /\ codes \in 0 .. MaxCodes
  /\ compared \in [Codes -> Nat]

\* A pending code is the newest of its e-mail, and no two e-mails share one.
PendingIsNewest ==
  /\ \A e \in DOMAIN otps : e \in DOMAIN newest /\ otps[e] = newest[e]
  /\ \A d, e \in DOMAIN newest : newest[d].code = newest[e].code => d = e

\* A registration about to be stored is alone, and finds no account still.
RegistersAlone ==
  \A r \in Requests : request[r].stage = "register" /\ request[r].email \notin doubled =>
    /\ request[r].email \notin DOMAIN users
    /\ \A q \in Requests :
         request[q].stage = "register" /\ request[q].email = request[r].email => q = r

\* The account a verification has read is the one in the database, as far as its
\* address goes.
AccountIsStored ==
  \A r \in Requests : request[r].stage = "verified" /\ request[r].email \notin doubled =>
    /\ request[r].email \in DOMAIN users
    /\ users[request[r].email].address = request[r].account.address

verified(e) == e \in DOMAIN users /\ users[e].verified

\* A request that is to remove the newest code may do so.
DeleteJustified ==
  \A r \in Requests :
    request[r].stage = "delete" /\ request[r].email \in DOMAIN newest
      /\ newest[request[r].email].code = request[r].code =>
        \/ now > newest[request[r].email].expires_at
        \/ verified(request[r].email)
        \/ request[r].email \in doubled

DirectoryInv ==
  /\ Shape
  /\ PendingIsNewest
  /\ RegistersAlone
  /\ AccountIsStored
  /\ DeleteJustified
  /\ OnlyRacedCodesAreLost

(***************************************************************************)
(* Maps, and a call of the rate limiter.                                   *)
(***************************************************************************)

\* A map keeps its kind when a value of that kind is put into it.
LEMMA PutMapOf ==
  ASSUME NEW map, NEW keys, NEW values, map_of(map, keys, values),
         NEW key \in keys, NEW value \in values
  PROVE  map_of(put(map, key, value), keys, values)
  <1>1. /\ DOMAIN put(map, key, value) = DOMAIN map \cup {key}
        /\ put(map, key, value)[key] = value
        /\ \A k \in DOMAIN map : k # key => put(map, key, value)[k] = map[k]
    BY DEF put
  <1> QED
    BY <1>1 DEF map_of

\* A call for another key, or one that is refused, leaves a window as it is, unless it
\* is so old that it is forgotten.
untouched(before, after, k) ==
  /\ k \in DOMAIN after => k \in DOMAIN before /\ after[k] = before[k]
  /\ k \in DOMAIN before => k \in DOMAIN after \/ now - before[k].started >= FORGET_SECS

\* The call was counted: in the window that goes on, or as the first of a new one.
counted(before, after, k, window_secs) ==
  /\ k \in DOMAIN after
  /\ \/ /\ k \in DOMAIN before /\ now - before[k].started <= window_secs
        /\ after[k].started = before[k].started /\ after[k].count = before[k].count + 1
     \/ /\ k \in DOMAIN before => now - before[k].started > window_secs
        /\ after[k].started = now /\ after[k].count = 1

\* One call of check: the windows keep their shape, those of other keys are untouched,
\* and that of the key is counted, within the limit, or untouched too.
LEMMA CheckCounts ==
  ASSUME now \in Nat, NEW before, \A k \in DOMAIN before : before[k] \in Window,
         NEW key, NEW max_count \in Nat \ {0}, NEW window_secs \in Nat,
         window_secs < FORGET_SECS
  PROVE  LET call  == check(before, key, max_count, window_secs, now)
             after == call.windows
         IN  /\ call.ok \in BOOLEAN
             /\ \A k \in DOMAIN after : after[k] \in Window
             /\ \A k : k # key => untouched(before, after, k)
             /\ call.ok => /\ counted(before, after, key, window_secs)
                           /\ after[key].count <= max_count
             /\ ~ call.ok => untouched(before, after, key)
  <1> DEFINE kept  == retained(before, now)
             w     == window_at(kept, key, window_secs, now)
             ok    == w.count < max_count
             value == IF ok THEN [w EXCEPT !.count = @ + 1] ELSE w
             after == put(kept, key, value)
  <1> USE RateLimiterAssumption
  <1>1. /\ DOMAIN kept \subseteq DOMAIN before
        /\ \A k \in DOMAIN kept : kept[k] = before[k]
        /\ \A k \in DOMAIN before : k \notin DOMAIN kept => now - before[k].started >= FORGET_SECS
    <2>1. CASE Cardinality(DOMAIN before) > MAX_TRACKED_KEYS
      <3> DEFINE recent == {k \in DOMAIN before : now - before[k].started < FORGET_SECS}
      <3>1. kept = restrict_to(before, recent)
        BY <2>1 DEF retained
      <3>2. \A k \in DOMAIN before : before[k].started \in Int
        BY DEF Window
      <3>3. /\ DOMAIN kept = DOMAIN before \cap recent
            /\ \A k \in DOMAIN before \cap recent : kept[k] = before[k]
        BY <3>1 DEF restrict_to
      <3>4. \A k \in DOMAIN before : k \notin recent => now - before[k].started >= FORGET_SECS
        BY <3>2
      <3> QED
        BY <3>3, <3>4
    <2>2. CASE ~ Cardinality(DOMAIN before) > MAX_TRACKED_KEYS
      BY <2>2 DEF retained
    <2> QED
      BY <2>1, <2>2
  <1> HIDE DEF kept
  <1>2. /\ check(before, key, max_count, window_secs, now).ok \in BOOLEAN
        /\ check(before, key, max_count, window_secs, now).ok <=> ok
        /\ check(before, key, max_count, window_secs, now).windows = after
    <2>1. check(before, key, max_count, window_secs, now) = [ok |-> ok, windows |-> after]
      BY DEF check, kept
    <2>2. ok \in BOOLEAN
      OBVIOUS
    <2> HIDE DEF ok, after
    <2>3. check(before, key, max_count, window_secs, now).windows = after
      BY <2>1
    <2>4. check(before, key, max_count, window_secs, now).ok = ok
      BY <2>1
    <2> QED
      BY <2>2, <2>3, <2>4
  <1>3. \/ /\ key \in DOMAIN kept /\ now - before[key].started <= window_secs
           /\ w = before[key] /\ w \in Window
        \/ /\ w = [count |-> 0, started |-> now]
           /\ key \in DOMAIN before => now - before[key].started > window_secs
    <2>1. CASE key \in DOMAIN kept /\ now - kept[key].started <= window_secs
      BY <1>1, <2>1 DEF window_at
    <2>2. CASE ~ (key \in DOMAIN kept /\ now - kept[key].started <= window_secs)
      <3>1. w = [count |-> 0, started |-> now]
        BY <2>2 DEF window_at
      <3>2. ASSUME key \in DOMAIN before PROVE now - before[key].started > window_secs
        <4>1. before[key].started \in Int
          BY <3>2 DEF Window
        <4> QED
          BY <1>1, <2>2, <3>2, <4>1
      <3> QED
        BY <3>1, <3>2
    <2> QED
      BY <2>1, <2>2
  <1>4. /\ w.count \in Nat /\ w.started \in 0 .. now
        /\ value = [count |-> IF ok THEN w.count + 1 ELSE w.count, started |-> w.started]
    <2>1. w \in [count : Nat, started : 0 .. now]
      BY <1>3 DEF Window
    <2> HIDE DEF w
    <2> QED
      BY <2>1
  <1>5. value \in Window /\ value.started = w.started
    BY <1>4 DEF Window
  <1> HIDE DEF w, value
  <1>6. /\ DOMAIN after = DOMAIN kept \cup {key} /\ after[key] = value
        /\ \A k \in DOMAIN kept : k # key => after[k] = before[k]
    <2>1. /\ DOMAIN put(kept, key, value) = DOMAIN kept \cup {key}
          /\ put(kept, key, value)[key] = value
          /\ \A k \in DOMAIN kept : k # key => put(kept, key, value)[k] = kept[k]
      BY DEF put
    <2> QED
      BY <1>1, <2>1
  <1> HIDE DEF after
  <1>7. \A k : k # key => untouched(before, after, k)
    BY <1>1, <1>6 DEF untouched
  <1>8. ok => counted(before, after, key, window_secs) /\ after[key].count <= max_count
    BY <1>1, <1>3, <1>4, <1>6 DEF counted
  <1>9. ASSUME ~ ok PROVE untouched(before, after, key)
    <2>1. key \in DOMAIN kept /\ w = before[key] /\ w \in Window
      BY <1>3, <1>9
    <2>2. value = before[key]
      BY <1>4, <1>9, <2>1 DEF Window
    <2> QED
      BY <1>1, <1>6, <2>1, <2>2 DEF untouched
  <1>10. \A k \in DOMAIN after : after[k] \in Window
    BY <1>1, <1>5, <1>6
  <1> QED
    BY <1>2, <1>7, <1>8, <1>9, <1>10

\* Two calls one after the other, of different keys: each key's window is counted in its
\* call or not at all, and both are if both calls are allowed.
LEMMA LimitedCounts ==
  ASSUME now \in Nat, \A k \in DOMAIN windows : windows[k] \in Window,
         NEW kind, NEW typed, NEW ip, <<kind, typed>> # <<kind, ip>>,
         NEW email_max \in Nat \ {0}, NEW ip_max \in Nat \ {0},
         NEW window_secs \in Nat, window_secs < FORGET_SECS
  PROVE  LET limit == limited(kind, typed, email_max, ip, ip_max, window_secs)
             after == limit.windows
             k1    == <<kind, typed>>
             k2    == <<kind, ip>>
         IN  /\ limit.ok \in BOOLEAN
             /\ \A k \in DOMAIN after : after[k] \in Window
             /\ \A k : k # k1 /\ k # k2 => untouched(windows, after, k)
             /\ \/ untouched(windows, after, k1) /\ ~ limit.ok
                \/ counted(windows, after, k1, window_secs) /\ after[k1].count <= email_max
             /\ \/ untouched(windows, after, k2) /\ ~ limit.ok
                \/ counted(windows, after, k2, window_secs) /\ after[k2].count <= ip_max
  <1> DEFINE k1    == <<kind, typed>>
             k2    == <<kind, ip>>
             first == check(windows, k1, email_max, window_secs, now)
             mid   == first.windows
             next  == check(mid, k2, ip_max, window_secs, now)
             after == next.windows
  <1>1. /\ first.ok \in BOOLEAN /\ \A k \in DOMAIN mid : mid[k] \in Window
        /\ \A k : k # k1 => untouched(windows, mid, k)
        /\ first.ok => counted(windows, mid, k1, window_secs) /\ mid[k1].count <= email_max
        /\ ~ first.ok => untouched(windows, mid, k1)
    BY CheckCounts
  <1> HIDE DEF mid
  <1>2. /\ next.ok \in BOOLEAN /\ \A k \in DOMAIN after : after[k] \in Window
        /\ \A k : k # k2 => untouched(mid, after, k)
        /\ next.ok => counted(mid, after, k2, window_secs) /\ after[k2].count <= ip_max
        /\ ~ next.ok => untouched(mid, after, k2)
    BY <1>1, CheckCounts
  <1>3. LET limit == limited(kind, typed, email_max, ip, ip_max, window_secs)
        IN  limit = [ok |-> first.ok /\ next.ok, windows |-> after]
    BY DEF limited, mid
  <1> HIDE DEF first, next, after, k1, k2
  <1>4. /\ limited(kind, typed, email_max, ip, ip_max, window_secs).windows = after
        /\ limited(kind, typed, email_max, ip, ip_max, window_secs).ok = (first.ok /\ next.ok)
    BY <1>3
  <1>5. k1 # k2
    BY DEF k1, k2
  <1>6. \A k : untouched(windows, mid, k) /\ untouched(mid, after, k)
                 => untouched(windows, after, k)
    BY DEF untouched
  <1>7. \A k : counted(windows, mid, k, window_secs) /\ untouched(mid, after, k)
                 => counted(windows, after, k, window_secs) /\ after[k] = mid[k]
    <2> SUFFICES ASSUME NEW k, counted(windows, mid, k, window_secs), untouched(mid, after, k)
                 PROVE  counted(windows, after, k, window_secs) /\ after[k] = mid[k]
      OBVIOUS
    <2>1. k \in DOMAIN mid /\ mid[k].started \in 0 .. now /\ now - mid[k].started <= window_secs
      BY <1>1 DEF counted, Window
    <2>2. k \in DOMAIN after /\ after[k] = mid[k]
      BY <2>1, RateLimiterAssumption DEF untouched
    <2> QED
      BY <2>2 DEF counted
  <1>8. \A k : untouched(windows, mid, k) /\ counted(mid, after, k, window_secs)
                 => counted(windows, after, k, window_secs)
    <2> SUFFICES ASSUME NEW k, untouched(windows, mid, k), counted(mid, after, k, window_secs)
                 PROVE  counted(windows, after, k, window_secs)
      OBVIOUS
    <2>1. k \in DOMAIN windows => windows[k].started \in 0 .. now
      BY DEF Window
    <2> QED
      BY <2>1, RateLimiterAssumption DEF untouched, counted
  <1>9. \/ untouched(windows, after, k1) /\ ~ first.ok
        \/ counted(windows, after, k1, window_secs) /\ after[k1].count <= email_max
    BY <1>1, <1>2, <1>5, <1>6, <1>7
  <1>10. \/ untouched(windows, after, k2) /\ ~ next.ok
         \/ counted(windows, after, k2, window_secs) /\ after[k2].count <= ip_max
    BY <1>1, <1>2, <1>5, <1>6, <1>8
  <1>11. \A k : k # k1 /\ k # k2 => untouched(windows, after, k)
    BY <1>1, <1>2, <1>6
  <1> QED
    BY <1>1, <1>2, <1>4, <1>9, <1>10, <1>11 DEF k1, k2

(***************************************************************************)
(* The steps, first for the database and the requests.                     *)
(***************************************************************************)

\* The constants, as the proofs use them.
LEMMA Constants ==
  /\ OTP_VALID_SECONDS \in Nat /\ MaxCodes \in Nat /\ MaxTime \in Nat /\ MaxRestarts \in Nat
  /\ REGISTER_WINDOW \in Nat /\ VERIFY_WINDOW \in Nat /\ RESEND_WINDOW \in Nat
  /\ REGISTER_IP_MAX \in Nat \ {0} /\ VERIFY_EMAIL_MAX \in Nat \ {0}
  /\ VERIFY_IP_MAX \in Nat \ {0} /\ RESEND_EMAIL_MAX \in Nat \ {0}
  /\ RESEND_IP_MAX \in Nat \ {0} /\ FORGET_SECS \in Nat
  /\ REGISTER_WINDOW < FORGET_SECS /\ VERIFY_WINDOW < FORGET_SECS
  /\ RESEND_WINDOW < FORGET_SECS /\ OTP_VALID_SECONDS <= VERIFY_WINDOW
  BY AccountsAssumption, WindowsAssumption, RateLimiterAssumption

\* A typed address and a caller's are different keys.
LEMMA KeysDiffer ==
  ASSUME NEW kind, NEW typed \in Emails \X Spellings, NEW ip \in Ips
  PROVE  <<kind, typed>> # <<kind, ip>>
  BY AccountsAssumption

\* With time and with codes, no request, code or window leaves its type.
LEMMA TypesGrow ==
  ASSUME Shape, now' \in {now, now + 1}, codes' \in {codes, codes + 1}
  PROVE  Request \subseteq Request' /\ Created \subseteq Created' /\ Window \subseteq Window'
  <1>1. /\ 1 .. codes \subseteq 1 .. codes' /\ 0 .. now \subseteq 0 .. now'
        /\ 0 .. now + OTP_VALID_SECONDS \subseteq 0 .. now' + OTP_VALID_SECONDS
    <2>1. now \in Nat /\ codes \in Nat /\ OTP_VALID_SECONDS \in Nat
      BY Constants DEF Shape
    <2>2. \A a, b, c \in Nat : b \in {a, a + 1} =>
            /\ b \in Nat /\ 1 .. a \subseteq 1 .. b /\ 0 .. a \subseteq 0 .. b
            /\ 0 .. a + c \subseteq 0 .. b + c
      OBVIOUS
    <2>3. now' \in Nat /\ codes' \in Nat
      BY <2>1
    <2> QED
      BY <2>1, <2>2, <2>3
  <1> QED
    BY <1>1 DEF Request, Created, Window

\* The windows are well formed after a registration, a resend or an attempt.
LEMMA WindowsKeep ==
  ASSUME Shape, NEW typed \in Emails \X Spellings, NEW ip \in Ips,
         \/ windows' = check(windows, <<"register", ip>>, REGISTER_IP_MAX,
                             REGISTER_WINDOW, now).windows
         \/ windows' = limited("resend", typed, RESEND_EMAIL_MAX, ip, RESEND_IP_MAX,
                               RESEND_WINDOW).windows
         \/ windows' = limited("verify", typed, VERIFY_EMAIL_MAX, ip, VERIFY_IP_MAX,
                               VERIFY_WINDOW).windows
  PROVE  \A k \in DOMAIN windows' : windows'[k] \in Window
  <1>1. now \in Nat /\ \A k \in DOMAIN windows : windows[k] \in Window
    BY DEF Shape
  <1>2. CASE windows' = check(windows, <<"register", ip>>, REGISTER_IP_MAX,
                              REGISTER_WINDOW, now).windows
    <2>1. \A k \in DOMAIN check(windows, <<"register", ip>>, REGISTER_IP_MAX,
                                REGISTER_WINDOW, now).windows :
            check(windows, <<"register", ip>>, REGISTER_IP_MAX,
                  REGISTER_WINDOW, now).windows[k] \in Window
      BY <1>1, CheckCounts, Constants
    <2> QED
      BY <1>2, <2>1
  <1>3. CASE windows' = limited("resend", typed, RESEND_EMAIL_MAX, ip, RESEND_IP_MAX,
                                RESEND_WINDOW).windows
    <2>1. \A k \in DOMAIN limited("resend", typed, RESEND_EMAIL_MAX, ip, RESEND_IP_MAX,
                                  RESEND_WINDOW).windows :
            limited("resend", typed, RESEND_EMAIL_MAX, ip, RESEND_IP_MAX,
                    RESEND_WINDOW).windows[k] \in Window
      BY <1>1, LimitedCounts, KeysDiffer, Constants
    <2> QED
      BY <1>3, <2>1
  <1>4. CASE windows' = limited("verify", typed, VERIFY_EMAIL_MAX, ip, VERIFY_IP_MAX,
                                VERIFY_WINDOW).windows
    <2>1. \A k \in DOMAIN limited("verify", typed, VERIFY_EMAIL_MAX, ip, VERIFY_IP_MAX,
                                  VERIFY_WINDOW).windows :
            limited("verify", typed, VERIFY_EMAIL_MAX, ip, VERIFY_IP_MAX,
                    VERIFY_WINDOW).windows[k] \in Window
      BY <1>1, LimitedCounts, KeysDiffer, Constants
    <2> QED
      BY <1>4, <2>1
  <1> QED
    BY <1>2, <1>3, <1>4

\* A new code becomes the pending and the newest one of its e-mail; requests that hold
\* older codes of it do not hold this one.
LEMMA CodeKeeps ==
  ASSUME DirectoryInv, NEW email \in Emails, create_pending_otp(email),
         UNCHANGED <<users, now, raced, doubled>>
  PROVE  /\ map_of(otps', Emails, Created') /\ map_of(newest', Emails, Created')
         /\ codes' = codes + 1 /\ codes' \in 0 .. MaxCodes
         /\ PendingIsNewest' /\ OnlyRacedCodesAreLost'
         /\ \A e \in DOMAIN newest' :
              newest'[e].code \in 1 .. codes => e \in DOMAIN newest /\ newest'[e] = newest[e]
         /\ \A e \in DOMAIN otps' :
              \/ e \in DOMAIN otps /\ otps'[e] = otps[e]
              \/ e = email /\ otps'[e].code = codes + 1
  <1> DEFINE pending == [code |-> codes + 1, expires_at |-> now + OTP_VALID_SECONDS]
  <1>0. Shape /\ PendingIsNewest /\ OnlyRacedCodesAreLost
    BY DEF DirectoryInv
  <1>1. /\ codes < MaxCodes /\ codes' = codes + 1
        /\ otps' = put(otps, email, pending) /\ newest' = put(newest, email, pending)
    BY DEF create_pending_otp
  <1>2. codes \in Nat /\ now \in Nat /\ codes' \in 0 .. MaxCodes
    BY <1>0, <1>1, Constants DEF Shape
  <1>3. pending \in Created' /\ Created \subseteq Created'
    <2>1. Created \subseteq Created'
      BY <1>0, <1>1, TypesGrow
    <2> QED
      BY <1>1, <1>2, <2>1, Constants DEF Created
  <1>4. pending.code = codes + 1 /\ pending.expires_at = now + OTP_VALID_SECONDS
    OBVIOUS
  <1> HIDE DEF pending
  <1>5. /\ DOMAIN otps' = DOMAIN otps \cup {email} /\ otps'[email] = pending
        /\ \A e \in DOMAIN otps : e # email => otps'[e] = otps[e]
        /\ DOMAIN newest' = DOMAIN newest \cup {email} /\ newest'[email] = pending
        /\ \A e \in DOMAIN newest : e # email => newest'[e] = newest[e]
    BY <1>1 DEF put
  <1>6. \A e \in DOMAIN newest : newest[e].code \in 1 .. codes
    BY <1>0 DEF Shape, map_of, Created
  <1>7. map_of(otps', Emails, Created') /\ map_of(newest', Emails, Created')
    BY <1>0, <1>3, <1>5 DEF Shape, map_of
  <1>8. PendingIsNewest'
    <2>1. \A e \in DOMAIN otps' : e \in DOMAIN newest' /\ otps'[e] = newest'[e]
      BY <1>0, <1>5 DEF PendingIsNewest
    <2>2. \A d, e \in DOMAIN newest' : newest'[d].code = newest'[e].code => d = e
      <3>1. \A e \in DOMAIN newest' :
              newest'[e].code = codes + 1 <=> e = email
        BY <1>2, <1>4, <1>5, <1>6
      <3> QED
        BY <1>0, <1>5, <3>1 DEF PendingIsNewest
    <2> QED
      BY <2>1, <2>2 DEF PendingIsNewest
  <1>9. OnlyRacedCodesAreLost'
    BY <1>0, <1>5 DEF OnlyRacedCodesAreLost
  <1>10. \A e \in DOMAIN newest' :
           newest'[e].code \in 1 .. codes => e \in DOMAIN newest /\ newest'[e] = newest[e]
    BY <1>2, <1>4, <1>5
  <1> QED
    BY <1>1, <1>2, <1>4, <1>5, <1>7, <1>8, <1>9, <1>10

\* A registration that finds no account, and none being stored, is alone; one that finds
\* another being stored makes the e-mail one of two registrations.
LEMMA RegisterReadKeeps ==
  ASSUME DirectoryInv, NEW r \in Requests, NEW email \in Emails, NEW address \in Addresses,
         NEW ip \in Ips, NEW spelling \in Spellings, RegisterRead(r, email, address, ip)
  PROVE  DirectoryInv'
  <1> DEFINE next == [stage |-> "register", email |-> email, address |-> address]
             accepted == /\ email \notin DOMAIN users
                         /\ request' = [request EXCEPT ![r] = next]
                         /\ doubled' = IF being_registered(email) THEN doubled \cup {email}
                                       ELSE doubled
  <1>0. Shape /\ PendingIsNewest /\ RegistersAlone /\ AccountIsStored /\ DeleteJustified
        /\ OnlyRacedCodesAreLost
    BY DEF DirectoryInv
  <1>1. /\ accepted \/ UNCHANGED <<request, doubled>>
        /\ request[r].stage = "idle"
        /\ UNCHANGED <<users, otps, now, restarts, codes, newest, compared, raced>>
    BY DEF RegisterRead, registered, goes_on, idle, database
  <1>2. \A k \in DOMAIN windows' : windows'[k] \in Window'
    <2>1. windows' = check(windows, <<"register", ip>>, REGISTER_IP_MAX,
                           REGISTER_WINDOW, now).windows
      BY DEF RegisterRead
    <2>2. <<email, spelling>> \in Emails \X Spellings
      OBVIOUS
    <2> QED
      BY <1>0, <1>1, <2>1, <2>2, WindowsKeep DEF Window
  <1>3. next \in Request /\ next.stage = "register" /\ next.email = email
    BY DEF Request
  <1> HIDE DEF next
  <1>4. Shape'
    <2>1. request' \in [Requests -> Request]
      BY <1>0, <1>1, <1>3 DEF Shape
    <2> QED
      BY <1>0, <1>1, <1>2, <2>1 DEF Shape, Created, Request, map_of
  <1>5. PendingIsNewest'
    BY <1>0, <1>1 DEF PendingIsNewest
  <1>6. DeleteJustified' /\ OnlyRacedCodesAreLost' /\ AccountIsStored' /\ RegistersAlone'
    <2>1. CASE accepted
      <3>1. /\ request'[r] = next /\ \A q \in Requests : q # r => request'[q] = request[q]
            /\ doubled \subseteq doubled'
        BY <1>0, <2>1 DEF Shape
      <3>2. DeleteJustified'
        BY <1>0, <1>1, <1>3, <3>1 DEF DeleteJustified, verified
      <3>3. OnlyRacedCodesAreLost'
        BY <1>0, <1>1, <3>1 DEF OnlyRacedCodesAreLost
      <3>4. AccountIsStored'
        BY <1>0, <1>1, <1>3, <3>1 DEF AccountIsStored
      <3>5. email \notin doubled' =>
              \A q \in Requests : ~ (request[q].stage = "register" /\ request[q].email = email)
        BY <2>1 DEF being_registered
      <3>6. RegistersAlone'
        BY <1>0, <1>1, <1>3, <2>1, <3>1, <3>5 DEF RegistersAlone
      <3> QED
        BY <3>2, <3>3, <3>4, <3>6
    <2>2. CASE UNCHANGED <<request, doubled>>
      BY <1>0, <1>1, <2>2
         DEF DeleteJustified, verified, OnlyRacedCodesAreLost, AccountIsStored, RegistersAlone
    <2> QED
      BY <1>1, <2>1, <2>2
  <1> QED
    BY <1>4, <1>5, <1>6 DEF DirectoryInv

\* What is stored by a registration that is alone replaces nothing.
LEMMA RegisterStoreKeeps ==
  ASSUME DirectoryInv, NEW r \in Requests, RegisterStore(r)
  PROVE  DirectoryInv' /\ \A e \in DOMAIN users \ doubled : e \in DOMAIN users'
                                                           /\ users'[e] = users[e]
  <1> DEFINE email == request[r].email
             next  == [stage |-> "code", email |-> email]
             new   == [format |-> "current", address |-> request[r].address,
                       verified |-> FALSE]
  <1>0. Shape /\ PendingIsNewest /\ RegistersAlone /\ AccountIsStored /\ DeleteJustified
        /\ OnlyRacedCodesAreLost
    BY DEF DirectoryInv
  <1>1. /\ request[r].stage = "register" /\ users' = put(users, email, new)
        /\ request' = [request EXCEPT ![r] = next]
        /\ UNCHANGED <<otps, windows, now, restarts, codes, newest, compared, raced, doubled>>
    BY DEF RegisterStore, goes_on, history
  <1>2. email \in Emails /\ request[r].address \in Addresses
    BY <1>0, <1>1 DEF Shape, Request, no_request
  <1>3. new \in Account
    BY <1>2 DEF Account
  <1>4. next \in Request /\ next.stage = "code"
    BY <1>2 DEF Request
  <1>5. /\ DOMAIN users' = DOMAIN users \cup {email}
        /\ \A e \in DOMAIN users : e # email => users'[e] = users[e]
    BY <1>1 DEF put
  <1> HIDE DEF next, new
  <1>6. request'[r] = next /\ \A q \in Requests : q # r => request'[q] = request[q]
    BY <1>0, <1>1 DEF Shape
  <1>7. email \in doubled \/ email \notin DOMAIN users
    BY <1>0, <1>1 DEF RegistersAlone
  <1>8. \A e \in DOMAIN users \ doubled : e \in DOMAIN users' /\ users'[e] = users[e]
    BY <1>5, <1>7
  <1>9. Shape'
    <2>1. map_of(users', Emails, Account)
      BY <1>0, <1>1, <1>2, <1>3, PutMapOf DEF Shape
    <2>2. request' \in [Requests -> Request]
      BY <1>0, <1>1, <1>4 DEF Shape
    <2> QED
      BY <1>0, <1>1, <2>1, <2>2 DEF Shape, Created, Request, Window, map_of
  <1>10. PendingIsNewest'
    BY <1>0, <1>1 DEF PendingIsNewest
  <1>11. RegistersAlone'
    BY <1>0, <1>1, <1>4, <1>5, <1>6 DEF RegistersAlone
  <1>12. AccountIsStored'
    BY <1>0, <1>1, <1>4, <1>6, <1>8 DEF AccountIsStored
  <1>13. DeleteJustified'
    BY <1>0, <1>1, <1>4, <1>6, <1>8 DEF DeleteJustified, verified
  <1>14. OnlyRacedCodesAreLost'
    BY <1>0, <1>1, <1>8 DEF OnlyRacedCodesAreLost
  <1> QED
    BY <1>8, <1>9, <1>10, <1>11, <1>12, <1>13, <1>14 DEF DirectoryInv

\* Where a new code, or none, follows a registration or a resend.
LEMMA NewCodeKeeps ==
  ASSUME DirectoryInv, NEW email \in Emails,
         create_pending_otp(email) \/ UNCHANGED <<otps, codes, newest>>,
         UNCHANGED <<users, now, restarts, compared, raced, doubled>>,
         \A k \in DOMAIN windows' : windows'[k] \in Window,
         request' \in [Requests -> Request],
         \A q \in Requests : request'[q] = request[q] \/ request'[q].stage = "idle"
  PROVE  DirectoryInv'
  <1>0. Shape /\ PendingIsNewest /\ RegistersAlone /\ AccountIsStored /\ DeleteJustified
        /\ OnlyRacedCodesAreLost
    BY DEF DirectoryInv
  <1>1. /\ map_of(otps', Emails, Created') /\ map_of(newest', Emails, Created')
        /\ codes' \in {codes, codes + 1} /\ codes' \in 0 .. MaxCodes
        /\ PendingIsNewest' /\ OnlyRacedCodesAreLost'
        /\ \A e \in DOMAIN newest' :
             newest'[e].code \in 1 .. codes => e \in DOMAIN newest /\ newest'[e] = newest[e]
    <2>1. CASE create_pending_otp(email)
      BY <2>1, CodeKeeps
    <2>2. CASE UNCHANGED <<otps, codes, newest>>
      BY <1>0, <2>2 DEF PendingIsNewest, OnlyRacedCodesAreLost, Shape, Created, map_of
    <2> QED
      BY <2>1, <2>2
  <1>2. Request \subseteq Request' /\ Window \subseteq Window'
    BY <1>0, <1>1, TypesGrow
  <1>3. Shape'
    BY <1>0, <1>1, <1>2 DEF Shape
  <1>4. RegistersAlone' /\ AccountIsStored'
    BY <1>0 DEF RegistersAlone, AccountIsStored
  <1>5. DeleteJustified'
    <2>1. \A q \in Requests : request[q].stage = "delete" => request[q].code \in 1 .. codes
      BY <1>0 DEF Shape, Request, no_request
    <2> QED
      BY <1>0, <1>1, <2>1 DEF DeleteJustified, verified
  <1> QED
    BY <1>1, <1>3, <1>4, <1>5 DEF DirectoryInv

\* The task a registration started.
LEMMA CreateCodeKeeps ==
  ASSUME DirectoryInv, NEW r \in Requests, CreateCode(r)
  PROVE  DirectoryInv'
  <1>0. Shape
    BY DEF DirectoryInv
  <1>1. /\ request[r].stage = "code" /\ request' = [request EXCEPT ![r] = no_request]
        /\ create_pending_otp(request[r].email) \/ UNCHANGED <<otps, codes, newest>>
        /\ UNCHANGED <<users, windows, now, restarts, compared, raced, doubled>>
    BY DEF CreateCode, goes_on
  <1>2. request[r].email \in Emails
    BY <1>0, <1>1 DEF Shape, Request, no_request
  <1>3. no_request \in Request /\ no_request.stage = "idle"
    BY DEF Request, no_request
  <1>4. /\ request' \in [Requests -> Request]
        /\ \A q \in Requests : request'[q] = request[q] \/ request'[q].stage = "idle"
    BY <1>0, <1>1, <1>3 DEF Shape
  <1>5. \A k \in DOMAIN windows' : windows'[k] \in Window
    BY <1>0, <1>1 DEF Shape
  <1> QED
    BY <1>1, <1>2, <1>4, <1>5, NewCodeKeeps

\* A resend.
LEMMA ResendKeeps ==
  ASSUME DirectoryInv, NEW r \in Requests, NEW typed \in Emails \X Spellings,
         NEW ip \in Ips, Resend(r, typed, ip)
  PROVE  DirectoryInv'
  <1>0. Shape /\ typed[1] \in Emails
    BY DEF DirectoryInv
  <1>1. /\ create_pending_otp(typed[1]) \/ UNCHANGED <<otps, codes, newest>>
        /\ UNCHANGED <<users, request, now, restarts, compared, raced, doubled>>
    BY DEF Resend
  <1>2. windows' = limited("resend", typed, RESEND_EMAIL_MAX, ip, RESEND_IP_MAX,
                           RESEND_WINDOW).windows
    BY DEF Resend
  <1>3. \A k \in DOMAIN windows' : windows'[k] \in Window
    BY <1>0, <1>2, WindowsKeep
  <1>4. request' \in [Requests -> Request] /\ \A q \in Requests : request'[q] = request[q]
    BY <1>0, <1>1 DEF Shape
  <1> QED
    BY <1>0, <1>1, <1>3, <1>4, NewCodeKeeps

\* What is left of an attempt once the pending code was read: a request that may remove
\* the code, since it is out of date, one that goes on to the account, or none.
LEMMA VerifyReadKeeps ==
  ASSUME DirectoryInv, NEW r \in Requests, NEW typed \in Emails \X Spellings,
         NEW ip \in Ips, NEW code \in 0 .. codes, VerifyRead(r, typed, ip, code)
  PROVE  DirectoryInv'
  <1> DEFINE email == typed[1]
             next  == after_comparison(email, otps[email], code)
             read  == email \in DOMAIN otps /\ request' = [request EXCEPT ![r] = next]
  <1>0. Shape /\ PendingIsNewest /\ RegistersAlone /\ AccountIsStored /\ DeleteJustified
        /\ OnlyRacedCodesAreLost /\ email \in Emails
    BY DEF DirectoryInv
  <1>1. /\ \/ /\ read
              /\ compared' = IF now > otps[email].expires_at THEN compared
                             ELSE [compared EXCEPT ![otps[email].code] = @ + 1]
           \/ UNCHANGED <<request, compared>>
        /\ UNCHANGED <<users, otps, now, restarts, codes, newest, raced, doubled>>
    BY DEF VerifyRead, goes_on, database
  <1>2. \A k \in DOMAIN windows' : windows'[k] \in Window
    <2>1. windows' = limited("verify", typed, VERIFY_EMAIL_MAX, ip, VERIFY_IP_MAX,
                             VERIFY_WINDOW).windows
      BY DEF VerifyRead
    <2> QED
      BY <1>0, <2>1, WindowsKeep
  <1>3. compared' \in [Codes -> Nat]
    <2>1. compared \in [Codes -> Nat]
      BY <1>0 DEF Shape
    <2>2. \A c \in Codes : [compared EXCEPT ![c] = @ + 1] \in [Codes -> Nat]
      BY <2>1
    <2>3. email \in DOMAIN otps => otps[email].code \in 1 .. codes
      BY <1>0 DEF Shape, map_of, Created
    <2>4. 1 .. codes \subseteq Codes
      BY <1>0, Constants DEF Shape, Codes
    <2> QED
      BY <1>1, <2>1, <2>2, <2>3, <2>4
  <1>4. ASSUME read
        PROVE  /\ next \in Request /\ next.stage \in {"idle", "account", "delete"}
               /\ next.stage = "delete" => /\ next.email = email
                                           /\ now > otps[email].expires_at
    <2>1. otps[email] \in Created
      BY <1>0, <1>4 DEF Shape, map_of
    <2>2. otps[email].code \in 1 .. codes
      BY <2>1 DEF Created
    <2>3. CASE now > otps[email].expires_at
      <3>1. next = [stage |-> "delete", email |-> email, code |-> otps[email].code]
        BY <2>3 DEF after_comparison
      <3> QED
        BY <1>0, <2>2, <2>3, <3>1 DEF Request
    <2>4. CASE ~ now > otps[email].expires_at
      <3>1. \/ next = no_request
            \/ next = [stage |-> "account", email |-> email, code |-> otps[email].code]
        BY <2>4 DEF after_comparison
      <3> QED
        BY <1>0, <2>2, <3>1 DEF Request, no_request
    <2> QED
      BY <2>3, <2>4
  <1> HIDE DEF next
  <1>5. Shape'
    <2>1. request' \in [Requests -> Request]
      BY <1>0, <1>1, <1>4 DEF Shape
    <2> QED
      BY <1>0, <1>1, <1>2, <1>3, <2>1 DEF Shape, Created, Request, Window, map_of
  <1>6. PendingIsNewest' /\ OnlyRacedCodesAreLost'
    BY <1>0, <1>1 DEF PendingIsNewest, OnlyRacedCodesAreLost
  <1>7. RegistersAlone' /\ AccountIsStored' /\ DeleteJustified'
    <2>1. CASE read
      <3>1. request'[r] = next /\ \A q \in Requests : q # r => request'[q] = request[q]
        BY <1>0, <2>1 DEF Shape
      <3>2. RegistersAlone' /\ AccountIsStored'
        BY <1>0, <1>1, <1>4, <2>1, <3>1 DEF RegistersAlone, AccountIsStored
      <3>3. otps[email] = newest[email]
        BY <1>0, <2>1 DEF PendingIsNewest
      <3>4. DeleteJustified'
        BY <1>0, <1>1, <1>4, <2>1, <3>1, <3>3 DEF DeleteJustified, verified
      <3> QED
        BY <3>2, <3>4
    <2>2. CASE UNCHANGED <<request, compared>>
      BY <1>0, <1>1, <2>2 DEF RegistersAlone, AccountIsStored, DeleteJustified, verified
    <2> QED
      BY <1>1, <2>1, <2>2
  <1> QED
    BY <1>5, <1>6, <1>7 DEF DirectoryInv

\* The account a verification goes on with is the one it read.
LEMMA VerifyAccountKeeps ==
  ASSUME DirectoryInv, NEW r \in Requests, VerifyAccount(r)
  PROVE  DirectoryInv'
  <1> DEFINE email == request[r].email
             next  == [stage |-> "verified", email |-> email, code |-> request[r].code,
                       account |-> users[email]]
  <1>0. Shape /\ PendingIsNewest /\ RegistersAlone /\ AccountIsStored /\ DeleteJustified
        /\ OnlyRacedCodesAreLost
    BY DEF DirectoryInv
  <1>1. /\ \/ email \in DOMAIN users /\ request' = [request EXCEPT ![r] = next]
           \/ request' = [request EXCEPT ![r] = no_request]
        /\ request[r].stage = "account"
        /\ UNCHANGED <<database, windows, now, restarts, codes, history>>
    BY DEF VerifyAccount, goes_on
  <1>2. request[r].email \in Emails /\ request[r].code \in 1 .. codes
    BY <1>0, <1>1 DEF Shape, Request, no_request
  <1>3. email \in DOMAIN users => next \in Request
    BY <1>0, <1>2 DEF Request, Shape, map_of
  <1>4. no_request \in Request /\ no_request.stage = "idle" /\ next.stage = "verified"
        /\ next.email = email /\ next.account = users[email]
    BY DEF Request, no_request
  <1> HIDE DEF next
  <1>5. /\ \A q \in Requests : q # r => request'[q] = request[q]
        /\ \/ email \in DOMAIN users /\ request'[r] = next
           \/ request'[r] = no_request
    BY <1>0, <1>1 DEF Shape
  <1>6. Shape'
    <2>1. request' \in [Requests -> Request]
      BY <1>0, <1>1, <1>3, <1>4 DEF Shape
    <2> QED
      BY <1>0, <1>1, <2>1
         DEF Shape, Created, Request, Window, map_of, database, history
  <1>7. PendingIsNewest' /\ OnlyRacedCodesAreLost'
    BY <1>0, <1>1 DEF PendingIsNewest, OnlyRacedCodesAreLost, database, history
  <1>8. RegistersAlone' /\ AccountIsStored' /\ DeleteJustified'
    BY <1>0, <1>1, <1>4, <1>5
       DEF RegistersAlone, AccountIsStored, DeleteJustified, verified, database, history
  <1> QED
    BY <1>6, <1>7, <1>8 DEF DirectoryInv

\* Writing the account back changes neither its address nor takes its verification away.
LEMMA VerifyStoreKeeps ==
  ASSUME DirectoryInv, NEW r \in Requests, VerifyStore(r)
  PROVE  /\ DirectoryInv'
         /\ \A e \in DOMAIN users \ doubled :
              /\ e \in DOMAIN users' /\ users'[e].address = users[e].address
              /\ users[e].verified => users'[e].verified
  <1> DEFINE email  == request[r].email
             stored == [request[r].account EXCEPT !.verified = TRUE]
             next   == [stage |-> "delete", email |-> email, code |-> request[r].code]
  <1>0. Shape /\ PendingIsNewest /\ RegistersAlone /\ AccountIsStored /\ DeleteJustified
        /\ OnlyRacedCodesAreLost
    BY DEF DirectoryInv
  <1>1. /\ request[r].stage = "verified" /\ users' = put(users, email, stored)
        /\ request' = [request EXCEPT ![r] = next]
        /\ UNCHANGED <<otps, windows, now, restarts, codes, history>>
    BY DEF VerifyStore, goes_on
  <1>2. email \in Emails /\ request[r].code \in 1 .. codes /\ request[r].account \in Account
    BY <1>0, <1>1 DEF Shape, Request, no_request
  <1>3. stored \in Account /\ stored.address = request[r].account.address /\ stored.verified
    BY <1>2 DEF Account
  <1>4. next \in Request /\ next.stage = "delete" /\ next.email = email
    BY <1>2 DEF Request
  <1>5. /\ DOMAIN users' = DOMAIN users \cup {email} /\ users'[email] = stored
        /\ \A e \in DOMAIN users : e # email => users'[e] = users[e]
    BY <1>1 DEF put
  <1> HIDE DEF next, stored
  <1>6. request'[r] = next /\ \A q \in Requests : q # r => request'[q] = request[q]
    BY <1>0, <1>1 DEF Shape
  <1>7. \/ email \in doubled
        \/ email \in DOMAIN users /\ users[email].address = request[r].account.address
    BY <1>0, <1>1 DEF AccountIsStored
  <1>8. \A e \in DOMAIN users \ doubled :
          /\ e \in DOMAIN users' /\ users'[e].address = users[e].address
          /\ users[e].verified => users'[e].verified
    BY <1>3, <1>5, <1>7
  <1>9. Shape'
    <2>1. map_of(users', Emails, Account)
      BY <1>0, <1>1, <1>2, <1>3, PutMapOf DEF Shape
    <2>2. request' \in [Requests -> Request]
      BY <1>0, <1>1, <1>4 DEF Shape
    <2> QED
      BY <1>0, <1>1, <2>1, <2>2 DEF Shape, Created, Request, Window, map_of, history
  <1>10. \A e : verified(e) => verified(e)' \/ e \in doubled
    BY <1>3, <1>5, <1>8 DEF verified
  <1>11. email \in DOMAIN users' /\ users'[email].verified
    BY <1>3, <1>5
  <1>12. PendingIsNewest' /\ RegistersAlone'
    BY <1>0, <1>1, <1>4, <1>5, <1>6, <1>7 DEF PendingIsNewest, RegistersAlone, history
  <1>13. AccountIsStored'
    BY <1>0, <1>1, <1>4, <1>6, <1>8 DEF AccountIsStored, history
  <1>14. DeleteJustified'
    BY <1>0, <1>1, <1>4, <1>6, <1>10, <1>11 DEF DeleteJustified, verified, history
  <1>15. OnlyRacedCodesAreLost'
    BY <1>0, <1>1, <1>10 DEF OnlyRacedCodesAreLost, verified, history
  <1> QED
    BY <1>8, <1>9, <1>12, <1>13, <1>14, <1>15 DEF DirectoryInv

\* The code that is removed is one the request may remove, or it is a raced one.
LEMMA VerifyDeleteKeeps ==
  ASSUME DirectoryInv, NEW r \in Requests, VerifyDelete(r)
  PROVE  DirectoryInv'
  <1> DEFINE email == request[r].email
  <1>0. Shape /\ PendingIsNewest /\ RegistersAlone /\ AccountIsStored /\ DeleteJustified
        /\ OnlyRacedCodesAreLost
    BY DEF DirectoryInv
  <1>1. /\ request[r].stage = "delete" /\ otps' = restrict_to(otps, DOMAIN otps \ {email})
        /\ raced' = IF email \in DOMAIN otps /\ otps[email].code # request[r].code
                    THEN raced \cup {otps[email].code} ELSE raced
        /\ request' = [request EXCEPT ![r] = no_request]
        /\ UNCHANGED <<users, windows, now, restarts, codes, newest, compared, doubled>>
    BY DEF VerifyDelete, goes_on
  <1>2. /\ DOMAIN otps' = DOMAIN otps \ {email}
        /\ \A e \in DOMAIN otps : e # email => otps'[e] = otps[e]
    BY <1>1 DEF restrict_to
  <1>3. no_request \in Request /\ no_request.stage = "idle"
    BY DEF Request, no_request
  <1>4. /\ request'[r] = no_request /\ \A q \in Requests : q # r => request'[q] = request[q]
        /\ request' \in [Requests -> Request]
    BY <1>0, <1>1, <1>3 DEF Shape
  <1>5. Shape'
    <2>1. map_of(otps', Emails, Created)
      BY <1>0, <1>2 DEF Shape, map_of
    <2> QED
      BY <1>0, <1>1, <1>4, <2>1 DEF Shape, Created, Request, Window, map_of
  <1>6. PendingIsNewest'
    BY <1>0, <1>1, <1>2 DEF PendingIsNewest
  <1>7. RegistersAlone' /\ AccountIsStored' /\ DeleteJustified'
    BY <1>0, <1>1, <1>3, <1>4 DEF RegistersAlone, AccountIsStored, DeleteJustified, verified
  <1>8. OnlyRacedCodesAreLost'
    <2> SUFFICES ASSUME NEW e \in DOMAIN newest
                 PROVE  \/ now > newest[e].expires_at
                        \/ newest[e].code \in raced'
                        \/ e \in DOMAIN users /\ users[e].verified
                        \/ e \in doubled
                        \/ e \in DOMAIN otps' /\ otps'[e] = newest[e]
      BY <1>1 DEF OnlyRacedCodesAreLost
    <2>1. CASE e # email \/ e \notin DOMAIN otps
      BY <1>0, <1>1, <1>2, <2>1 DEF OnlyRacedCodesAreLost
    <2>2. CASE e = email /\ e \in DOMAIN otps
      <3>1. otps[e] = newest[e]
        BY <1>0, <2>2 DEF PendingIsNewest
      <3>2. CASE newest[e].code = request[r].code
        BY <1>0, <1>1, <2>2, <3>2 DEF DeleteJustified, verified
      <3>3. CASE newest[e].code # request[r].code
        BY <1>1, <2>2, <3>1, <3>3
      <3> QED
        BY <3>2, <3>3
    <2> QED
      BY <2>1, <2>2
  <1> QED
    BY <1>5, <1>6, <1>7, <1>8 DEF DirectoryInv

\* Time passes.
LEMMA TickKeeps == ASSUME DirectoryInv, Tick PROVE DirectoryInv'
  <1>0. Shape /\ PendingIsNewest /\ RegistersAlone /\ AccountIsStored /\ DeleteJustified
        /\ OnlyRacedCodesAreLost
    BY DEF DirectoryInv
  <1>1. /\ now < MaxTime /\ now' = now + 1
        /\ UNCHANGED <<users, otps, windows, request, restarts, codes, history>>
    BY DEF Tick, database
  <1>2. /\ Request \subseteq Request' /\ Created \subseteq Created' /\ Window \subseteq Window'
        /\ now \in Nat /\ now' \in 0 .. MaxTime
    BY <1>0, <1>1, TypesGrow, Constants DEF Shape
  <1>3. Shape'
    BY <1>0, <1>1, <1>2 DEF Shape, map_of, history
  <1>4. PendingIsNewest' /\ RegistersAlone' /\ AccountIsStored'
    BY <1>0, <1>1 DEF PendingIsNewest, RegistersAlone, AccountIsStored, history
  <1>5. \A e \in DOMAIN newest : now > newest[e].expires_at => now' > newest[e].expires_at
    <2>1. \A e \in DOMAIN newest : newest[e].expires_at \in Int
      BY <1>0 DEF Shape, map_of, Created
    <2> QED
      BY <1>1, <1>2, <2>1
  <1>6. DeleteJustified' /\ OnlyRacedCodesAreLost'
    BY <1>0, <1>1, <1>5 DEF DeleteJustified, OnlyRacedCodesAreLost, verified, history
  <1> QED
    BY <1>3, <1>4, <1>6 DEF DirectoryInv

\* A crash of the node forgets the requests and the windows.
LEMMA RestartKeeps == ASSUME DirectoryInv, Restart PROVE DirectoryInv'
  <1>0. Shape /\ PendingIsNewest /\ RegistersAlone /\ AccountIsStored /\ DeleteJustified
        /\ OnlyRacedCodesAreLost
    BY DEF DirectoryInv
  <1>1. /\ restarts' \in 0 .. MaxRestarts
        /\ windows' = [k \in {} |-> 0] /\ request' = [q \in Requests |-> no_request]
        /\ UNCHANGED <<users, otps, now, codes, history>>
    BY <1>0, Constants DEF Restart, database, Shape
  <1>2. no_request \in Request /\ no_request.stage = "idle"
    BY DEF Request, no_request
  <1>3. request' \in [Requests -> Request] /\ \A q \in Requests : request'[q].stage = "idle"
        /\ DOMAIN windows' = {}
    BY <1>1, <1>2
  <1>4. Shape'
    BY <1>0, <1>1, <1>3 DEF Shape, Created, Request, map_of, history
  <1>5. RegistersAlone' /\ AccountIsStored' /\ DeleteJustified'
    BY <1>3 DEF RegistersAlone, AccountIsStored, DeleteJustified
  <1>6. PendingIsNewest' /\ OnlyRacedCodesAreLost'
    BY <1>0, <1>1 DEF PendingIsNewest, OnlyRacedCodesAreLost, history
  <1> QED
    BY <1>4, <1>5, <1>6 DEF DirectoryInv

\* The invariant holds at the start.
LEMMA InitDirectoryInv == Init => DirectoryInv
  <1> SUFFICES ASSUME Init PROVE DirectoryInv
    OBVIOUS
  <1>1. Shape
    <2>1. map_of(users, Emails, Account)
      <3>1. PICK old \in SUBSET Emails, a \in Addresses :
              users = [e \in old |-> [format |-> "legacy", address |-> a, verified |-> FALSE]]
        BY DEF Init
      <3>2. [format |-> "legacy", address |-> a, verified |-> FALSE] \in Account
        BY DEF Account
      <3> QED
        BY <3>1, <3>2 DEF map_of
    <2>2. DOMAIN otps = {} /\ DOMAIN newest = {} /\ DOMAIN windows = {}
      BY DEF Init
    <2>3. request \in [Requests -> Request]
      BY DEF Init, Request
    <2>4. map_of(otps, Emails, Created) /\ map_of(newest, Emails, Created)
      BY <2>2 DEF map_of
    <2>5. compared \in [Codes -> Nat]
      BY DEF Init
    <2>6. now \in 0 .. MaxTime /\ restarts \in 0 .. MaxRestarts /\ codes \in 0 .. MaxCodes
      BY Constants DEF Init
    <2> QED
      BY <2>1, <2>2, <2>3, <2>4, <2>5, <2>6 DEF Shape
  <1>2. DOMAIN otps = {} /\ DOMAIN newest = {} /\ \A r \in Requests : request[r].stage = "idle"
    BY DEF Init, no_request
  <1> QED
    BY <1>1, <1>2 DEF DirectoryInv, PendingIsNewest, RegistersAlone, AccountIsStored,
       DeleteJustified, OnlyRacedCodesAreLost

\* Every step preserves the invariant, and keeps the accounts not registered twice.
LEMMA NextDirectoryInv ==
  DirectoryInv /\ [Next]_vars =>
    /\ DirectoryInv'
    /\ \A e \in DOMAIN users \ doubled :
         /\ e \in DOMAIN users' /\ users'[e].address = users[e].address
         /\ users[e].verified => users'[e].verified
  <1> SUFFICES ASSUME DirectoryInv, [Next]_vars
               PROVE  /\ DirectoryInv'
                      /\ \A e \in DOMAIN users \ doubled :
                           /\ e \in DOMAIN users' /\ users'[e].address = users[e].address
                           /\ users[e].verified => users'[e].verified
    OBVIOUS
  <1>1. ASSUME NEW r \in Requests, NEW typed \in Emails \X Spellings, NEW ip \in Ips,
               NEW address \in Addresses, RegisterRead(r, typed[1], address, ip)
        PROVE  DirectoryInv' /\ users' = users
    <2>1. typed[1] \in Emails /\ typed[2] \in Spellings
      OBVIOUS
    <2> QED
      BY <1>1, <2>1, RegisterReadKeeps DEF RegisterRead, database
  <1>2. ASSUME NEW r \in Requests, NEW typed \in Emails \X Spellings, NEW ip \in Ips,
               Resend(r, typed, ip)
        PROVE  DirectoryInv' /\ users' = users
    BY <1>2, ResendKeeps DEF Resend
  <1>3. ASSUME NEW r \in Requests, NEW typed \in Emails \X Spellings, NEW ip \in Ips,
               NEW code \in 0 .. codes, VerifyRead(r, typed, ip, code)
        PROVE  DirectoryInv' /\ users' = users
    BY <1>3, VerifyReadKeeps DEF VerifyRead, database
  <1>4. ASSUME NEW r \in Requests, CreateCode(r) \/ VerifyAccount(r) \/ VerifyDelete(r)
        PROVE  DirectoryInv' /\ users' = users
    BY <1>4, CreateCodeKeeps, VerifyAccountKeeps, VerifyDeleteKeeps
       DEF CreateCode, VerifyAccount, VerifyDelete, database
  <1>5. CASE Tick \/ Restart
    BY <1>5, TickKeeps, RestartKeeps DEF Tick, Restart, database
  <1>6. ASSUME NEW r \in Requests, RegisterStore(r)
        PROVE  /\ DirectoryInv'
               /\ \A e \in DOMAIN users \ doubled :
                    /\ e \in DOMAIN users' /\ users'[e].address = users[e].address
                    /\ users[e].verified => users'[e].verified
    BY <1>6, RegisterStoreKeeps
  <1>7. ASSUME NEW r \in Requests, VerifyStore(r)
        PROVE  /\ DirectoryInv'
               /\ \A e \in DOMAIN users \ doubled :
                    /\ e \in DOMAIN users' /\ users'[e].address = users[e].address
                    /\ users[e].verified => users'[e].verified
    BY <1>7, VerifyStoreKeeps
  <1>8. CASE UNCHANGED vars
    <2>1. DirectoryInv'
      BY <1>8 DEF vars, database, history, DirectoryInv, Shape, Created, Request, Window,
         map_of, PendingIsNewest, RegistersAlone, AccountIsStored, DeleteJustified, verified,
         OnlyRacedCodesAreLost
    <2> QED
      BY <1>8, <2>1 DEF vars, database
  <1> QED
    BY <1>1, <1>2, <1>3, <1>4, <1>5, <1>6, <1>7, <1>8 DEF Next

\* The directory's invariant holds in every reachable state.
THEOREM AccountsDirectoryInv == Spec => []DirectoryInv
  BY InitDirectoryInv, NextDirectoryInv, PTL DEF Spec

\* The database, the limiter's map and the requests in progress have their shapes, for any
\* number of requests, e-mails and callers.
THEOREM AccountsTypeOK == Spec => []TypeOK
  <1>1. ASSUME DirectoryInv PROVE TypeOK
    <2>1. Shape
      BY <1>1 DEF DirectoryInv
    <2>2. \A e \in DOMAIN otps : otps[e] \in PendingOtp /\ otps[e].code <= codes
      <3> SUFFICES ASSUME NEW e \in DOMAIN otps
                   PROVE  otps[e] \in PendingOtp /\ otps[e].code <= codes
        OBVIOUS
      <3>1. otps[e] \in Created /\ codes \in 0 .. MaxCodes /\ now \in 0 .. MaxTime
        BY <2>1 DEF Shape, map_of
      <3>2. 1 .. codes \subseteq Codes /\ 0 .. now + OTP_VALID_SECONDS \subseteq Nat
        BY <3>1, Constants DEF Codes
      <3> QED
        BY <3>1, <3>2, Constants DEF Created, PendingOtp
    <2>3. \A r \in Requests :
            /\ request[r].stage \in {"idle", "register", "code", "account",
                                    "verified", "delete"}
            /\ request[r].stage # "idle" => request[r].email \in Emails
            /\ request[r].stage \in {"account", "verified", "delete"} =>
                 request[r].code \in 1 .. codes
            /\ request[r].stage = "verified" => request[r].account \in Account
      BY <2>1 DEF Shape, Request, no_request
    <2> QED
      BY <2>1, <2>2, <2>3 DEF TypeOK, Shape, map_of, Window
  <1> QED
    BY <1>1, AccountsDirectoryInv, PTL

\* No wrong attempt, failed mail, resend or crash takes the newest code of an e-mail away
\* while it is valid and the account is not verified: verify_otp's delete does so only after
\* a race that raced and doubled remember.
THEOREM AccountsOnlyRacedCodesAreLost == Spec => []OnlyRacedCodesAreLost
  <1>1. DirectoryInv => OnlyRacedCodesAreLost
    BY DEF DirectoryInv
  <1> QED
    BY <1>1, AccountsDirectoryInv, PTL

\* Without two registrations of one e-mail at once, no request of register_user or
\* verify_otp, however interleaved, changes an account's address or undoes its verification.
THEOREM AccountsAreKept == Spec => AccountsKept
  <1> DEFINE kept == \A e \in DOMAIN users \ doubled :
                       /\ \E shown \in lookup_user(e) :
                            /\ shown \in list_all_users
                            /\ shown.address = users[e].address
                       /\ e \in DOMAIN users'
                       /\ users'[e].address = users[e].address
                       /\ users[e].verified => users'[e].verified
  <1>1. ASSUME DirectoryInv, [Next]_vars PROVE kept
    <2> SUFFICES ASSUME NEW e \in DOMAIN users \ doubled
                 PROVE  \E shown \in lookup_user(e) :
                          shown \in list_all_users /\ shown.address = users[e].address
      BY <1>1, NextDirectoryInv
    <2> DEFINE shown == [users[e] EXCEPT !.format = "current"]
    <2>1. users[e] \in Account
      BY <1>1 DEF DirectoryInv, Shape, map_of
    <2>2. shown.address = users[e].address
      BY <2>1 DEF Account
    <2>3. shown \in lookup_user(e) /\ shown \in list_all_users
      BY DEF lookup_user, list_all_users, read_account
    <2> QED
      BY <2>2, <2>3
  <1> QED
    BY <1>1, AccountsDirectoryInv, PTL DEF Spec, AccountsKept

(***************************************************************************)
(* How many submissions a code meets.  compared counts them for each code; *)
(* the invariant splits the count between the keys of the limiter, and     *)
(* bounds each part by what the windows of the key have let pass.          *)
(***************************************************************************)

Families == {"email", "ip"}
who(f) == IF f = "email" THEN Spellings ELSE Ips
most(f) == IF f = "email" THEN VERIFY_EMAIL_MAX ELSE VERIFY_IP_MAX

\* The key an attempt on the e-mail's code is counted under.
verify_key(f, e, w) == <<"verify", IF f = "email" THEN <<e, w>> ELSE w>>

WindowsBounded ==
  \A f \in Families, e \in Emails : \A w \in who(f) :
    verify_key(f, e, w) \in DOMAIN windows =>
      windows[verify_key(f, e, w)].count <= most(f)

live(e, c) == e \in DOMAIN otps /\ otps[e].code = c /\ now <= otps[e].expires_at

\* How often the pending code of the e-mail can have been compared under the key: in the
\* windows of earlier runs of the node, in one that was open when the code was made, and
\* in one that was opened later.
allowance(f, e, w) ==
  IF verify_key(f, e, w) \notin DOMAIN windows THEN (1 + restarts) * most(f)
  ELSE LET window == windows[verify_key(f, e, w)]
       IN  IF window.started + OTP_VALID_SECONDS < otps[e].expires_at
           THEN restarts * most(f) + window.count
           ELSE (1 + restarts) * most(f) + window.count

\* One element for each submission counted.
tallies(f, n) == {t \in who(f) \X Nat : t[2] \in 1 .. n[t[1]]}

\* n tells how the submissions compared with the code fall to the keys.
Tallied(f, c, n) ==
  /\ compared[c] = Cardinality(tallies(f, n))
  /\ \A w \in who(f) : n[w] <= (2 + restarts) * most(f)
  /\ c > codes => \A w \in who(f) : n[w] = 0
  /\ \A e \in Emails : live(e, c) => \A w \in who(f) : n[w] <= allowance(f, e, w)

AttemptsInv ==
  /\ WindowsBounded
  /\ \A f \in Families, c \in Codes : \E n \in [who(f) -> Nat] : Tallied(f, c, n)

\* Callers and spellings are finitely many, the limits positive.
LEMMA FamilyFacts ==
  ASSUME NEW f \in Families
  PROVE  IsFiniteSet(who(f)) /\ most(f) \in Nat \ {0}
  BY AccountsAssumption, Constants DEF Families, who, most

\* Products of the limit with one and two more runs of the node.
LEMMA Products ==
  ASSUME NEW runs \in Nat, NEW max \in Nat
  PROVE  /\ runs * max \in Nat /\ (1 + runs) * max = runs * max + max
         /\ (2 + runs) * max = runs * max + max + max
  OBVIOUS

\* Tallies below a bound are finitely many, and no more than the keys times the bound.
LEMMA TalliesBounded ==
  ASSUME NEW f \in Families, NEW n \in [who(f) -> Nat], NEW bound \in Nat,
         \A w \in who(f) : n[w] <= bound
  PROVE  /\ IsFiniteSet(tallies(f, n)) /\ Cardinality(tallies(f, n)) \in Nat
         /\ Cardinality(tallies(f, n)) <= bound * Cardinality(who(f))
  <1> DEFINE all == who(f) \X (1 .. bound)
  <1>1. IsFiniteSet(who(f)) /\ IsFiniteSet(1 .. bound) /\ Cardinality(1 .. bound) = bound
    BY FamilyFacts, FS_Interval
  <1>2. IsFiniteSet(all) /\ Cardinality(all) = Cardinality(who(f)) * bound
    BY <1>1, FS_Product
  <1>3. tallies(f, n) \subseteq all
    BY DEF tallies
  <1>4. Cardinality(who(f)) \in Nat
    BY <1>1, FS_CardinalityType
  <1>5. /\ IsFiniteSet(tallies(f, n)) /\ Cardinality(tallies(f, n)) <= Cardinality(all)
    BY <1>2, <1>3, FS_Subset
  <1>6. Cardinality(tallies(f, n)) \in Nat
    BY <1>5, FS_CardinalityType
  <1>7. \A a, b \in Nat : a * b = b * a
    OBVIOUS
  <1> QED
    BY <1>2, <1>4, <1>5, <1>6, <1>7

\* One more submission under a key is one more tally.
LEMMA TallyOne ==
  ASSUME NEW f \in Families, NEW n \in [who(f) -> Nat], NEW w \in who(f),
         IsFiniteSet(tallies(f, n))
  PROVE  LET more == [n EXCEPT ![w] = @ + 1]
         IN  Cardinality(tallies(f, more)) = Cardinality(tallies(f, n)) + 1
  <1> DEFINE more == [n EXCEPT ![w] = @ + 1]
             new  == <<w, n[w] + 1>>
  <1>1. more \in [who(f) -> Nat] /\ more[w] = n[w] + 1
        /\ \A v \in who(f) : v # w => more[v] = n[v]
    OBVIOUS
  <1> HIDE DEF more
  <1>2. \A v \in who(f), i \in Nat :
          i \in 1 .. more[v] <=> i \in 1 .. n[v] \/ (v = w /\ i = n[w] + 1)
    BY <1>1
  <1>3. tallies(f, more) = tallies(f, n) \cup {new}
    <2>1. \A t \in who(f) \X Nat :
            t \in tallies(f, more) <=> t \in tallies(f, n) \/ t = new
      BY <1>2 DEF tallies
    <2>2. new \in who(f) \X Nat
      OBVIOUS
    <2> QED
      BY <2>1, <2>2 DEF tallies
  <1>4. new \notin tallies(f, n)
    BY DEF tallies
  <1> HIDE DEF new
  <1>5. Cardinality(tallies(f, n) \cup {new}) = Cardinality(tallies(f, n)) + 1
    BY <1>4, FS_AddElement
  <1> QED
    BY <1>3, <1>5 DEF more

\* What may happen to the window of a key while the node runs.
moved(k) ==
  untouched(windows, windows', k) \/ counted(windows, windows', k, VERIFY_WINDOW)

\* While a code is live its allowance under a key never shrinks, and grows with every call
\* counted under it: a window that is opened anew while the code is live is the first one
\* opened since the code was made, for windows are not shorter than its life.
LEMMA AllowanceGrows ==
  ASSUME Shape, WindowsBounded, NEW f \in Families, NEW e \in Emails, NEW w \in who(f),
         e \in DOMAIN otps, now <= otps[e].expires_at,
         e \in DOMAIN otps', otps'[e] = otps[e],
         \/ restarts' = restarts /\ moved(verify_key(f, e, w))
         \/ restarts' = restarts + 1 /\ verify_key(f, e, w) \notin DOMAIN windows'
  PROVE  /\ allowance(f, e, w) \in Nat /\ allowance(f, e, w)' \in Nat
         /\ allowance(f, e, w) <= allowance(f, e, w)'
         /\ restarts' = restarts /\ counted(windows, windows', verify_key(f, e, w), VERIFY_WINDOW)
              => allowance(f, e, w) + 1 <= allowance(f, e, w)'
  <1> DEFINE k      == verify_key(f, e, w)
             expiry == otps[e].expires_at
             max    == most(f)
             runs   == restarts
             older(window) == window.started + OTP_VALID_SECONDS < expiry
             value(window, r) == IF older(window) THEN r * max + window.count
                                 ELSE (1 + r) * max + window.count
  <1>1. /\ runs \in Nat /\ max \in Nat \ {0} /\ now \in Nat /\ expiry \in Nat
        /\ expiry <= now + OTP_VALID_SECONDS
    <2>1. otps[e] \in Created
      BY DEF Shape, map_of
    <2>2. expiry \in 0 .. now + OTP_VALID_SECONDS
      BY <2>1 DEF Created
    <2> QED
      BY <2>2, FamilyFacts, Constants DEF Shape
  <1>2. /\ allowance(f, e, w) = IF k \notin DOMAIN windows THEN (1 + runs) * max
                                ELSE value(windows[k], runs)
        /\ allowance(f, e, w)' = IF k \notin DOMAIN windows' THEN (1 + restarts') * max
                                 ELSE value(windows'[k], restarts')
    BY DEF allowance, verify_key, most
  <1>3. k \in DOMAIN windows =>
          /\ windows[k].count \in Nat \ {0} /\ windows[k].count <= max
          /\ windows[k].started \in 0 .. now
    BY DEF Shape, Window, WindowsBounded
  <1>4. /\ runs * max \in Nat /\ (1 + runs) * max = runs * max + max
        /\ (2 + runs) * max = runs * max + max + max
    BY <1>1, Products
  <1> HIDE DEF k, expiry, max, runs
  <1>5. CASE restarts' = restarts /\ untouched(windows, windows', k)
    <2>1. CASE k \notin DOMAIN windows
      <3>1. k \notin DOMAIN windows' /\ ~ counted(windows, windows', k, VERIFY_WINDOW)
        BY <1>5, <2>1 DEF untouched, counted
      <3> QED
        BY <1>1, <1>2, <1>4, <1>5, <2>1, <3>1 DEF k, runs
    <2>2. CASE k \in DOMAIN windows /\ k \in DOMAIN windows'
      <3>1. windows'[k] = windows[k]
        BY <1>5, <2>2 DEF untouched
      <3>2. counted(windows, windows', k, VERIFY_WINDOW) => FALSE
        <4>1. ASSUME counted(windows, windows', k, VERIFY_WINDOW) PROVE FALSE
          BY <1>1, <1>3, <2>2, <3>1, <4>1, Constants DEF counted
        <4> QED
          BY <4>1
      <3> QED
        BY <1>1, <1>2, <1>3, <1>4, <1>5, <2>2, <3>1, <3>2, Constants DEF k, runs
    <2>3. CASE k \in DOMAIN windows /\ k \notin DOMAIN windows'
      <3>1. now - windows[k].started >= FORGET_SECS
        BY <1>5, <2>3 DEF untouched
      <3>2. older(windows[k])
        BY <1>1, <1>3, <2>3, <3>1, Constants DEF expiry
      <3>3. ~ counted(windows, windows', k, VERIFY_WINDOW)
        BY <2>3 DEF counted
      <3> QED
        BY <1>1, <1>2, <1>3, <1>4, <1>5, <2>3, <3>2, <3>3 DEF k, runs
    <2> QED
      BY <2>1, <2>2, <2>3, <1>5 DEF untouched
  <1>6. CASE restarts' = restarts /\ counted(windows, windows', k, VERIFY_WINDOW)
    <2>1. CASE /\ k \in DOMAIN windows /\ now - windows[k].started <= VERIFY_WINDOW
               /\ windows'[k].started = windows[k].started
               /\ windows'[k].count = windows[k].count + 1
      BY <1>1, <1>2, <1>3, <1>4, <1>6, <2>1, Constants DEF k, runs, counted
    <2>2. CASE /\ k \in DOMAIN windows => now - windows[k].started > VERIFY_WINDOW
               /\ windows'[k].started = now /\ windows'[k].count = 1
      <3>1. k \in DOMAIN windows => older(windows[k])
        BY <1>1, <1>3, <2>2, Constants DEF expiry
      <3>2. ~ older(windows'[k])
        BY <1>1, <2>2, Constants
      <3> QED
        BY <1>1, <1>2, <1>3, <1>4, <1>6, <2>2, <3>1, <3>2, Constants DEF k, runs, counted
    <2> QED
      BY <1>6, <2>1, <2>2 DEF counted
  <1>7. CASE restarts' = restarts + 1 /\ k \notin DOMAIN windows'
    <2>1. (1 + restarts') * max = (2 + runs) * max
      BY <1>1, <1>7 DEF runs
    <2> QED
      BY <1>1, <1>2, <1>3, <1>4, <1>7, <2>1, Constants DEF k, runs
  <1> QED
    BY <1>5, <1>6, <1>7 DEF moved, k

\* A tally of a code carries over a step that does not compare it, whatever the step does
\* to the limiter.
LEMMA TalliedKeeps ==
  ASSUME Shape, WindowsBounded, NEW f \in Families, NEW c \in Codes,
         NEW n \in [who(f) -> Nat], Tallied(f, c, n),
         compared'[c] = compared[c], codes' \in {codes, codes + 1},
         restarts' \in {restarts, restarts + 1},
         \A e \in Emails : live(e, c)' =>
           \/ live(e, c) /\ otps'[e] = otps[e]
           \/ c > codes,
         \A e \in Emails : \A w \in who(f) :
           \/ restarts' = restarts /\ moved(verify_key(f, e, w))
           \/ restarts' = restarts + 1 /\ verify_key(f, e, w) \notin DOMAIN windows',
         Shape'
  PROVE  Tallied(f, c, n)'
  <1>1. /\ restarts \in Nat /\ restarts' \in Nat /\ most(f) \in Nat /\ most(f)' = most(f)
        /\ codes \in Nat /\ c \in Nat
    BY FamilyFacts, Constants DEF Shape, most, Codes
  <1>2. (2 + restarts) * most(f) <= (2 + restarts') * most(f)
    <2>1. CASE restarts' = restarts
      BY <1>1, <2>1, Products
    <2>2. CASE restarts' = restarts + 1
      <3>1. restarts + 1 \in Nat
        BY <1>1
      <3>2. (2 + (restarts + 1)) * most(f) = (restarts + 1) * most(f) + most(f) + most(f)
        BY <1>1, <3>1, Products
      <3>3. /\ restarts * most(f) \in Nat
            /\ (2 + restarts) * most(f) = restarts * most(f) + most(f) + most(f)
            /\ (1 + restarts) * most(f) = restarts * most(f) + most(f)
        BY <1>1, Products
      <3>4. (restarts + 1) * most(f) = (1 + restarts) * most(f)
        BY <1>1
      <3> QED
        BY <1>1, <2>2, <3>2, <3>3, <3>4
    <2> QED
      BY <2>1, <2>2
  <1>3. \A w \in who(f) : n[w] <= (2 + restarts') * most(f)
    <2>1. \A w \in who(f) : n[w] <= (2 + restarts) * most(f)
      BY DEF Tallied
    <2>2. (2 + restarts) * most(f) \in Nat /\ (2 + restarts') * most(f) \in Nat
      BY <1>1
    <2> QED
      BY <1>2, <2>1, <2>2
  <1>4. c > codes' => \A w \in who(f) : n[w] = 0
    BY <1>1 DEF Tallied
  <1>5. ASSUME NEW e \in Emails, live(e, c)', NEW w \in who(f)
        PROVE  n[w] <= allowance(f, e, w)'
    <2>0. /\ e \in DOMAIN otps' /\ now' <= otps'[e].expires_at
      BY <1>5 DEF live
    <2>1. CASE live(e, c) /\ otps'[e] = otps[e]
      <3>1. n[w] <= allowance(f, e, w)
        BY <2>1 DEF Tallied
      <3>2. /\ allowance(f, e, w) \in Nat /\ allowance(f, e, w)' \in Nat
            /\ allowance(f, e, w) <= allowance(f, e, w)'
        BY <2>0, <2>1, AllowanceGrows DEF live
      <3> QED
        BY <3>1, <3>2
    <2>2. CASE c > codes
      <3>1. n[w] = 0
        BY <2>2 DEF Tallied
      <3>2. allowance(f, e, w)' >= 0
        <4> DEFINE k == verify_key(f, e, w)
        <4>1. k \in DOMAIN windows' => windows'[k].count \in Nat
          BY DEF Shape, Window
        <4>2. restarts' * most(f) \in Nat /\ (1 + restarts') * most(f) \in Nat
          BY <1>1
        <4>3. allowance(f, e, w)' \in Nat
          BY <1>1, <4>1, <4>2 DEF allowance
        <4> QED
          BY <4>3
      <3> QED
        BY <3>1, <3>2
    <2> QED
      BY <1>5, <2>1, <2>2
  <1>6. compared'[c] = Cardinality(tallies(f, n))
    BY DEF Tallied
  <1>7. who(f)' = who(f) /\ tallies(f, n)' = tallies(f, n)
    BY DEF who, tallies
  <1> QED
    BY <1>1, <1>3, <1>4, <1>5, <1>6, <1>7 DEF Tallied, who

\* Calls for registrations and resends leave the windows of the attempts alone.
LEMMA OtherKinds ==
  ASSUME Shape, NEW typed \in Emails \X Spellings, NEW ip \in Ips,
         \/ windows' = check(windows, <<"register", ip>>, REGISTER_IP_MAX,
                             REGISTER_WINDOW, now).windows
         \/ windows' = limited("resend", typed, RESEND_EMAIL_MAX, ip, RESEND_IP_MAX,
                               RESEND_WINDOW).windows,
         NEW f \in Families, NEW e \in Emails, NEW w \in who(f)
  PROVE  untouched(windows, windows', verify_key(f, e, w))
  <1>1. now \in Nat /\ \A k \in DOMAIN windows : windows[k] \in Window
    BY DEF Shape
  <1>2. \A x : verify_key(f, e, w) # <<"register", x>> /\ verify_key(f, e, w) # <<"resend", x>>
    BY DEF verify_key
  <1>3. CASE windows' = check(windows, <<"register", ip>>, REGISTER_IP_MAX,
                              REGISTER_WINDOW, now).windows
    <2>1. \A k : k # <<"register", ip>> =>
            untouched(windows, check(windows, <<"register", ip>>, REGISTER_IP_MAX,
                                     REGISTER_WINDOW, now).windows, k)
      BY <1>1, CheckCounts, Constants
    <2> QED
      BY <1>2, <1>3, <2>1
  <1>4. CASE windows' = limited("resend", typed, RESEND_EMAIL_MAX, ip, RESEND_IP_MAX,
                                RESEND_WINDOW).windows
    <2>1. \A k : k # <<"resend", typed>> /\ k # <<"resend", ip>> =>
            untouched(windows, limited("resend", typed, RESEND_EMAIL_MAX, ip, RESEND_IP_MAX,
                                       RESEND_WINDOW).windows, k)
      BY <1>1, LimitedCounts, KeysDiffer, Constants
    <2> QED
      BY <1>2, <1>4, <2>1
  <1> QED
    BY <1>3, <1>4

\* The keys an attempt is counted under, if it is allowed; no window counts more than its
\* limit.
LEMMA AttemptCounts ==
  ASSUME Shape, WindowsBounded, NEW typed \in Emails \X Spellings, NEW ip \in Ips,
         windows' = limited("verify", typed, VERIFY_EMAIL_MAX, ip, VERIFY_IP_MAX,
                            VERIFY_WINDOW).windows
  PROVE  /\ \A f \in Families, e \in Emails : \A w \in who(f) : moved(verify_key(f, e, w))
         /\ WindowsBounded'
         /\ limited("verify", typed, VERIFY_EMAIL_MAX, ip, VERIFY_IP_MAX, VERIFY_WINDOW).ok =>
              \A f \in Families :
                counted(windows, windows',
                        verify_key(f, typed[1], IF f = "email" THEN typed[2] ELSE ip),
                        VERIFY_WINDOW)
  <1> DEFINE limit == limited("verify", typed, VERIFY_EMAIL_MAX, ip, VERIFY_IP_MAX, VERIFY_WINDOW)
             k1 == <<"verify", typed>>
             k2 == <<"verify", ip>>
  <1>1. now \in Nat /\ \A k \in DOMAIN windows : windows[k] \in Window
    BY DEF Shape
  <1>2. /\ \A k : k # k1 /\ k # k2 => untouched(windows, limit.windows, k)
        /\ \/ untouched(windows, limit.windows, k1) /\ ~ limit.ok
           \/ /\ counted(windows, limit.windows, k1, VERIFY_WINDOW)
              /\ limit.windows[k1].count <= VERIFY_EMAIL_MAX
        /\ \/ untouched(windows, limit.windows, k2) /\ ~ limit.ok
           \/ /\ counted(windows, limit.windows, k2, VERIFY_WINDOW)
              /\ limit.windows[k2].count <= VERIFY_IP_MAX
    BY <1>1, LimitedCounts, KeysDiffer, Constants
  <1> HIDE DEF limit
  <1>3. windows' = limit.windows
    BY DEF limit
  <1>4. \A f \in Families, e \in Emails : \A w \in who(f) :
          /\ verify_key(f, e, w) = k1 => f = "email"
          /\ verify_key(f, e, w) = k2 => f = "ip"
    <2> SUFFICES ASSUME NEW f \in Families, NEW e \in Emails, NEW w \in who(f)
                 PROVE  /\ verify_key(f, e, w) = k1 => f = "email"
                        /\ verify_key(f, e, w) = k2 => f = "ip"
      OBVIOUS
    <2>1. CASE f = "email"
      <3>1. <<e, w>> \in Emails \X Spellings
        BY <2>1 DEF who
      <3>2. <<"verify", <<e, w>>>> # <<"verify", ip>>
        BY <3>1, KeysDiffer
      <3> QED
        BY <2>1, <3>2 DEF verify_key
    <2>2. CASE f = "ip"
      <3>1. w \in Ips
        BY <2>2 DEF who
      <3>2. <<"verify", typed>> # <<"verify", w>>
        BY <3>1, KeysDiffer
      <3> QED
        BY <2>2, <3>2 DEF verify_key
    <2> QED
      BY <2>1, <2>2 DEF Families
  <1>5. \A f \in Families, e \in Emails : \A w \in who(f) :
          \/ untouched(windows, windows', verify_key(f, e, w))
          \/ /\ counted(windows, windows', verify_key(f, e, w), VERIFY_WINDOW)
             /\ windows'[verify_key(f, e, w)].count <= most(f)
    <2> SUFFICES ASSUME NEW f \in Families, NEW e \in Emails, NEW w \in who(f)
                 PROVE  \/ untouched(windows, windows', verify_key(f, e, w))
                        \/ /\ counted(windows, windows', verify_key(f, e, w), VERIFY_WINDOW)
                           /\ windows'[verify_key(f, e, w)].count <= most(f)
      OBVIOUS
    <2>1. CASE verify_key(f, e, w) = k1
      <3>1. most(f) = VERIFY_EMAIL_MAX
        BY <1>4, <2>1 DEF most
      <3> QED
        BY <1>2, <1>3, <2>1, <3>1
    <2>2. CASE verify_key(f, e, w) = k2
      <3>1. most(f) = VERIFY_IP_MAX
        BY <1>4, <2>2 DEF most
      <3> QED
        BY <1>2, <1>3, <2>2, <3>1
    <2>3. CASE verify_key(f, e, w) # k1 /\ verify_key(f, e, w) # k2
      BY <1>2, <1>3, <2>3
    <2> QED
      BY <2>1, <2>2, <2>3
  <1>6. WindowsBounded'
    BY <1>5 DEF WindowsBounded, untouched, who, verify_key, most
  <1>7. limit.ok => \A f \in Families :
          counted(windows, windows',
                  verify_key(f, typed[1], IF f = "email" THEN typed[2] ELSE ip),
                  VERIFY_WINDOW)
    <2>1. typed = <<typed[1], typed[2]>>
      OBVIOUS
    <2>2. verify_key("email", typed[1], typed[2]) = k1 /\ verify_key("ip", typed[1], ip) = k2
      BY <2>1 DEF verify_key
    <2> HIDE DEF k1, k2
    <2> QED
      BY <1>2, <1>3, <2>2 DEF Families
  <1> QED
    BY <1>5, <1>6, <1>7 DEF moved, limit

\* The windows stay within their limits where none is counted.
LEMMA UntouchedBounded ==
  ASSUME WindowsBounded,
         \A f \in Families, e \in Emails : \A w \in who(f) :
           untouched(windows, windows', verify_key(f, e, w))
  PROVE  WindowsBounded'
  BY DEF WindowsBounded, untouched, who, verify_key, most

\* A step that compares no code.
LEMMA NotComparedKeeps ==
  ASSUME DirectoryInv, DirectoryInv', AttemptsInv, compared' = compared,
         codes' \in {codes, codes + 1}, restarts' \in {restarts, restarts + 1},
         \A e \in Emails, c \in Codes : live(e, c)' =>
           \/ live(e, c) /\ otps'[e] = otps[e]
           \/ c > codes,
         \A f \in Families, e \in Emails : \A w \in who(f) :
           \/ restarts' = restarts /\ moved(verify_key(f, e, w))
           \/ restarts' = restarts + 1 /\ verify_key(f, e, w) \notin DOMAIN windows',
         WindowsBounded'
  PROVE  AttemptsInv'
  <1> SUFFICES ASSUME NEW f \in Families, NEW c \in Codes
               PROVE  \E n \in [who(f) -> Nat] : Tallied(f, c, n)'
    BY DEF AttemptsInv, who
  <1>1. PICK n \in [who(f) -> Nat] : Tallied(f, c, n)
    BY DEF AttemptsInv
  <1>2. Shape /\ Shape' /\ WindowsBounded
    BY DEF DirectoryInv, AttemptsInv
  <1>3. Tallied(f, c, n)'
    BY <1>1, <1>2, TalliedKeeps
  <1> QED
    BY <1>3

\* An attempt that is compared counts under both its keys.
LEMMA ComparedKeeps ==
  ASSUME DirectoryInv, DirectoryInv', AttemptsInv,
         NEW email \in DOMAIN otps, now <= otps[email].expires_at,
         compared' = [compared EXCEPT ![otps[email].code] = @ + 1],
         UNCHANGED <<otps, now, restarts, codes>>,
         \A f \in Families, e \in Emails : \A w \in who(f) : moved(verify_key(f, e, w)),
         WindowsBounded',
         NEW by \in [Families -> Spellings \cup Ips],
         \A f \in Families : by[f] \in who(f)
            /\ counted(windows, windows', verify_key(f, email, by[f]), VERIFY_WINDOW)
  PROVE  AttemptsInv'
  <1> DEFINE spent == otps[email].code
  <1>1. Shape /\ Shape' /\ WindowsBounded /\ PendingIsNewest
    BY DEF DirectoryInv, AttemptsInv
  <1>2. /\ spent \in 1 .. codes /\ spent \in Codes /\ email \in Emails
        /\ compared \in [Codes -> Nat]
    <2>1. otps[email] \in Created /\ email \in Emails
      BY <1>1 DEF Shape, map_of
    <2> QED
      BY <1>1, <2>1, Constants DEF Created, Codes, Shape
  <1> SUFFICES ASSUME NEW f \in Families, NEW c \in Codes
               PROVE  \E n \in [who(f) -> Nat] : Tallied(f, c, n)'
    BY DEF AttemptsInv, who
  <1>3. PICK n \in [who(f) -> Nat] : Tallied(f, c, n)
    BY DEF AttemptsInv
  <1>4. CASE c # spent
    <2>1. compared'[c] = compared[c]
      BY <1>2, <1>4
    <2>2. \A e \in Emails : live(e, c)' => live(e, c) /\ otps'[e] = otps[e]
      BY DEF live
    <2>3. Tallied(f, c, n)'
      BY <1>1, <1>3, <2>1, <2>2, TalliedKeeps
    <2> QED
      BY <2>3
  <1>5. CASE c = spent
    <2> DEFINE v    == by[f]
               more == [n EXCEPT ![v] = @ + 1]
    <2>1. /\ v \in who(f) /\ most(f) \in Nat \ {0} /\ most(f)' = most(f) /\ who(f)' = who(f)
          /\ restarts \in Nat /\ restarts' = restarts
      BY <1>1, FamilyFacts DEF Shape, most, who
    <2>2. /\ more \in [who(f) -> Nat] /\ more[v] = n[v] + 1
          /\ \A w \in who(f) : w # v => more[w] = n[w]
      BY <2>1
    <2>3. compared'[c] = Cardinality(tallies(f, more))
      <3>1. (2 + restarts) * most(f) \in Nat
        BY <2>1
      <3>2. IsFiniteSet(tallies(f, n)) /\ Cardinality(tallies(f, n)) \in Nat
        BY <1>3, <3>1, TalliesBounded DEF Tallied
      <3>3. Cardinality(tallies(f, more)) = Cardinality(tallies(f, n)) + 1
        BY <2>1, <3>2, TallyOne
      <3>4. compared[c] = Cardinality(tallies(f, n))
        BY <1>3 DEF Tallied
      <3> QED
        BY <1>2, <1>5, <3>3, <3>4
    <2> HIDE DEF more, v
    <2>4. live(email, c) /\ \A e \in Emails : live(e, c)' => e = email
      BY <1>1, <1>5 DEF live, PendingIsNewest
    <2>5. \A w \in who(f) :
            /\ allowance(f, email, w) \in Nat /\ allowance(f, email, w)' \in Nat
            /\ n[w] <= allowance(f, email, w)
            /\ allowance(f, email, w) <= allowance(f, email, w)'
            /\ w = v => allowance(f, email, w) + 1 <= allowance(f, email, w)'
      <3> SUFFICES ASSUME NEW w \in who(f)
                   PROVE  /\ allowance(f, email, w) \in Nat /\ allowance(f, email, w)' \in Nat
                          /\ n[w] <= allowance(f, email, w)
                          /\ allowance(f, email, w) <= allowance(f, email, w)'
                          /\ w = v => allowance(f, email, w) + 1 <= allowance(f, email, w)'
        OBVIOUS
      <3>1. n[w] <= allowance(f, email, w)
        BY <1>2, <1>3, <2>4 DEF Tallied
      <3>2. /\ allowance(f, email, w) \in Nat /\ allowance(f, email, w)' \in Nat
            /\ allowance(f, email, w) <= allowance(f, email, w)'
            /\ counted(windows, windows', verify_key(f, email, w), VERIFY_WINDOW)
                 => allowance(f, email, w) + 1 <= allowance(f, email, w)'
        BY <1>1, <1>2, AllowanceGrows
      <3> QED
        BY <3>1, <3>2 DEF v
    <2>6. \A w \in who(f) : more[w] <= allowance(f, email, w)'
      BY <2>2, <2>5
    <2>7. \A w \in who(f) : more[w] <= (2 + restarts') * most(f)
      <3> SUFFICES ASSUME NEW w \in who(f) PROVE more[w] <= (2 + restarts) * most(f)
        BY <2>1
      <3> DEFINE k == verify_key(f, email, w)
      <3>1. /\ restarts * most(f) \in Nat
            /\ (1 + restarts) * most(f) = restarts * most(f) + most(f)
            /\ (2 + restarts) * most(f) = restarts * most(f) + most(f) + most(f)
        BY <2>1, Products
      <3>2. k \in DOMAIN windows' => windows'[k].count \in Nat /\ windows'[k].count <= most(f)
        BY <1>1, <1>2 DEF Shape, Window, WindowsBounded, verify_key, most, who
      <3>3. allowance(f, email, w)' <= (2 + restarts) * most(f)
        BY <2>1, <3>1, <3>2 DEF allowance, verify_key, most
      <3>4. more[w] <= allowance(f, email, w)' /\ more[w] \in Nat
            /\ allowance(f, email, w)' \in Nat
        BY <2>2, <2>5, <2>6
      <3> QED
        BY <2>1, <3>1, <3>3, <3>4
    <2>8. ~ c > codes'
      BY <1>1, <1>2, <1>5 DEF Shape
    <2>9. tallies(f, more)' = tallies(f, more)
      BY DEF tallies, who, more, v
    <2>10. Tallied(f, c, more)'
      BY <2>1, <2>3, <2>4, <2>6, <2>7, <2>8, <2>9 DEF Tallied, who, more, v
    <2> QED
      BY <2>2, <2>10
  <1> QED
    BY <1>4, <1>5

\* No attempt was made at the start.
LEMMA InitAttemptsInv == Init => AttemptsInv
  <1> SUFFICES ASSUME Init PROVE AttemptsInv
    OBVIOUS
  <1>1. WindowsBounded
    BY DEF Init, WindowsBounded
  <1>2. ASSUME NEW f \in Families, NEW c \in Codes
        PROVE  \E n \in [who(f) -> Nat] : Tallied(f, c, n)
    <2> DEFINE n == [w \in who(f) |-> 0]
    <2>1. n \in [who(f) -> Nat] /\ \A w \in who(f) : n[w] = 0
      OBVIOUS
    <2> HIDE DEF n
    <2>2. tallies(f, n) = {}
      BY <2>1 DEF tallies
    <2>3. Cardinality({}) = 0
      BY FS_EmptySet
    <2>4. compared[c] = 0
      BY DEF Init
    <2>5. (2 + restarts) * most(f) >= 0
      BY FamilyFacts DEF Init
    <2>6. \A e \in Emails : ~ live(e, c)
      BY DEF Init, live
    <2>7. Tallied(f, c, n)
      BY <2>1, <2>2, <2>3, <2>4, <2>5, <2>6 DEF Tallied
    <2> QED
      BY <2>1, <2>7
  <1> QED
    BY <1>1, <1>2 DEF AttemptsInv

\* Every step preserves the tallies.
LEMMA NextAttemptsInv ==
  DirectoryInv /\ DirectoryInv' /\ AttemptsInv /\ [Next]_vars => AttemptsInv'
  <1> SUFFICES ASSUME DirectoryInv, DirectoryInv', AttemptsInv, [Next]_vars
               PROVE  AttemptsInv'
    OBVIOUS
  <1>0. Shape /\ WindowsBounded /\ now \in Nat /\ restarts \in Nat
    BY DEF DirectoryInv, AttemptsInv, Shape
  <1> DEFINE same_codes == UNCHANGED <<otps, now, restarts, codes, compared>>
             still      == \A f \in Families, e \in Emails : \A w \in who(f) :
                             untouched(windows, windows', verify_key(f, e, w))
             waiting    == \A e \in Emails, c \in Codes : live(e, c)' =>
                             \/ live(e, c) /\ otps'[e] = otps[e]
                             \/ c > codes
  <1>1. windows' = windows => still
    BY DEF untouched
  <1>2. ASSUME still, compared' = compared, codes' \in {codes, codes + 1},
               restarts' = restarts, waiting
        PROVE  AttemptsInv'
    <2>1. WindowsBounded'
      BY <1>0, <1>2, UntouchedBounded
    <2>2. \A f \in Families, e \in Emails : \A w \in who(f) :
            restarts' = restarts /\ moved(verify_key(f, e, w))
      BY <1>2 DEF moved
    <2> QED
      BY <1>2, <2>1, <2>2, NotComparedKeeps
  <1>3. same_codes => waiting /\ codes' \in {codes, codes + 1}
    BY DEF live
  <1>4. ASSUME NEW r \in Requests, NEW typed \in Emails \X Spellings, NEW ip \in Ips,
               NEW address \in Addresses, RegisterRead(r, typed[1], address, ip)
        PROVE  AttemptsInv'
    <2>1. /\ windows' = check(windows, <<"register", ip>>, REGISTER_IP_MAX,
                              REGISTER_WINDOW, now).windows
          /\ same_codes
      BY <1>4 DEF RegisterRead, database
    <2>2. still
      BY <1>0, <2>1, OtherKinds
    <2> QED
      BY <1>2, <1>3, <2>1, <2>2
  <1>5. ASSUME NEW r \in Requests,
               RegisterStore(r) \/ VerifyAccount(r) \/ VerifyStore(r)
        PROVE  AttemptsInv'
    <2>1. windows' = windows /\ same_codes
      BY <1>5 DEF RegisterStore, VerifyAccount, VerifyStore, database, history
    <2> QED
      BY <1>1, <1>2, <1>3, <2>1
  <1>6. ASSUME NEW email \in Emails, create_pending_otp(email),
               UNCHANGED <<users, now, restarts, compared, raced, doubled>>, still
        PROVE  AttemptsInv'
    <2>1. /\ codes' = codes + 1
          /\ \A e \in DOMAIN otps' :
               \/ e \in DOMAIN otps /\ otps'[e] = otps[e]
               \/ e = email /\ otps'[e].code = codes + 1
      BY <1>6, CodeKeeps
    <2>2. waiting
      <3>1. codes + 1 > codes
        BY <1>0 DEF Shape
      <3> QED
        BY <1>6, <2>1, <3>1 DEF live
    <2> QED
      BY <1>2, <1>6, <2>1, <2>2
  <1>7. ASSUME NEW r \in Requests, CreateCode(r)
        PROVE  AttemptsInv'
    <2>1. /\ request[r].stage = "code"
          /\ create_pending_otp(request[r].email) \/ UNCHANGED <<otps, codes, newest>>
          /\ UNCHANGED <<users, windows, now, restarts, compared, raced, doubled>>
      BY <1>7 DEF CreateCode
    <2>2. request[r].email \in Emails
      BY <1>0, <2>1 DEF Shape, Request, no_request
    <2> QED
      BY <1>1, <1>2, <1>3, <1>6, <2>1, <2>2
  <1>8. ASSUME NEW r \in Requests, NEW typed \in Emails \X Spellings, NEW ip \in Ips,
               Resend(r, typed, ip)
        PROVE  AttemptsInv'
    <2>1. /\ windows' = limited("resend", typed, RESEND_EMAIL_MAX, ip, RESEND_IP_MAX,
                                RESEND_WINDOW).windows
          /\ create_pending_otp(typed[1]) \/ UNCHANGED <<otps, codes, newest>>
          /\ UNCHANGED <<users, now, restarts, compared, raced, doubled>>
      BY <1>8 DEF Resend
    <2>2. still /\ typed[1] \in Emails
      BY <1>0, <2>1, OtherKinds
    <2> QED
      BY <1>2, <1>3, <1>6, <2>1, <2>2
  <1>9. ASSUME NEW r \in Requests, NEW typed \in Emails \X Spellings, NEW ip \in Ips,
               NEW code \in 0 .. codes, VerifyRead(r, typed, ip, code)
        PROVE  AttemptsInv'
    <2> DEFINE limit == limited("verify", typed, VERIFY_EMAIL_MAX, ip, VERIFY_IP_MAX,
                                VERIFY_WINDOW)
               email == typed[1]
               by    == [f \in Families |-> IF f = "email" THEN typed[2] ELSE ip]
    <2>1. /\ windows' = limit.windows /\ UNCHANGED <<otps, now, restarts, codes>>
          /\ \/ /\ limit.ok /\ email \in DOMAIN otps /\ ~ now > otps[email].expires_at
                /\ compared' = [compared EXCEPT ![otps[email].code] = @ + 1]
             \/ compared' = compared
      BY <1>9 DEF VerifyRead, database
    <2>2. /\ \A f \in Families, e \in Emails : \A w \in who(f) : moved(verify_key(f, e, w))
          /\ WindowsBounded'
          /\ limit.ok => \A f \in Families :
               counted(windows, windows', verify_key(f, email, IF f = "email" THEN typed[2] ELSE ip),
                       VERIFY_WINDOW)
      BY <1>0, <2>1, AttemptCounts
    <2>3. CASE compared' = compared
      <3>1. waiting
        BY <2>1 DEF live
      <3> QED
        BY <2>1, <2>2, <2>3, <3>1, NotComparedKeeps
    <2>4. CASE /\ limit.ok /\ email \in DOMAIN otps /\ ~ now > otps[email].expires_at
               /\ compared' = [compared EXCEPT ![otps[email].code] = @ + 1]
      <3>1. by \in [Families -> Spellings \cup Ips] /\ \A f \in Families : by[f] \in who(f)
        BY DEF Families, who
      <3>2. \A f \in Families : by[f] = IF f = "email" THEN typed[2] ELSE ip
        OBVIOUS
      <3> HIDE DEF by, limit
      <3>3. \A f \in Families : counted(windows, windows', verify_key(f, email, by[f]),
                                        VERIFY_WINDOW)
        BY <2>2, <2>4, <3>2
      <3>4. now <= otps[email].expires_at
        <4>1. otps[email] \in Created
          BY <1>0, <2>4 DEF Shape, map_of
        <4>2. otps[email].expires_at \in Int
          BY <4>1 DEF Created
        <4> QED
          BY <1>0, <2>4, <4>2
      <3> QED
        BY <2>1, <2>2, <2>4, <3>1, <3>3, <3>4, ComparedKeeps
    <2> QED
      BY <2>1, <2>3, <2>4
  <1>10. ASSUME NEW r \in Requests, VerifyDelete(r)
         PROVE  AttemptsInv'
    <2>1. /\ otps' = restrict_to(otps, DOMAIN otps \ {request[r].email})
          /\ UNCHANGED <<windows, now, restarts, codes, compared>>
      BY <1>10 DEF VerifyDelete
    <2>2. \A e \in DOMAIN otps' : e \in DOMAIN otps /\ otps'[e] = otps[e]
      BY <2>1 DEF restrict_to
    <2>3. waiting
      BY <2>1, <2>2 DEF live
    <2> QED
      BY <1>1, <1>2, <2>1, <2>3
  <1>11. CASE Tick
    <2>1. now' = now + 1 /\ UNCHANGED <<otps, windows, restarts, codes, compared>>
      BY <1>11 DEF Tick, database, history
    <2>2. waiting
      <3>1. \A e \in DOMAIN otps : otps[e].expires_at \in Int
        BY <1>0 DEF Shape, map_of, Created
      <3> QED
        BY <1>0, <2>1, <3>1 DEF live
    <2> QED
      BY <1>1, <1>2, <2>1, <2>2
  <1>12. CASE Restart
    <2>1. /\ restarts' = restarts + 1 /\ DOMAIN windows' = {}
          /\ UNCHANGED <<otps, now, codes, compared>>
      BY <1>12 DEF Restart, database, history
    <2>2. WindowsBounded'
      BY <2>1 DEF WindowsBounded
    <2>3. waiting
      BY <2>1 DEF live
    <2> QED
      BY <2>1, <2>2, <2>3, NotComparedKeeps
  <1>13. CASE UNCHANGED vars
    BY <1>1, <1>2, <1>3, <1>13 DEF vars, database, history
  <1> QED
    BY <1>4, <1>5, <1>7, <1>8, <1>9, <1>10, <1>11, <1>12, <1>13 DEF Next

\* One code is compared with at most (2 + restarts) times the limit of submissions for each
\* spelling, and for each caller: whatever the number of requests, and however they and the
\* ticks of the clock interleave with the fixed windows of the rate limiter.
THEOREM AccountsAttemptsPerCode == Spec => []AttemptsPerCode
  <1>1. ASSUME DirectoryInv, AttemptsInv PROVE AttemptsPerCode
    <2> SUFFICES ASSUME NEW c \in Codes, NEW f \in Families
                 PROVE  compared[c] <= (2 + restarts) * most(f) * Cardinality(who(f))
      <3>1. /\ most("email") = VERIFY_EMAIL_MAX /\ who("email") = Spellings
            /\ most("ip") = VERIFY_IP_MAX /\ who("ip") = Ips
            /\ "email" \in Families /\ "ip" \in Families
        BY DEF most, who, Families
      <3> QED
        BY <3>1 DEF AttemptsPerCode
    <2>1. PICK n \in [who(f) -> Nat] : Tallied(f, c, n)
      BY <1>1 DEF AttemptsInv
    <2>2. (2 + restarts) * most(f) \in Nat
      <3>1. restarts \in Nat /\ most(f) \in Nat
        BY <1>1, FamilyFacts DEF DirectoryInv, Shape
      <3> QED
        BY <3>1
    <2> QED
      BY <2>1, <2>2, TalliesBounded DEF Tallied
  <1>2. Init => DirectoryInv /\ AttemptsInv
    BY InitDirectoryInv, InitAttemptsInv
  <1>3. DirectoryInv /\ AttemptsInv /\ [Next]_vars => (DirectoryInv /\ AttemptsInv)'
    BY NextDirectoryInv, NextAttemptsInv
  <1> QED
    BY <1>1, <1>2, <1>3, PTL DEF Spec
=============================================================================
