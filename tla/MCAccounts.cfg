\* Registrations, resends and attempts at once, two ticks, one restart.
SPECIFICATION Spec
CONSTANTS
  r1 = r1
  r2 = r2
  a1 = a1
  a2 = a2
  bare = bare
  spaced = spaced
  Emails = {e1}
  Addresses = {a1, a2}
  Ips = {ip1}
  Spellings = {bare, spaced}
  Requests = {r1, r2}
  MAX_TRACKED_KEYS = 2
  FORGET_SECS = 2
  OTP_VALID_SECONDS = 1
  REGISTER_IP_MAX = 1
  REGISTER_WINDOW = 1
  VERIFY_EMAIL_MAX = 1
  VERIFY_IP_MAX = 2
  VERIFY_WINDOW = 1
  RESEND_EMAIL_MAX = 1
  RESEND_IP_MAX = 1
  RESEND_WINDOW = 1
  MaxCodes = 2
  MaxTime = 2
  MaxRestarts = 1
SYMMETRY symmetry
INVARIANTS TypeOK AttemptsPerCode OnlyRacedCodesAreLost
PROPERTY AccountsKept
