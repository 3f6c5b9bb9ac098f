\* Two connections, one of them slow, and a refreshed template.
SPECIFICATION Spec
CONSTANTS
  m1 = m1
  m2 = m2
  p1 = p1
  p2 = p2
  Miners = {m1, m2}
  Nonces = {1}
  WinningNonces = {}
  Connections = {c1, c2}
  Payers = {}
  RepayRound <- NoRepayRound
  FUNDING = 3
  REWARD = 3
  MAX_PENDING_NONCE_AHEAD = 3
  MaxHeight = 2
  MaxShares = 3
  MaxCrashes = 0
SYMMETRY symmetry
INVARIANT NonceCreditedOnce
