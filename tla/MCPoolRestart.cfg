\* A crash in the middle of a payout.
SPECIFICATION Spec
CONSTANTS
  m1 = m1
  m2 = m2
  p1 = p1
  p2 = p2
  Miners = {m1, m2}
  Nonces = {1, 2}
  WinningNonces = {1}
  Connections = {c1}
  Payers = {p1}
  RepayRound <- NoRepayRound
  FUNDING = 3
  REWARD = 3
  MAX_PENDING_NONCE_AHEAD = 3
  MaxHeight = 3
  MaxShares = 1
  MaxCrashes = 1
PROPERTY RestartKeepsSavedShares
