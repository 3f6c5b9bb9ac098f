\* Shares, savers, a win, payouts, a repayment, lost answers and a crash.
SPECIFICATION Spec
CONSTANTS
  m1 = m1
  m2 = m2
  p1 = p1
  p2 = p2
  Miners = {m1, m2}
  Nonces = {1}
  WinningNonces = {1}
  Connections = {c1}
  Payers = {p1, p2}
  RepayRound <- MCRepayRound
  FUNDING = 1
  REWARD = 2
  MAX_PENDING_NONCE_AHEAD = 3
  MaxHeight = 2
  MaxShares = 2
  MaxCrashes = 1
SYMMETRY symmetry
INVARIANTS TypeOK PaidOnce PaymentsCovered NoGapInPayments RepaidOnce
