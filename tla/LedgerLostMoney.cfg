\* Two clients, two accounts that come to be, one unit that moves, and one
\* movement at most of a row that is not there.
CONSTANTS
  Clients = {c1, c2}
  Accounts = {1, 2}
  Amounts = {1}
  MaxMoney = 2
  MaxNoRow = 1
SPECIFICATION LedgerSpec
INVARIANTS
  TransfersLoseNothing
\* Deposits are bounded.
CHECK_DEADLOCK FALSE
