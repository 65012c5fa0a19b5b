CONSTANTS
  h1 = h1  h2 = h2
  a1 = a1  d1 = d1  w1 = w1  l1 = l1
  Accounts = {a1}
  Intents = {d1, w1}
  LoanDeposits = {d1}
  Owner <- MCOwner
  Amount <- MCAmount
  Agreements = {l1}
  Borrower <- MCBorrower
  Share <- MCShare
  FeeShare <- MCFeeShare
  Term <- MCTerm
  Collateral <- MCCollateral
  LoanBookV1 = TRUE
  LoanHandlers = {h1, h2}
  MaxCases = 1
SYMMETRY HandlerSymmetry
SPECIFICATION LoanSpec
INVARIANTS
  ReceivablesMatchPayments
  NeverOverstated
  
CHECK_DEADLOCK FALSE
