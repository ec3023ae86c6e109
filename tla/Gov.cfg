SPECIFICATION Spec
CONSTANTS
  s1 = s1
  s2 = s2
  n1 = n1
  v1 = v1
  v2 = v2
  e1 = e1
  FeeCollector = FeeCollector
  GovModule = GovModule
  Users <- MCUsers
  Genesis <- MCGenesis
  Topups = {e1}
  TopupUser <- MCTopupUser
  TopupFee <- MCTopupFee
  Claims <- MCClaims
  TxFee = 2
  DefaultFee = 2
  SendEnabled = TRUE
  Recipients <- MCRecipients
  Amounts = {2}
  MaxTxs = 3
  Validators = {v1, v2}
  FirstSigner <- MCFirstSigner
  Power <- MCPower
  IDs = {1}
  Options = {"Yes", "NoWithVeto"}
  InitialDeposits = {0, 2}
  MinDeposit = 2
  DepositPeriod = 1
  VotingPeriod = 1
  Quorum = 334
  Threshold = 500
  Veto = 334
  Leavers = {v2}
  LastTxTime = 2
  MaxTime = 3
INVARIANTS Conserved DepositsCovered OneQueue DepositsReturned
