SPECIFICATION Spec
CONSTANTS
  c1 = c1
  c2 = c2
  c3 = c3
  k1 = k1
  k2 = k2
  k3 = k3
  Client = {c1, c2, c3}
  Account = {k1, k2}
  AccountOf <- SharedAccount
  MatchId = {m1}
  NoClient = NoClient
  NoMatch = NoMatch
  Hosted = Hosted
  Ticker = Ticker
  QUEUE_MAX = 2
  MaxTokens = 1
  Ops <- GateOps

INVARIANTS OfferSettledOnce AccepterUncharged TwoAccounts Gated
PROPERTIES ImplementsAcceptGate ImplementsTicketLedger
