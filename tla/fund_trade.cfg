SPECIFICATION Spec
CONSTANTS
  alice = alice
  bob = bob
  Wallet <- OneWallet
  MaxSale = 2
  MaxToken = 2
  MaxRequest = 1
  MaxPayment = 2
  MaxPosition = 1
  MaxDecision = 2
  MaxRestart = 0
  Memos <- NoMemo
  InstantCutPct = 10
  ShortCutPct = 20
  AskPrice = 20
  MaxOffer = 0
  OfferPrices <- NoPrices
  Payments <- Twenty
  TradeAmounts <- Three
  Gains <- UpAndDown
  MinDeployable = 10
INVARIANTS
  TypeOK
  NavsSumToPool
  DepositsAddUp
CHECK_DEADLOCK FALSE
