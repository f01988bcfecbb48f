SPECIFICATION Spec
CONSTANTS
  alice = alice
  bob = bob
  Wallet <- BothWallets
  MaxSale = 2
  MaxToken = 1
  MaxRequest = 0
  MaxPayment = 1
  MaxPosition = 0
  MaxDecision = 0
  MaxRestart = 0
  Memos <- NoMemo
  InstantCutPct = 10
  ShortCutPct = 20
  AskPrice = 20
  MaxOffer = 1
  OfferPrices <- LowOffer
  Payments <- Twenty
  TradeAmounts <- Three
  Gains <- UpAndDown
  MinDeployable = 10
PROPERTIES
  PaidStaysPaid
CHECK_DEADLOCK FALSE
