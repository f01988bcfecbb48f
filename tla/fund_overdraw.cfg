SPECIFICATION Spec
CONSTANTS
  alice = alice
  bob = bob
  Wallet <- OneWallet
  MaxSale = 2
  MaxToken = 2
  MaxRequest = 2
  MaxPayment = 2
  MaxPosition = 0
  MaxDecision = 0
  MaxRestart = 0
  Memos <- NoMemo
  InstantCutPct = 10
  ShortCutPct = 20
  AskPrice = 20
  MaxOffer = 0
  OfferPrices <- NoPrices
  Payments <- Twenty
  TradeAmounts <- Three
  Gains <- UpAndDown
  MinDeployable = 10
INVARIANTS
  LiquidNeverNegative
CHECK_DEADLOCK FALSE
