SPECIFICATION Spec
CONSTANTS
  alice = alice
  bob = bob
  Wallet <- OneWallet
  MaxSale = 2
  MaxToken = 2
  MaxRequest = 0
  MaxPayment = 2
  MaxPosition = 0
  MaxDecision = 0
  MaxRestart = 1
  Memos <- AnyMemo
  InstantCutPct = 10
  ShortCutPct = 20
  AskPrice = 20
  MaxOffer = 1
  OfferPrices <- LowOffer
  Payments <- Twenty
  TradeAmounts <- Three
  Gains <- UpAndDown
  MinDeployable = 10
INVARIANTS
  NothingCreditedTwice
  OneNftPerSale
  OneLiveSalePerWallet
CHECK_DEADLOCK FALSE
