SPECIFICATION AgentFairSpec
CONSTANTS
  Part = {"auctions", "payments", "transfers", "posts", "reading"}
  Writer = {w1, w2}
  Type = {"dutch", "english"}
  ScheduleAt = {1}
  StartPrice = {20}
  Duration = {0}
  BidAmount = {21}
  DropInterval = 1
  Extension = 1
  MaxAuction = 2
  MaxTime = 2
  Balance = 2
  VmCost = 2
  NoAccount = none
  MaxStart = 3
  MaxCredit = 2
  Slot = {1, 2}
  MaxProcessed = 1
  Kept = 0
  MaxBlock = 2
  MaxFail = 1
  MaxRestart = 1
  Trigger <- Triggers
  Window <- Windows
  Alarm <- Alarms
  Survival = {"lean", "critical"}
  Alarming = {"critical"}
  Numbers <- BelowThousand
  Second = {0, 115, 1100}
  Operation = {"plus", "divide"}
INVARIANTS
  OneOpportunistic
  OnePaymentPerCall
  HandledOnce
  RepeatOnlyOverlapping
  UnclaimedNeverPosts
  ReadsNumbersBelowThousand
PROPERTIES
  AuctionsEnd
  CreationEnds
  EveryTransferHandled
CHECK_DEADLOCK FALSE
