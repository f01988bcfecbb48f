----------------------------- MODULE FundLedger -----------------------------
(***************************************************************************)
(* The fund's persisted state and the functions that rewrite it.           *)
(*                                                                         *)
(* The agent keeps everything it knows about the fund in one value, the    *)
(* PanthersState, stored as one blob.  Every handler and timer loads the   *)
(* blob, computes a new one with the functions below and saves it whole.   *)
(* A blob is a record here; the module Fund says who loads and saves when. *)
(*                                                                         *)
(* Identifiers (uuids in the code) are the numbers 1, 2, 3, ... in the     *)
(* order in which they are drawn.  Amounts are whole units.                *)
(***************************************************************************)
EXTENDS Integers, Sequences, FiniteSets, SequencesExt

CONSTANTS
  Wallet,         \* the wallets of buyers
  MaxSale,        \* bound: sale ids ever drawn
  MaxToken,       \* bound: token ids ever drawn
  MaxRequest,     \* bound: redemption request ids ever drawn
  InstantCutPct,  \* fee plus swing, in percent, when liquid USDC covers the nav
  ShortCutPct     \* fee plus swing, in percent, when it does not

ASSUME LedgerBounds ==
  /\ MaxSale \in Nat /\ MaxToken \in Nat /\ MaxRequest \in Nat
  /\ InstantCutPct \in 0..100 /\ ShortCutPct \in InstantCutPct..100

SaleId    == 1..MaxSale
TokenId   == 1..MaxToken
RequestId == 1..MaxRequest
NoToken   == 0

\* A pending sale is an add-funds sale when it names a target token.
Sale == [buyer  : Wallet,
         price  : Int,
         status : {"awaiting_payment", "paid", "expired"},
         target : {NoToken} \cup TokenId]

Nft == [owner : Wallet, deposited : Int, nav : Int, index : Nat]

Request == [token : TokenId, net : Int, status : {"queued", "fulfilled", "expired"}]

EmptyBlob ==
  [sales     |-> << >>,  \* pendingSales
   nfts      |-> << >>,  \* nfts
   queue     |-> << >>,  \* redemptionQueue
   liquid    |-> 0,      \* liquidUsdcBalance
   deposited |-> 0,      \* pool.totalUsdcDeposited
   value     |-> 0,      \* pool.totalUsdcCurrentValue
   donations |-> 0,      \* personalFund.totalDonationsUsdc
   positions |-> << >>,  \* pool.openPositions, each by its cost
   pnl       |-> 0]      \* realised profit over pool.tradingHistory

-----------------------------------------------------------------------------
\* {...f, [k]: v}
Put(f, k, v) == [x \in DOMAIN f \cup {k} |-> IF x = k THEN v ELSE f[x]]

\* The sum of one amount over the tokens of a blob.
SumOfNavs(nfts)     == SumFunction([t \in DOMAIN nfts |-> nfts[t].nav])
SumOfDeposits(nfts) == SumFunction([t \in DOMAIN nfts |-> nfts[t].deposited])

\* The sales a wallet can still pay: awaiting payment and not past expiresAt.
LiveSales(b, w, late) ==
  {s \in DOMAIN b.sales \ late : /\ b.sales[s].buyer = w
                                 /\ b.sales[s].status = "awaiting_payment"}

Queued(b) == {r \in DOMAIN b.queue : b.queue[r].status = "queued"}

\* A duplicate redemption; the mutant looks for a fulfilled request instead.
AlreadyRedeemed(b, t) ==
  \E r \in DOMAIN b.queue : b.queue[r].status = "fulfilled" /\ b.queue[r].token = t
AlreadyQueued(b, t) == \E r \in Queued(b) : b.queue[r].token = t

QueuedUsdc(b) == SumFunctionOnSet([r \in DOMAIN b.queue |-> b.queue[r].net], Queued(b))

\* The part of a value that falls to a nav.  Losses may have made the total of
\* the navs negative, and \div is by a positive number.
Share(nav, value, sum) ==
  IF sum > 0 THEN (nav * value) \div sum ELSE (nav * (-value)) \div (-sum)

\* Each nav becomes its share of the pool's value, unless they already add up.
RecalculateAllNavs(b) ==
  LET sum == SumOfNavs(b.nfts)
  IN  IF DOMAIN b.nfts = {} \/ sum = 0 \/ sum = b.value
      THEN b
      ELSE [b EXCEPT !.nfts = [t \in DOMAIN b.nfts |->
             [b.nfts[t] EXCEPT !.nav = Share(b.nfts[t].nav, b.value, sum)]]]

\* The fractions a division would leave are kept out of the model: an amount
\* is enumerated as an input only when every share is whole.
WholeShares(b) ==
  LET sum == SumOfNavs(b.nfts)
  IN  sum # 0 => \A t \in DOMAIN b.nfts :
        sum * Share(b.nfts[t].nav, b.value, sum) = b.nfts[t].nav * b.value

-----------------------------------------------------------------------------
\* Sales.

\* Mutant: the buyer's earlier sales are replaced.
OpenSaleAlone(b, s, w, price, target) ==
  LET others == {x \in DOMAIN b.sales : b.sales[x].buyer # w}
  IN  [b EXCEPT !.sales = Put(Restrict(@, others), s,
         [buyer |-> w, price |-> price, status |-> "awaiting_payment", target |-> target])]

OpenSale(b, s, w, price, target) ==
  [b EXCEPT !.sales = Put(@, s, [buyer  |-> w, price |-> price,
                                 status |-> "awaiting_payment", target |-> target])]

\* The pool before the navs are recalculated.
Deposit(b, s, amount) ==
  [b EXCEPT !.sales[s].status = "paid", !.deposited = @ + amount, !.value = @ + amount]

Minted(b, s, t, amount) ==
  [Deposit(b, s, amount) EXCEPT !.nfts =
     Put(@, t, [owner |-> b.sales[s].buyer, deposited |-> amount, nav |-> amount,
                index |-> Cardinality(DOMAIN b.nfts) + 1])]

CompleteSale(b, s, t, amount) == RecalculateAllNavs(Minted(b, s, t, amount))

TopUp(nft, amount) == [nft EXCEPT !.deposited = @ + amount, !.nav = @ + amount]

ToppedUp(b, s, amount) ==
  LET t == b.sales[s].target
  IN  [Deposit(b, s, amount) EXCEPT !.nfts = [b.nfts EXCEPT ![t] = TopUp(b.nfts[t], amount)]]

AddFundsToNft(b, s, amount) == RecalculateAllNavs(ToppedUp(b, s, amount))

ExpireStalePendingSales(b, late) ==
  [b EXCEPT !.sales = [s \in DOMAIN b.sales |->
     IF b.sales[s].status = "awaiting_payment" /\ s \in late
     THEN [b.sales[s] EXCEPT !.status = "expired"] ELSE b.sales[s]]]

-----------------------------------------------------------------------------
\* Redemptions.

\* What a holder is promised: the nav less swing and fee.
NetUsdc(b, t) ==
  LET nav == b.nfts[t].nav
      cut == IF b.liquid >= nav THEN InstantCutPct ELSE ShortCutPct
  IN  (nav * (100 - cut)) \div 100

\* Mutant: the queue is keyed by the token.
AddRequestByToken(b, r, t, net, status) ==
  [b EXCEPT !.queue = Put(@, t, [token |-> t, net |-> net, status |-> status])]

AddRequest(b, r, t, net, status) ==
  [b EXCEPT !.queue = Put(@, r, [token |-> t, net |-> net, status |-> status])]

\* Mutant: the nav leaves both totals.
RemovedByNav(b, t) ==
  [b EXCEPT !.nfts      = Restrict(@, DOMAIN @ \ {t}),
            !.deposited = @ - b.nfts[t].nav,
            !.value     = @ - b.nfts[t].nav]

Removed(b, t) ==
  [b EXCEPT !.nfts      = Restrict(@, DOMAIN @ \ {t}),
            !.deposited = @ - b.nfts[t].deposited,
            !.value     = @ - b.nfts[t].nav]

\* Mutant: the NFT is paid out and kept.
RedeemKept(b, t) == RecalculateAllNavs([b EXCEPT !.value = @ - b.nfts[t].nav])

RedeemNft(b, t) == RecalculateAllNavs(Removed(b, t))

\* The second half of a redemption: the request and the money.
\* Mutant: the request keeps the status it was created with.
RecordStillQueued(b, r, t, net) ==
  [AddRequest(b, r, t, net, "queued") EXCEPT !.liquid = @ - net]

RecordFulfilled(b, r, t, net) ==
  [AddRequest(b, r, t, net, "fulfilled") EXCEPT !.liquid = @ - net]

ExpireRequests(b, rs) ==
  [b EXCEPT !.queue = [r \in DOMAIN b.queue |->
     IF r \in rs THEN [b.queue[r] EXCEPT !.status = "expired"] ELSE b.queue[r]]]

-----------------------------------------------------------------------------
\* Trading, as far as it touches the blob.

SumOfCosts(positions) == SumFunction(positions)

Bigger(x, y) == IF x >= y THEN x ELSE y

\* max(25% of the pool, what is queued), times four.
LiquidityFloor4(b) == Bigger(b.value, 4 * QueuedUsdc(b))

\* The capital evaluate() may deploy, times four.
Deployable4(b) ==
  Bigger(0, 4 * Bigger(0, b.deposited - SumOfCosts(b.positions))
              - LiquidityFloor4(b) - 4 * QueuedUsdc(b))

Buy(b, amount) ==
  [b EXCEPT !.positions = Append(@, amount), !.liquid = @ - amount]

Sell(b, i, gain) ==
  [b EXCEPT !.positions = RemoveAt(@, i),
            !.liquid    = @ + b.positions[i] + gain,
            !.pnl       = @ + gain]

\* markToMarket with an unrealised profit or loss on the open positions.
Marked(b, unrealised) == [b EXCEPT !.value = b.deposited + unrealised + b.pnl]

MarkToMarket(b, unrealised) == RecalculateAllNavs(Marked(b, unrealised))
=============================================================================
