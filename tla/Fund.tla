-------------------------------- MODULE Fund --------------------------------
(***************************************************************************)
(* The fund agent: HTTP handlers, timers and the chain around one state    *)
(* blob.                                                                   *)
(*                                                                         *)
(* The agent is one Node process.  A handler runs alone until it awaits    *)
(* something outside the process; loading and saving the blob are not such *)
(* awaits, so a load, a computation and a save are one action.  The awaits *)
(* that do let others run are the model's only gaps:                       *)
(*   - the write of the public cache file that ends every saveState, when  *)
(*     the caller still has work to do after it (a redemption is saved,    *)
(*     then recorded);                                                     *)
(*   - the language model and the cache read in handleOffer and evaluate,  *)
(*     which keep the blob they loaded and save a copy of it afterwards.   *)
(***************************************************************************)
EXTENDS FundLedger

CONSTANTS
  AskPrice,     \* the configured price of an NFT
  OfferPrices,  \* prices buyers offer instead
  MaxOffer,     \* bound: offers evaluated at the same time
  Payments,     \* amounts buyers send
  MaxPayment,   \* bound: transfers ever sent
  TradeAmounts, \* amounts the language model proposes to buy for
  Gains,        \* profits and losses on open positions
  MaxPosition,  \* bound: open positions
  MaxDecision,  \* bound: trading evaluations
  MaxRestart,   \* bound: restarts of the process
  Memos,        \* sales named in the calldata of transfers, 0 for none
  MinDeployable \* evaluate() does nothing with less capital than this

ASSUME FundBounds ==
  /\ MaxPayment \in Nat /\ MaxPosition \in Nat /\ MaxDecision \in Nat
  /\ MaxRestart \in Nat /\ MaxOffer \in Nat /\ Memos \subseteq {0} \cup SaleId
  /\ MinDeployable \in Nat /\ AskPrice \in Int
  /\ OfferPrices \subseteq Int /\ Payments \subseteq Nat \ {0}
  /\ TradeAmounts \subseteq Nat \ {0} /\ Gains \subseteq Int

VARIABLES
  store,       \* the blob in the database
  chain,       \* the agent's USDC balance on chain
  seen,        \* the balance the wallet monitor read last
  inflight,    \* transfers the USDC monitor will still fetch and hand over
  mined,       \* all transfers on chain
  taken,       \* history: transfers that were handed over
  refetched,   \* history: what was handed over and will be fetched again
  saleLate,    \* sales past their expiresAt
  requestLate, \* redemption requests past their expiresAt
  drawn,       \* how many ids of each kind were drawn
  withdrawing, \* immediate redemptions between their two saves
  fulfil,      \* the pass over the redemption queue
  offer,       \* the offers being evaluated
  trader,      \* the trading evaluation
  payouts      \* history: how often each token was reported redeemed

fetches == <<mined, taken, refetched>>
env     == <<chain, seen, inflight, fetches, saleLate, requestLate>>
workers == <<withdrawing, fulfil, offer, trader>>
vars    == <<store, env, drawn, workers, payouts>>

Transfer == [from : Wallet, amount : Payments, memo : Memos, id : 1..MaxPayment]

\* The blobs in the store and in the hands of the slow handlers.
Slot  == 1..MaxOffer
Blobs == {store, trader.held} \cup {offer[i].held : i \in Slot}

NoRequest  == [id |-> 0, token |-> NoToken, net |-> 0]
IdleFulfil == [pc |-> "idle", todo |-> {}, current |-> NoRequest,
               liquid |-> 0]
IdleTrader == [pc |-> "idle", held |-> EmptyBlob]
NoOffer    == [wallet |-> "none", price |-> 0, held |-> EmptyBlob]

DrawnKinds == {"sale", "token", "request", "payment", "decision", "restart"}

Init ==
  /\ store = EmptyBlob
  /\ chain = 0 /\ seen = 0 /\ inflight = {} /\ saleLate = {} /\ requestLate = {}
  /\ mined = {} /\ taken = {} /\ refetched = 0
  /\ drawn = [kind \in DrawnKinds |-> 0]
  /\ withdrawing = {} /\ fulfil = IdleFulfil /\ trader = IdleTrader
  /\ offer = [i \in Slot |-> NoOffer]
  /\ payouts = [t \in TokenId |-> 0]

\* A fresh uuid.
Draw(kind, max) == drawn[kind] < max /\ drawn' = [drawn EXCEPT ![kind] = @ + 1]

-----------------------------------------------------------------------------
\* The HTTP handlers that open a sale.

\* Mutant: the open sale is not looked for.
MayAlwaysOpen(w) == w \in Wallet

MayOpenSale(w) == LiveSales(store, w, saleLate) = {}

HandleBuy(w) ==
  /\ MayOpenSale(w)
  /\ Draw("sale", MaxSale)
  /\ store' = OpenSale(store, drawn.sale + 1, w, AskPrice, NoToken)
  /\ UNCHANGED <<env, workers, payouts>>

HandleAddFunds(w, t, amount) ==
  /\ t \in DOMAIN store.nfts /\ store.nfts[t].owner = w
  /\ MayOpenSale(w)
  /\ Draw("sale", MaxSale)
  /\ store' = OpenSale(store, drawn.sale + 1, w, amount, t)
  /\ UNCHANGED <<env, workers, payouts>>

\* handleOffer up to its awaits, with the blob it has loaded ...
HandleOffer(i, w, price) ==
  /\ offer[i] = NoOffer /\ \A j \in Slot : offer[j] = NoOffer => i <= j
  /\ MayOpenSale(w)
  /\ offer' = [offer EXCEPT ![i] = [wallet |-> w, price |-> price, held |-> store]]
  /\ UNCHANGED <<store, env, drawn, withdrawing, fulfil, trader, payouts>>

\* ... and after them: the sale is added to the blob loaded before.
AcceptOffer(i) ==
  /\ offer[i] # NoOffer
  /\ Draw("sale", MaxSale)
  /\ store' = OpenSale(offer[i].held, drawn.sale + 1, offer[i].wallet, offer[i].price,
                       NoToken)
  /\ offer' = [offer EXCEPT ![i] = NoOffer]
  /\ UNCHANGED <<env, withdrawing, fulfil, trader, payouts>>

\* A counter-offer or a rejection saves nothing.
DeclineOffer(i) ==
  /\ offer[i] # NoOffer
  /\ offer' = [offer EXCEPT ![i] = NoOffer]
  /\ UNCHANGED <<store, env, drawn, withdrawing, fulfil, trader, payouts>>

-----------------------------------------------------------------------------
\* The chain and its two monitors.

Pay(w, amount, memo) ==
  LET tr == [from |-> w, amount |-> amount, memo |-> memo, id |-> drawn.payment + 1]
  IN  /\ memo <= drawn.sale
      /\ Draw("payment", MaxPayment)
      /\ inflight' = inflight \cup {tr} /\ mined' = mined \cup {tr}
      /\ chain' = chain + amount
      /\ UNCHANGED <<store, seen, taken, refetched, saleLate, requestLate, workers, payouts>>

PollBaseUsdc ==
  /\ seen # chain
  /\ seen' = chain
  /\ UNCHANGED <<store, chain, inflight, fetches, saleLate, requestLate, drawn, workers, payouts>>

\* The sale a transfer pays: by its memo, whatever the sale's status, or else
\* the sender's live sale.  0 is no match.
Match(b, tr) ==
  IF tr.memo \in DOMAIN b.sales THEN tr.memo
  ELSE IF LiveSales(b, tr.from, saleLate) # {}
       THEN Min(LiveSales(b, tr.from, saleLate)) ELSE 0

AlreadyPaid(b, w) ==
  \E s \in DOMAIN b.sales : b.sales[s].buyer = w /\ b.sales[s].status = "paid"

\* Mutant: only the deadline is checked.
PayableAgain(b, s) == s \notin saleLate

Payable(b, s) == b.sales[s].status = "awaiting_payment" /\ s \notin saleLate

\* onInboundTransfer, by its cases.
Donate(tr) ==
  /\ Match(store, tr) = 0
  /\ store' = IF AlreadyPaid(store, tr.from) THEN store
              ELSE [store EXCEPT !.donations = @ + tr.amount]
  /\ UNCHANGED drawn

IgnoreTransfer(tr) ==
  /\ Match(store, tr) # 0 /\ ~Payable(store, Match(store, tr))
  /\ UNCHANGED <<store, drawn>>

PayForNft(tr) ==
  LET s == Match(store, tr)
  IN  /\ s # 0 /\ Payable(store, s) /\ store.sales[s].target = NoToken
      /\ Draw("token", MaxToken)
      /\ store' = CompleteSale(store, s, drawn.token + 1, tr.amount)

\* A top-up of an NFT redeemed meanwhile throws and is only logged.
PayIntoNft(tr) ==
  LET s == Match(store, tr)
  IN  /\ s # 0 /\ Payable(store, s) /\ store.sales[s].target # NoToken
      /\ store' = IF store.sales[s].target \in DOMAIN store.nfts
                  THEN AddFundsToNft(store, s, tr.amount) ELSE store
      /\ UNCHANGED drawn

\* Mutant: the transfer is not remembered in processedTxs.
OnInboundTransferAgain(tr) ==
  /\ Donate(tr) \/ IgnoreTransfer(tr) \/ PayForNft(tr) \/ PayIntoNft(tr)
  /\ UNCHANGED <<env, workers, payouts>>

OnInboundTransfer(tr) ==
  /\ inflight' = inflight \ {tr} /\ taken' = taken \cup {tr}
  /\ Donate(tr) \/ IgnoreTransfer(tr) \/ PayForNft(tr) \/ PayIntoNft(tr)
  /\ UNCHANGED <<chain, seen, mined, refetched, saleLate, requestLate, workers, payouts>>

\* The balance both sync timers write: upwards only while positions are open.
SyncedLiquid(b) ==
  IF b.positions # << >> THEN Bigger(b.liquid, seen) ELSE seen

BalanceSync ==
  /\ store.liquid # SyncedLiquid(store)
  /\ store' = [store EXCEPT !.liquid = SyncedLiquid(store)]
  /\ UNCHANGED <<env, drawn, workers, payouts>>

-----------------------------------------------------------------------------
\* Redemptions.

\* handleWithdraw and processRedemptionRequest when the queue must wait.
QueueWithdrawal(w, t) ==
  LET r == drawn.request + 1
  IN  /\ t \in DOMAIN store.nfts /\ store.nfts[t].owner = w
      /\ ~AlreadyQueued(store, t)
      /\ store.liquid < NetUsdc(store, t)
      /\ Draw("request", MaxRequest)
      /\ store' = AddRequest(store, r, t, NetUsdc(store, t), "queued")
      /\ UNCHANGED <<env, workers, payouts>>

\* Mutant: the NFT is left for the second save.
WithdrawFirst(w, t) ==
  LET r == drawn.request + 1
  IN  /\ t \in DOMAIN store.nfts /\ store.nfts[t].owner = w
      /\ ~AlreadyQueued(store, t)
      /\ store.liquid >= NetUsdc(store, t)
      /\ Draw("request", MaxRequest)
      /\ withdrawing' = withdrawing \cup {[id |-> r, token |-> t, net |-> NetUsdc(store, t)]}
      /\ UNCHANGED <<store, env, fulfil, offer, trader, payouts>>

\* ... and when it is paid at once: the NFT goes first,
WithdrawNow(w, t) ==
  LET r == drawn.request + 1
  IN  /\ t \in DOMAIN store.nfts /\ store.nfts[t].owner = w
      /\ ~AlreadyQueued(store, t)
      /\ store.liquid >= NetUsdc(store, t)
      /\ Draw("request", MaxRequest)
      /\ store' = RedeemNft(store, t)
      /\ withdrawing' = withdrawing \cup {[id |-> r, token |-> t, net |-> NetUsdc(store, t)]}
      /\ UNCHANGED <<env, fulfil, offer, trader, payouts>>

\* then, after the cache write, the request and the balance.
RecordWithdrawal(rd) ==
  /\ store' = RecordFulfilled(store, rd.id, rd.token, rd.net)
  /\ withdrawing' = withdrawing \ {rd}
  /\ payouts' = [payouts EXCEPT ![rd.token] = @ + 1]
  /\ UNCHANGED <<env, drawn, fulfil, offer, trader>>

\* fulfilQueuedRedemptions.  The clock is read once, when the pass starts.

\* Mutant of the next action: the final save is left out.
FulfilForgets ==
  /\ fulfil.pc = "idle" /\ Queued(store) # {} /\ Queued(store) \subseteq requestLate
  /\ UNCHANGED vars

\* A pass that finds only late requests expires them and saves once.
FulfilExpiresAll ==
  /\ fulfil.pc = "idle" /\ Queued(store) # {} /\ Queued(store) \subseteq requestLate
  /\ store' = ExpireRequests(store, Queued(store))
  /\ UNCHANGED <<env, drawn, workers, payouts>>

\* The loop holds the requests it read at the start, in queue order, and its
\* own copy of the balance; only the NFT is looked up afresh.
Pending == {[id |-> r, token |-> store.queue[r].token, net |-> store.queue[r].net] :
              r \in Queued(store) \ requestLate}

Redeemable(todo, liquid) ==
  {q \in todo : q.net <= liquid /\ q.token \in DOMAIN store.nfts}

RedeemNext(todo, liquid) ==
  \E q \in Redeemable(todo, liquid) :
    /\ \A p \in Redeemable(todo, liquid) : q.id <= p.id
    /\ store' = RedeemNft(store, q.token)
    /\ fulfil' = [pc |-> "redeemed", current |-> q, liquid |-> liquid,
                  todo |-> {p \in todo : p.id > q.id}]

\* Any other pass marks late requests in a copy it never saves, and redeems,
FulfilStart ==
  /\ fulfil.pc = "idle"
  /\ RedeemNext(Pending, store.liquid)
  /\ UNCHANGED <<env, drawn, withdrawing, offer, trader, payouts>>

\* records a redemption after redeemNft's cache write,
FulfilRecord ==
  LET q == fulfil.current
  IN  /\ fulfil.pc = "redeemed"
      /\ store' = RecordFulfilled(store, q.id, q.token, q.net)
      /\ fulfil' = [fulfil EXCEPT !.pc = "saved", !.current = NoRequest,
                                  !.liquid = store.liquid - q.net]
      /\ payouts' = [payouts EXCEPT ![q.token] = @ + 1]
      /\ UNCHANGED <<env, drawn, withdrawing, offer, trader>>

\* and goes on with the rest after its own.
FulfilNext ==
  /\ fulfil.pc = "saved"
  /\ \/ RedeemNext(fulfil.todo, fulfil.liquid)
     \/ /\ Redeemable(fulfil.todo, fulfil.liquid) = {}
        /\ fulfil' = IdleFulfil
        /\ UNCHANGED store
  /\ UNCHANGED <<env, drawn, withdrawing, offer, trader, payouts>>

-----------------------------------------------------------------------------
\* Trading: runTradingEval syncs the balance, evaluate() decides.

TraderSync ==
  /\ trader.pc = "idle" /\ store.liquid # SyncedLiquid(store)
  /\ store' = [store EXCEPT !.liquid = SyncedLiquid(store)]
  /\ trader' = [trader EXCEPT !.pc = "synced"]
  /\ UNCHANGED <<env, drawn, withdrawing, fulfil, offer, payouts>>

MayTrade(b) ==
  /\ Deployable4(b) >= 4 * MinDeployable
  /\ ~(b.liquid > 0 /\ 2 * QueuedUsdc(b) > b.liquid)

\* The blob is loaded and the language model is asked.
EvaluateStart ==
  /\ trader.pc = "synced" \/ (trader.pc = "idle" /\ store.liquid = SyncedLiquid(store))
  /\ MayTrade(store)
  /\ Draw("decision", MaxDecision)
  /\ trader' = [pc |-> "asked", held |-> store]
  /\ UNCHANGED <<store, env, withdrawing, fulfil, offer, payouts>>

\* Too little capital, too many redemptions, or too many trades already.
EvaluateRefused ==
  /\ trader.pc = "synced"
  /\ trader' = IdleTrader
  /\ UNCHANGED <<store, env, drawn, withdrawing, fulfil, offer, payouts>>

\* Its answer is logged in the blob loaded before; the log itself is left out.
EvaluateDecided(next) ==
  /\ trader.pc = "asked"
  /\ store' = trader.held
  /\ trader' = IF next = "trading" THEN [trader EXCEPT !.pc = "trading"] ELSE IdleTrader
  /\ UNCHANGED <<env, drawn, withdrawing, fulfil, offer, payouts>>

\* The model is unreachable, or the price is zero: nothing is saved.
EvaluateSkipped ==
  /\ trader.pc \in {"asked", "trading"}
  /\ trader' = IdleTrader
  /\ UNCHANGED <<store, env, drawn, withdrawing, fulfil, offer, payouts>>

\* Positions lose at most what they cost.
GainsOn(cost) == {g \in Gains : g >= -cost}

\* A purchase of at most a fifth of the deployable capital; a sale of one
\* position; a sale with no position, or a failed swap, saves the held blob.
Bought(b) ==
  {Buy(b, a) : a \in {x \in TradeAmounts : /\ 20 * x <= Deployable4(b)
                                           /\ Len(b.positions) < MaxPosition}}

Sold(b) ==
  UNION {{Sell(b, i, g) : g \in GainsOn(b.positions[i])} : i \in DOMAIN b.positions}

Traded(b) == Bought(b) \cup Sold(b) \cup {b}

EvaluateTraded ==
  /\ trader.pc = "trading"
  /\ store' \in Traded(trader.held)
  /\ trader' = IdleTrader
  /\ UNCHANGED <<env, drawn, withdrawing, fulfil, offer, payouts>>

MarkPositions(g) ==
  /\ store.positions # << >> /\ g \in GainsOn(SumOfCosts(store.positions))
  /\ WholeShares(Marked(store, g))
  /\ store' = MarkToMarket(store, g)
  /\ UNCHANGED <<env, drawn, workers, payouts>>

-----------------------------------------------------------------------------
\* Time, the cleanup timer, and a restart of the process.

\* Only of open sales and queued requests does it matter that they are late.
OpenSomewhere(s) ==
  \E b \in Blobs : s \in DOMAIN b.sales /\ b.sales[s].status = "awaiting_payment"

QueuedSomewhere == UNION {Queued(b) : b \in Blobs}

SalePasses(s) ==
  /\ OpenSomewhere(s) /\ s \notin saleLate
  /\ saleLate' = saleLate \cup {s}
  /\ UNCHANGED <<store, chain, seen, inflight, fetches, requestLate, drawn, workers, payouts>>

\* All requests have the same window, so they pass in order.
RequestPasses(r) ==
  /\ r \in QueuedSomewhere \ requestLate
  /\ \A q \in QueuedSomewhere \ requestLate : r <= q
  /\ requestLate' = requestLate \cup {r}
  /\ UNCHANGED <<store, chain, seen, inflight, fetches, saleLate, drawn, workers, payouts>>

CleanupSales ==
  /\ store # ExpireStalePendingSales(store, saleLate)
  /\ store' = ExpireStalePendingSales(store, saleLate)
  /\ UNCHANGED <<env, drawn, workers, payouts>>

AmountOf(transfers) == SumFunction([tr \in transfers |-> tr.amount])

\* The USDC monitor starts at the current block: what is on its way is skipped.
StartAtHead == inflight' = {} /\ UNCHANGED refetched

\* Its first getBlockNumber fails: it starts at block 0, with nothing processed,
\* and fetches all there ever was.
StartAtGenesis ==
  /\ inflight' = mined
  /\ refetched' = refetched + AmountOf(taken \ inflight)

\* The database survives.  The wallet monitor's first read may fail and leave 0.
Restart ==
  /\ Draw("restart", MaxRestart)
  /\ withdrawing' = {} /\ fulfil' = IdleFulfil /\ trader' = IdleTrader
  /\ offer' = [i \in Slot |-> NoOffer]
  /\ StartAtHead \/ StartAtGenesis
  /\ seen' \in {0, chain}
  /\ UNCHANGED <<store, chain, mined, taken, saleLate, requestLate, payouts>>

-----------------------------------------------------------------------------
OpenSales == \E w \in Wallet :
  \/ HandleBuy(w)
  \/ \E t \in TokenId, a \in Payments : HandleAddFunds(w, t, a)

Offers == \E i \in Slot :
  \/ \E w \in Wallet, p \in OfferPrices : HandleOffer(i, w, p)
  \/ AcceptOffer(i) \/ DeclineOffer(i)

Payment ==
  \/ \E w \in Wallet, a \in Payments, m \in Memos : Pay(w, a, m)
  \/ PollBaseUsdc \/ BalanceSync
  \/ \E tr \in inflight : OnInboundTransfer(tr)

Redemption ==
  \/ \E w \in Wallet, t \in TokenId : QueueWithdrawal(w, t) \/ WithdrawNow(w, t)
  \/ \E rd \in withdrawing : RecordWithdrawal(rd)
  \/ FulfilExpiresAll \/ FulfilStart \/ FulfilRecord \/ FulfilNext

Trading ==
  \/ TraderSync \/ EvaluateStart \/ EvaluateRefused \/ EvaluateSkipped \/ EvaluateTraded
  \/ \E next \in {"trading", "idle"} : EvaluateDecided(next)
  \/ \E g \in Gains : MarkPositions(g)

Clock ==
  \/ \E s \in SaleId : SalePasses(s)
  \/ \E r \in RequestId : RequestPasses(r)
  \/ CleanupSales \/ Restart

Next == OpenSales \/ Offers \/ Payment \/ Redemption \/ Trading \/ Clock

Spec == Init /\ [][Next]_vars

\* The fulfilment timer never stops, and a pass between its two saves goes on.
\* Nothing is assumed of holders, and nothing of the requests' deadlines.
FulfilPass == FulfilExpiresAll \/ FulfilStart \/ FulfilRecord \/ FulfilNext

FairSpec == Spec /\ WF_vars(FulfilPass)

-----------------------------------------------------------------------------
(***************************************************************************)
(* Properties                                                              *)
(***************************************************************************)

BlobOK(b) ==
  /\ DOMAIN b.sales \subseteq SaleId    /\ \A s \in DOMAIN b.sales : b.sales[s] \in Sale
  /\ DOMAIN b.nfts \subseteq TokenId    /\ \A t \in DOMAIN b.nfts : b.nfts[t] \in Nft
  /\ DOMAIN b.queue \subseteq RequestId /\ \A r \in DOMAIN b.queue : b.queue[r] \in Request
  /\ {b.liquid, b.deposited, b.value, b.donations, b.pnl} \subseteq Int
  /\ b.positions \in Seq(Nat)

\* What a redemption holds between two of its steps.
Paper == [id : RequestId, token : TokenId, net : Int]

\* The type of every variable, of the blobs that slow handlers hold too.
TypeOK ==
  /\ \A b \in Blobs : BlobOK(b)
  /\ chain \in Nat /\ seen \in Nat /\ refetched \in Nat
  /\ inflight \subseteq mined /\ taken \subseteq mined /\ mined \subseteq Transfer
  /\ saleLate \subseteq SaleId /\ requestLate \subseteq RequestId
  /\ drawn \in [DrawnKinds -> Nat]
  /\ withdrawing \subseteq Paper
  /\ fulfil.pc \in {"idle", "redeemed", "saved"} /\ fulfil.liquid \in Int
  /\ fulfil.todo \subseteq Paper /\ (fulfil.pc = "redeemed" => fulfil.current \in Paper)
  /\ \A i \in Slot : offer[i] # NoOffer => offer[i].wallet \in Wallet /\ offer[i].price \in Int
  /\ trader.pc \in {"idle", "synced", "asked", "trading"}
  /\ payouts \in [TokenId -> Nat]

-----------------------------------------------------------------------------
\* Properties of every build, slow handlers included.

\* The navs of the holders add up to the pool's value: whatever handlers and
\* timers do in between, nobody's share is created or lost.
NavsSumToPool ==
  LET sum == SumOfNavs(store.nfts)
  IN  DOMAIN store.nfts # {} /\ sum # 0 => sum = store.value

\* totalUsdcDeposited is what the holders of the remaining NFTs paid in, also
\* after a stale copy of the blob was saved over a newer one.
DepositsAddUp == store.deposited = SumOfDeposits(store.nfts)

\* NFTs and donations together are never credited with more USDC than buyers
\* sent, however transfers, restarts and stale saves interleave, except for
\* what a monitor that started at block 0 had handed over before and fetched
\* again: no more than exactly that is credited twice.
NothingCreditedTwice ==
  SumOfDeposits(store.nfts) + store.donations <= chain + refetched

\* A paid sale mints one NFT: there are never more NFTs than paid purchases,
\* although completeSale and the saves of other handlers interleave.
OneNftPerSale ==
  Cardinality(DOMAIN store.nfts) <=
    Cardinality({s \in DOMAIN store.sales : /\ store.sales[s].status = "paid"
                                            /\ store.sales[s].target = NoToken})

\* A wallet never has two sales it could pay, although handleOffer checks for
\* an open sale before it waits for the language model and adds one after.
OneLiveSalePerWallet ==
  \A w \in Wallet : \A s, t \in LiveSales(store, w, saleLate) : s = t

\* A token waits in the redemption queue at most once, although the duplicate
\* check reads a blob that a slow handler may later overwrite.
OneQueuedPerToken ==
  \A q, r \in Queued(store) : store.queue[q].token = store.queue[r].token => q = r

-----------------------------------------------------------------------------
\* Properties that hold while no handler saves a blob it loaded before an await
\* (OfferPrices = {}, MaxDecision = 0), and fail as soon as one does.

\* The fund's tokens, as Holdings has them: those that left the NFTs are in
\* the hands of a withdrawal or of the pass, and those that were paid are what
\* the queue reports fulfilled.
Leaving ==
  {rd.token : rd \in withdrawing} \cup {t \in {fulfil.current.token} : fulfil.pc = "redeemed"}

FulfilledTokens ==
  {store.queue[r].token : r \in {x \in DOMAIN store.queue : store.queue[x].status = "fulfilled"}}

Promised == INSTANCE Holdings WITH
  Token <- TokenId, minted <- 1..drawn.token, held <- DOMAIN store.nfts,
  leaving <- Leaving, paid <- FulfilledTokens

\* A token is minted once, leaves once and is paid at most once, by a withdrawal
\* or by the pass, whichever of their steps and restarts interleave; one that
\* was reported redeemed never comes back.
HoldingsKept == Promised!Spec

\* No token is redeemed for money twice, by a holder's withdrawal, by the
\* fulfilment timer, or by one of each.
RedeemedOnce == \A t \in TokenId : payouts[t] <= 1

\* A sale that was paid stays paid: the holder does not lose the payment.
PaidStaysPaid ==
  [][\A s \in DOMAIN store.sales : store.sales[s].status = "paid" =>
       s \in DOMAIN store'.sales /\ store'.sales[s].status = "paid"]_store

\* Until the process restarts, a queued request still has its NFT, except while
\* a pass is redeeming it: no withdrawal takes an NFT away from the queue.
QueuedHasToken ==
  drawn.restart = 0 =>
    \A r \in Queued(store) : \/ store.queue[r].token \in DOMAIN store.nfts
                             \/ fulfil.current.id = r

\* A queued request is fulfilled or expired in the end, also when its NFT is
\* gone or the money never suffices, provided that from some time on no request
\* in the queue is within its deadline.  A steady stream of younger requests
\* starves a late one: a pass that has any of them left saves no expiry.
QueuedSettles ==
  <>[](Queued(store) \subseteq requestLate) =>
    \A r \in RequestId : (r \in Queued(store)) ~> (r \notin Queued(store))

-----------------------------------------------------------------------------
\* Claims of the code's comments and pages that its behaviour contradicts.

\* withdraw.ts: a redemption is paid at once "if liquid USDC covers it", so no
\* redemption takes the balance below zero.
LiquidNeverNegative == store.liquid >= 0
=============================================================================
