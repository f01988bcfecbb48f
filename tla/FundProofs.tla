----------------------------- MODULE FundProofs -----------------------------
(***************************************************************************)
(* Theorems about Fund, for every set of wallets, prices, amounts and      *)
(* bounds, slow handlers, stale saves and restarts included.               *)
(*                                                                         *)
(* A slow handler saves a copy of the blob it loaded long ago, so what the *)
(* store promises must also be true of every copy in a handler's hands;    *)
(* that is the strengthening IInv makes.  A step then either narrows one   *)
(* of these blobs - opens no sale, queues no request - or is one of the    *)
(* three that open a sale or queue a request, guarded by a check of the    *)
(* very blob it extends.  The later sections prove that NFTs are bought,   *)
(* and what redemptions and payments promise while no stale blob is saved. *)
(***************************************************************************)
EXTENDS Fund, FiniteSetTheorems, TLAPS

\* A blob has its fields, and its sales and requests have theirs.  (The sums of
\* amounts are folds, about which nothing is known here: amounts of requests
\* and NFTs have no type.)
Fields(b) ==
  b = [sales |-> b.sales, nfts |-> b.nfts, queue |-> b.queue, liquid |-> b.liquid,
       deposited |-> b.deposited, value |-> b.value, donations |-> b.donations,
       positions |-> b.positions, pnl |-> b.pnl]

Lists(b) ==
  /\ b.sales = [s \in DOMAIN b.sales |-> b.sales[s]]
  /\ \A s \in DOMAIN b.sales :
       b.sales[s] = [buyer |-> b.sales[s].buyer, price |-> b.sales[s].price,
                     status |-> b.sales[s].status, target |-> b.sales[s].target]
  /\ \A r \in DOMAIN b.queue :
       b.queue[r] = [token |-> b.queue[r].token, net |-> b.queue[r].net,
                     status |-> b.queue[r].status]

Shape(b) == Fields(b) /\ Lists(b)

\* The sales and what they are for are the same, and those paid stay paid.
KeepsPaid(b, c) ==
  /\ DOMAIN c.sales = DOMAIN b.sales
  /\ \A s \in DOMAIN b.sales :
       /\ c.sales[s].target = b.sales[s].target
       /\ b.sales[s].status = "paid" => c.sales[s].status = "paid"

\* A sale of c awaits payment, or a request of c is queued, only if the same
\* sale or request does in b.
Narrows(b, c) ==
  /\ KeepsPaid(b, c)
  /\ \A s \in DOMAIN c.sales : c.sales[s].status = "awaiting_payment" =>
       /\ s \in DOMAIN b.sales
       /\ b.sales[s].status = "awaiting_payment" /\ b.sales[s].buyer = c.sales[s].buyer
  /\ \A r \in Queued(c) : r \in Queued(b) /\ b.queue[r].token = c.queue[r].token

\* Both promises, of any blob.
OneLive(b, late) ==
  \A w \in Wallet : \A s, t \in LiveSales(b, w, late) : s = t

OneQueued(b) ==
  \A q, r \in Queued(b) : b.queue[q].token = b.queue[r].token => q = r

Sound(b, late) == Shape(b) /\ OneLive(b, late) /\ OneQueued(b)

IInv ==
  /\ \A b \in Blobs : Sound(b, saleLate)
  /\ offer = [i \in Slot |-> offer[i]]
  /\ \A i \in Slot : offer[i] # NoOffer =>
       LiveSales(offer[i].held, offer[i].wallet, saleLate) = {}
  /\ trader = [pc |-> trader.pc, held |-> trader.held]

-----------------------------------------------------------------------------
\* What the functions of the ledger do to sales and requests.

LEMMA NarrowsRefl == ASSUME NEW b PROVE Narrows(b, b)
BY DEF Narrows, KeepsPaid, Queued

\* Writing other fields than sales and queue narrows nothing.
LEMMA SameLists ==
  ASSUME NEW b, NEW c, Shape(b), Fields(c), c.sales = b.sales, c.queue = b.queue
  PROVE  Shape(c) /\ Narrows(b, c)
BY DEF Shape, Lists, Narrows, KeepsPaid, Queued

LEMMA NarrowsTrans ==
  ASSUME NEW b, NEW c, NEW d, Narrows(b, c), Narrows(c, d)
  PROVE  Narrows(b, d)
BY DEF Narrows, KeepsPaid

LEMMA NarrowsSound ==
  ASSUME NEW b, NEW c, NEW late, Sound(b, late), Shape(c), Narrows(b, c)
  PROVE  Sound(c, late)
<1>1. OneLive(c, late)
  BY DEF Sound, OneLive, LiveSales, Narrows
<1>2. OneQueued(c)
  BY DEF Sound, OneQueued, Narrows
<1> QED
  BY <1>1, <1>2 DEF Sound

\* Recalculating the navs leaves sales, requests and the set of tokens alone.
LEMMA Recalculated ==
  ASSUME NEW b, Shape(b)
  PROVE  /\ Shape(RecalculateAllNavs(b)) /\ Narrows(b, RecalculateAllNavs(b))
         /\ RecalculateAllNavs(b).queue = b.queue
         /\ DOMAIN RecalculateAllNavs(b).nfts = DOMAIN b.nfts
<1> DEFINE c == RecalculateAllNavs(b)
<1>1. PICK navs : navs = [t \in DOMAIN b.nfts |->
         [b.nfts[t] EXCEPT !.nav = Share(b.nfts[t].nav, b.value, SumOfNavs(b.nfts))]]
  OBVIOUS
<1>2. (c = b \/ c = [b EXCEPT !.nfts = navs]) /\ DOMAIN navs = DOMAIN b.nfts
  BY <1>1 DEF RecalculateAllNavs
<1>3. Fields(c) /\ c.sales = b.sales /\ c.queue = b.queue /\ DOMAIN c.nfts = DOMAIN b.nfts
  BY <1>2 DEF Shape, Fields
<1> QED
  BY <1>3, SameLists

\* Some sales lose the status they had.
LEMMA StatusWritten ==
  ASSUME NEW b, NEW c, NEW status, Shape(b), Fields(c), c.queue = b.queue,
         status # "awaiting_payment",
         c.sales = [s \in DOMAIN b.sales |-> c.sales[s]],
         \A s \in DOMAIN b.sales : c.sales[s] = b.sales[s] \/
                                    c.sales[s] = [b.sales[s] EXCEPT !.status = status],
         \A s \in DOMAIN b.sales : b.sales[s].status = "paid" =>
                                    status = "paid" \/ c.sales[s] = b.sales[s]
  PROVE  Shape(c) /\ Narrows(b, c)
<1>1. DOMAIN c.sales = DOMAIN b.sales
  OBVIOUS
<1>2. ASSUME NEW s \in DOMAIN b.sales
      PROVE  /\ c.sales[s] = [buyer |-> c.sales[s].buyer, price |-> c.sales[s].price,
                              status |-> c.sales[s].status, target |-> c.sales[s].target]
             /\ c.sales[s].status = "awaiting_payment" =>
                  /\ b.sales[s].status = "awaiting_payment"
                  /\ b.sales[s].buyer = c.sales[s].buyer
             /\ c.sales[s].target = b.sales[s].target
             /\ b.sales[s].status = "paid" => c.sales[s].status = "paid"
  <2>1. PICK old : old = b.sales[s]
    OBVIOUS
  <2>2. old = [buyer |-> old.buyer, price |-> old.price,
               status |-> old.status, target |-> old.target]
    BY <2>1 DEF Shape, Lists
  <2>3. c.sales[s] = old \/ c.sales[s] = [old EXCEPT !.status = status]
    BY <2>1
  <2> QED
    BY <2>1, <2>2, <2>3
<1>3. Lists(c)
  BY <1>1, <1>2 DEF Shape, Lists
<1>4. Narrows(b, c)
  BY <1>1, <1>2 DEF Narrows, KeepsPaid, Queued
<1> QED
  BY <1>3, <1>4 DEF Shape

LEMMA Deposited ==
  ASSUME NEW b, NEW s, NEW amount, Shape(b)
  PROVE  /\ Shape(Deposit(b, s, amount)) /\ Narrows(b, Deposit(b, s, amount))
         /\ Deposit(b, s, amount).queue = b.queue
         /\ Deposit(b, s, amount).nfts = b.nfts
         /\ s \in DOMAIN b.sales => Deposit(b, s, amount).sales[s].status = "paid"
<1> DEFINE c == Deposit(b, s, amount)
<1>1. PICK paid : paid = [b.sales EXCEPT ![s].status = "paid"]
  OBVIOUS
<1>2. c = [b EXCEPT !.sales = paid, !.deposited = @ + amount, !.value = @ + amount]
  BY <1>1 DEF Deposit
<1>3. Fields(c) /\ c.sales = paid /\ c.queue = b.queue /\ c.nfts = b.nfts
  BY <1>2 DEF Shape, Fields
<1>4. c.sales = [x \in DOMAIN b.sales |->
                   IF x = s THEN [b.sales[x] EXCEPT !.status = "paid"] ELSE b.sales[x]]
  BY <1>1, <1>3 DEF Shape, Lists
<1>5. \A x \in DOMAIN b.sales : c.sales[x] = b.sales[x] \/
                                 c.sales[x] = [b.sales[x] EXCEPT !.status = "paid"]
  BY <1>4
<1>6. Shape(c) /\ Narrows(b, c)
  BY <1>3, <1>4, <1>5, StatusWritten
<1>7. ASSUME s \in DOMAIN b.sales PROVE c.sales[s].status = "paid"
  <2>1. PICK old : old = b.sales[s]
    OBVIOUS
  <2>2. old = [buyer |-> old.buyer, price |-> old.price,
               status |-> old.status, target |-> old.target]
    BY <1>7, <2>1 DEF Shape, Lists
  <2> QED
    BY <1>4, <1>7, <2>1, <2>2
<1> QED
  BY <1>3, <1>6, <1>7

LEMMA SaleCompleted ==
  ASSUME NEW b, NEW s, NEW t, NEW amount, Shape(b)
  PROVE  /\ Shape(CompleteSale(b, s, t, amount))
         /\ Narrows(b, CompleteSale(b, s, t, amount))
         /\ CompleteSale(b, s, t, amount).queue = b.queue
         /\ DOMAIN CompleteSale(b, s, t, amount).nfts = DOMAIN b.nfts \cup {t}
         /\ s \in DOMAIN b.sales => CompleteSale(b, s, t, amount).sales[s].status = "paid"
<1> DEFINE d == Deposit(b, s, amount)
           c == Minted(b, s, t, amount)
<1>1. /\ Shape(d) /\ Narrows(b, d) /\ d.queue = b.queue /\ d.nfts = b.nfts
      /\ s \in DOMAIN b.sales => d.sales[s].status = "paid"
  BY Deposited
<1>2. PICK nft : c = [d EXCEPT !.nfts = Put(d.nfts, t, nft)]
  BY DEF Minted
<1>3. PICK n : n = Put(d.nfts, t, nft)
  OBVIOUS
<1>4. c = [d EXCEPT !.nfts = n] /\ DOMAIN n = DOMAIN b.nfts \cup {t}
  BY <1>1, <1>2, <1>3 DEF Put
<1>5. Fields(c) /\ c.sales = d.sales /\ c.queue = d.queue /\ c.nfts = n
  BY <1>1, <1>4 DEF Shape, Fields
<1>6. Shape(c) /\ Narrows(b, c) /\ DOMAIN c.nfts = DOMAIN b.nfts \cup {t}
  BY <1>1, <1>4, <1>5, SameLists, NarrowsTrans
<1>7. s \in DOMAIN b.sales => RecalculateAllNavs(c).sales[s].status = "paid"
  BY <1>1, <1>5, <1>6, Recalculated DEF Narrows, KeepsPaid
<1> QED
  BY <1>1, <1>5, <1>6, <1>7, Recalculated, NarrowsTrans DEF CompleteSale

LEMMA FundsAdded ==
  ASSUME NEW b, NEW s, NEW amount, Shape(b)
  PROVE  /\ Shape(AddFundsToNft(b, s, amount))
         /\ Narrows(b, AddFundsToNft(b, s, amount))
         /\ AddFundsToNft(b, s, amount).queue = b.queue
         /\ DOMAIN AddFundsToNft(b, s, amount).nfts = DOMAIN b.nfts
<1> DEFINE d == Deposit(b, s, amount)
           c == ToppedUp(b, s, amount)
<1>1. Shape(d) /\ Narrows(b, d) /\ d.queue = b.queue /\ d.nfts = b.nfts
  BY Deposited
<1>2. PICK n : n = [b.nfts EXCEPT ![b.sales[s].target] =
                      TopUp(b.nfts[b.sales[s].target], amount)]
  OBVIOUS
<1>3. c = [d EXCEPT !.nfts = n] /\ DOMAIN n = DOMAIN d.nfts
  BY <1>1, <1>2 DEF ToppedUp
<1>4. /\ Fields(c) /\ c.sales = d.sales /\ c.queue = d.queue
      /\ DOMAIN c.nfts = DOMAIN b.nfts
  BY <1>1, <1>3 DEF Shape, Fields
<1>5. Shape(c) /\ Narrows(b, c)
  BY <1>1, <1>4, SameLists, NarrowsTrans
<1> QED
  BY <1>1, <1>4, <1>5, Recalculated, NarrowsTrans DEF AddFundsToNft

LEMMA Redeemed ==
  ASSUME NEW b, NEW t, Shape(b)
  PROVE  /\ Shape(RedeemNft(b, t)) /\ Narrows(b, RedeemNft(b, t))
         /\ RedeemNft(b, t).queue = b.queue
         /\ DOMAIN RedeemNft(b, t).nfts = DOMAIN b.nfts \ {t}
<1> DEFINE c == Removed(b, t)
           rest == Restrict(b.nfts, DOMAIN b.nfts \ {t})
<1>1. PICK n, x, y : n = rest /\ c = [b EXCEPT !.nfts = n, !.deposited = x, !.value = y]
  BY DEF Removed
<1>2. Fields(c) /\ c.sales = b.sales /\ c.queue = b.queue /\ c.nfts = rest
  BY <1>1 DEF Shape, Fields
<1>3. DOMAIN rest = DOMAIN b.nfts \ {t}
  BY DEF Restrict
<1>4. Shape(c) /\ Narrows(b, c)
  BY <1>2, SameLists
<1> QED
  BY <1>2, <1>3, <1>4, Recalculated, NarrowsTrans DEF RedeemNft

LEMMA SalesExpired ==
  ASSUME NEW b, NEW late, Shape(b)
  PROVE  /\ Shape(ExpireStalePendingSales(b, late))
         /\ Narrows(b, ExpireStalePendingSales(b, late))
         /\ ExpireStalePendingSales(b, late).queue = b.queue
         /\ ExpireStalePendingSales(b, late).nfts = b.nfts
<1> DEFINE c == ExpireStalePendingSales(b, late)
<1>1. /\ Fields(c) /\ c.queue = b.queue /\ c.nfts = b.nfts
      /\ c.sales = [s \in DOMAIN b.sales |->
           IF b.sales[s].status = "awaiting_payment" /\ s \in late
           THEN [b.sales[s] EXCEPT !.status = "expired"] ELSE b.sales[s]]
  BY DEF ExpireStalePendingSales, Shape, Fields
<1>2. c.sales = [s \in DOMAIN b.sales |-> c.sales[s]]
  BY <1>1
<1>3. \A s \in DOMAIN b.sales : c.sales[s] = b.sales[s] \/
                                c.sales[s] = [b.sales[s] EXCEPT !.status = "expired"]
  BY <1>1
<1>5. \A s \in DOMAIN b.sales : b.sales[s].status = "paid" => c.sales[s] = b.sales[s]
  BY <1>1
<1>4. Shape(c) /\ Narrows(b, c)
  BY <1>1, <1>2, <1>3, <1>5, StatusWritten
<1> QED
  BY <1>1, <1>4

LEMMA RequestsExpired ==
  ASSUME NEW b, NEW rs, Shape(b)
  PROVE  /\ Shape(ExpireRequests(b, rs)) /\ Narrows(b, ExpireRequests(b, rs))
         /\ ExpireRequests(b, rs).nfts = b.nfts
         /\ DOMAIN ExpireRequests(b, rs).queue = DOMAIN b.queue
         /\ \A r \in DOMAIN b.queue :
              /\ ExpireRequests(b, rs).queue[r].token = b.queue[r].token
              /\ ExpireRequests(b, rs).queue[r].status =
                   IF r \in rs THEN "expired" ELSE b.queue[r].status
<1> DEFINE c == ExpireRequests(b, rs)
<1>1. /\ Fields(c) /\ c.sales = b.sales /\ c.nfts = b.nfts
      /\ c.queue = [r \in DOMAIN b.queue |->
           IF r \in rs THEN [b.queue[r] EXCEPT !.status = "expired"] ELSE b.queue[r]]
  BY DEF ExpireRequests, Shape, Fields
<1>2. ASSUME NEW r \in DOMAIN b.queue
      PROVE  /\ c.queue[r] = [token |-> c.queue[r].token, net |-> c.queue[r].net,
                              status |-> c.queue[r].status]
             /\ c.queue[r].token = b.queue[r].token
             /\ c.queue[r].status = IF r \in rs THEN "expired" ELSE b.queue[r].status
  <2>1. PICK old : old = b.queue[r]
    OBVIOUS
  <2>2. old = [token |-> old.token, net |-> old.net, status |-> old.status]
    BY <2>1 DEF Shape, Lists
  <2>3. c.queue[r] = IF r \in rs THEN [old EXCEPT !.status = "expired"] ELSE old
    BY <1>1, <2>1
  <2> QED
    BY <2>1, <2>2, <2>3
<1>3. DOMAIN c.queue = DOMAIN b.queue
  BY <1>1
<1>4. Lists(c)
  BY <1>1, <1>2, <1>3 DEF Shape, Lists
<1>5. Narrows(b, c)
  BY <1>1, <1>2, <1>3 DEF Narrows, KeepsPaid, Queued
<1> QED
  BY <1>1, <1>2, <1>3, <1>4, <1>5 DEF Shape

LEMMA RequestAdded ==
  ASSUME NEW b, NEW r, NEW t, NEW net, NEW status, Shape(b)
  PROVE  LET c == AddRequest(b, r, t, net, status)
         IN  /\ Shape(c) /\ c.sales = b.sales /\ c.nfts = b.nfts
             /\ c.queue = Put(b.queue, r, [token |-> t, net |-> net, status |-> status])
<1> DEFINE c == AddRequest(b, r, t, net, status)
<1>1. /\ Fields(c) /\ c.sales = b.sales /\ c.nfts = b.nfts
      /\ c.queue = Put(b.queue, r, [token |-> t, net |-> net, status |-> status])
  BY DEF AddRequest, Shape, Fields
<1>2. Lists(c)
  BY <1>1 DEF Shape, Lists, Put
<1> QED
  BY <1>1, <1>2 DEF Shape

LEMMA Recorded ==
  ASSUME NEW b, NEW r, NEW t, NEW net, Shape(b)
  PROVE  LET c == RecordFulfilled(b, r, t, net)
         IN  /\ Shape(c) /\ Narrows(b, c) /\ c.nfts = b.nfts
             /\ c.queue = Put(b.queue, r, [token |-> t, net |-> net, status |-> "fulfilled"])
<1> DEFINE a == AddRequest(b, r, t, net, "fulfilled")
           c == RecordFulfilled(b, r, t, net)
<1>1. /\ Shape(a) /\ a.sales = b.sales /\ a.nfts = b.nfts
      /\ a.queue = Put(b.queue, r, [token |-> t, net |-> net, status |-> "fulfilled"])
  BY RequestAdded
<1>2. PICK x : c = [a EXCEPT !.liquid = x]
  BY DEF RecordFulfilled
<1>3. Fields(c) /\ c.sales = a.sales /\ c.queue = a.queue /\ c.nfts = a.nfts
  BY <1>1, <1>2 DEF Shape, Fields
<1>4. Shape(c)
  BY <1>1, <1>3, SameLists
<1>5. Narrows(b, c)
  BY <1>1, <1>3 DEF Put, Narrows, KeepsPaid, Queued
<1> QED
  BY <1>1, <1>3, <1>4, <1>5

\* The outcomes of an evaluation that trades.
LEMMA TradedCases ==
  ASSUME NEW b, NEW c \in Traded(b)
  PROVE  \/ \E a \in TradeAmounts : c = Buy(b, a)
         \/ \E i \in DOMAIN b.positions, g \in Gains : c = Sell(b, i, g)
         \/ c = b
<1>1. CASE c \in Bought(b)
  BY <1>1 DEF Bought
<1>2. CASE c \in Sold(b)
  <2>1. PICK i \in DOMAIN b.positions : c \in {Sell(b, i, g) : g \in GainsOn(b.positions[i])}
    BY <1>2 DEF Sold
  <2>2. PICK g \in GainsOn(b.positions[i]) : c = Sell(b, i, g)
    BY <2>1
  <2> QED
    BY <2>2 DEF GainsOn
<1> QED
  BY <1>1, <1>2 DEF Traded

LEMMA TradedNarrows ==
  ASSUME NEW b, Shape(b), NEW c \in Traded(b)
  PROVE  Shape(c) /\ Narrows(b, c) /\ c.nfts = b.nfts
<1>1. ASSUME NEW a, c = Buy(b, a)
      PROVE  Fields(c) /\ c.sales = b.sales /\ c.queue = b.queue /\ c.nfts = b.nfts
  <2>1. PICK x, y : c = [b EXCEPT !.positions = x, !.liquid = y]
    BY <1>1 DEF Buy
  <2> QED
    BY <2>1 DEF Shape, Fields
<1>2. ASSUME NEW i, NEW g, c = Sell(b, i, g)
      PROVE  Fields(c) /\ c.sales = b.sales /\ c.queue = b.queue /\ c.nfts = b.nfts
  <2>1. PICK x, y, z : c = [b EXCEPT !.positions = x, !.liquid = y, !.pnl = z]
    BY <1>2 DEF Sell
  <2> QED
    BY <2>1 DEF Shape, Fields
<1> QED
  BY <1>1, <1>2, TradedCases, SameLists, NarrowsRefl

LEMMA MarkedNarrows ==
  ASSUME NEW b, NEW g, Shape(b)
  PROVE  /\ Shape(MarkToMarket(b, g)) /\ Narrows(b, MarkToMarket(b, g))
         /\ MarkToMarket(b, g).queue = b.queue
         /\ DOMAIN MarkToMarket(b, g).nfts = DOMAIN b.nfts
<1> DEFINE c == Marked(b, g)
<1>1. PICK v : c = [b EXCEPT !.value = v]
  BY DEF Marked
<1>2. Fields(c) /\ c.sales = b.sales /\ c.queue = b.queue /\ c.nfts = b.nfts
  BY <1>1 DEF Shape, Fields
<1>3. Shape(c) /\ Narrows(b, c)
  BY <1>2, SameLists
<1> QED
  BY <1>2, <1>3, Recalculated, NarrowsTrans DEF MarkToMarket

\* The three functions that open something, from a blob that was checked.
LEMMA SaleOpened ==
  ASSUME NEW b, NEW late, NEW s, NEW w, NEW price, NEW target,
         Sound(b, late), LiveSales(b, w, late) = {}
  PROVE  Sound(OpenSale(b, s, w, price, target), late)
<1> DEFINE c == OpenSale(b, s, w, price, target)
           sale == [buyer |-> w, price |-> price, status |-> "awaiting_payment",
                    target |-> target]
<1>1. Fields(c) /\ c.queue = b.queue /\ c.sales = Put(b.sales, s, sale)
  BY DEF OpenSale, Sound, Shape, Fields
<1>2. /\ DOMAIN c.sales = DOMAIN b.sales \cup {s}
      /\ \A x \in DOMAIN c.sales : c.sales[x] = IF x = s THEN sale ELSE b.sales[x]
  BY <1>1 DEF Put
<1>3. Shape(c)
  BY <1>1, <1>2 DEF Put, Sound, Shape, Lists
<1>4. ASSUME NEW v \in Wallet, NEW x \in LiveSales(c, v, late), NEW y \in LiveSales(c, v, late)
      PROVE  x = y
  <2>1. CASE v = w
    <3>1. \A z \in LiveSales(c, v, late) : z # s => z \in LiveSales(b, w, late)
      BY <1>2, <2>1 DEF LiveSales
    <3> QED
      BY <3>1
  <2>2. CASE v # w
    <3>1. \A z \in LiveSales(c, v, late) : z \in LiveSales(b, v, late)
      BY <1>2, <2>2 DEF LiveSales
    <3> QED
      BY <3>1 DEF Sound, OneLive
  <2> QED
    BY <2>1, <2>2
<1>5. OneQueued(c)
  BY <1>1 DEF Sound, OneQueued, Queued
<1> QED
  BY <1>3, <1>4, <1>5 DEF Sound, OneLive

LEMMA RequestQueued ==
  ASSUME NEW b, NEW late, NEW r, NEW t, NEW net,
         Sound(b, late), ~AlreadyQueued(b, t)
  PROVE  Sound(AddRequest(b, r, t, net, "queued"), late)
<1> DEFINE c == AddRequest(b, r, t, net, "queued")
           request == [token |-> t, net |-> net, status |-> "queued"]
<1>1. Shape(c) /\ c.sales = b.sales /\ c.queue = Put(b.queue, r, request)
  BY RequestAdded DEF Sound
<1>2. /\ DOMAIN c.queue = DOMAIN b.queue \cup {r}
      /\ \A x \in DOMAIN c.queue : c.queue[x] = IF x = r THEN request ELSE b.queue[x]
  BY <1>1 DEF Put
<1>3. OneLive(c, late)
  BY <1>1 DEF Sound, OneLive, LiveSales
<1>4. \A x \in Queued(c) : x # r => x \in Queued(b) /\ c.queue[x] = b.queue[x]
  BY <1>2 DEF Queued
<1>5. \A x \in Queued(b) : b.queue[x].token # t
  BY DEF AlreadyQueued
<1>6. OneQueued(c)
  BY <1>2, <1>4, <1>5 DEF Sound, OneQueued
<1> QED
  BY <1>1, <1>3, <1>6 DEF Sound

-----------------------------------------------------------------------------
\* The invariant.

LEMMA EmptySound == ASSUME NEW late PROVE Sound(EmptyBlob, late)
<1>1. Shape(EmptyBlob)
  BY DEF EmptyBlob, Shape, Fields, Lists
<1>2. OneLive(EmptyBlob, late) /\ OneQueued(EmptyBlob)
  BY DEF EmptyBlob, OneLive, LiveSales, OneQueued, Queued
<1> QED
  BY <1>1, <1>2 DEF Sound

\* A deadline that passes only takes sales away.
LEMMA SoundLater ==
  ASSUME NEW b, NEW late, NEW later, late \subseteq later, Sound(b, late)
  PROVE  Sound(b, later)
BY DEF Sound, OneLive, LiveSales

LEMMA InitInv == Init => IInv
<1> SUFFICES ASSUME Init PROVE IInv
  OBVIOUS
<1>1. \A b \in Blobs : b = EmptyBlob
  BY DEF Init, Blobs, NoOffer, IdleTrader
<1>2. \A b \in Blobs : Sound(b, saleLate)
  BY <1>1, EmptySound
<1> QED
  BY <1>2 DEF Init, IInv, IdleTrader

\* A step keeps the invariant when what it saves is sound, and when each slow
\* handler keeps its copy, drops it, or takes a sound one from the store.
LEMMA Kept ==
  ASSUME IInv, Sound(store', saleLate'), saleLate \subseteq saleLate',
         offer' = [i \in Slot |-> offer'[i]],
         \A i \in Slot :
           \/ offer'[i] \in {offer[i], NoOffer}
           \/ offer'[i].held = store /\ LiveSales(store, offer'[i].wallet, saleLate') = {},
         trader' = [pc |-> trader'.pc, held |-> trader'.held],
         trader'.held \in {trader.held, store, EmptyBlob}
  PROVE  IInv'
<1>1. \A b \in Blobs : Sound(b, saleLate')
  BY SoundLater DEF IInv
<1>2. Sound(store, saleLate') /\ Sound(trader.held, saleLate') /\ Sound(EmptyBlob, saleLate')
  BY <1>1, EmptySound DEF Blobs
<1>3. \A i \in Slot : Sound(offer[i].held, saleLate')
  BY <1>1 DEF Blobs
<1>4. \A i \in Slot : Sound(offer'[i].held, saleLate')
  BY <1>2, <1>3 DEF NoOffer
<1>5. \A b \in Blobs' : Sound(b, saleLate')
  BY <1>2, <1>4 DEF Blobs
<1>6. ASSUME NEW i \in Slot, offer'[i] # NoOffer
      PROVE  LiveSales(offer'[i].held, offer'[i].wallet, saleLate') = {}
  BY <1>6 DEF IInv, LiveSales
<1> QED
  BY <1>5, <1>6 DEF IInv

\* The same when no handler's copy changes and the blob saved narrows one.
LEMMA SavedNarrower ==
  ASSUME IInv, NEW b \in Blobs, Shape(store'), Narrows(b, store'),
         UNCHANGED <<offer, trader>>, saleLate \subseteq saleLate'
  PROVE  IInv'
<1>1. Sound(store', saleLate')
  BY SoundLater, NarrowsSound DEF IInv
<1> QED
  BY <1>1, Kept DEF IInv

LEMMA Blob == IInv => Sound(store, saleLate) /\ Shape(store) /\ store \in Blobs
BY DEF IInv, Blobs, Sound

LEMMA StepSales ==
  ASSUME IInv, OpenSales
  PROVE  IInv'
<1>1. ASSUME NEW w \in Wallet, HandleBuy(w) PROVE IInv'
  <2>1. Sound(store', saleLate')
    BY <1>1, Blob, SaleOpened DEF HandleBuy, MayOpenSale, env
  <2> QED
    BY <1>1, <2>1, Kept DEF HandleBuy, env, workers, IInv
<1>2. ASSUME NEW w \in Wallet, NEW t \in TokenId, NEW a \in Payments, HandleAddFunds(w, t, a)
      PROVE  IInv'
  <2>1. Sound(store', saleLate')
    BY <1>2, Blob, SaleOpened DEF HandleAddFunds, MayOpenSale, env
  <2> QED
    BY <1>2, <2>1, Kept DEF HandleAddFunds, env, workers, IInv
<1> QED
  BY <1>1, <1>2 DEF OpenSales

LEMMA StepOffers ==
  ASSUME IInv, Offers
  PROVE  IInv'
<1>1. ASSUME NEW i \in Slot, NEW w \in Wallet, NEW p \in OfferPrices, HandleOffer(i, w, p)
      PROVE  IInv'
  <2>1. Sound(store', saleLate')
    BY <1>1, Blob DEF HandleOffer, env
  <2>2. offer' = [offer EXCEPT ![i] = [wallet |-> w, price |-> p, held |-> store]]
    BY <1>1 DEF HandleOffer
  <2>3. \A j \in Slot : offer'[j] = IF j = i THEN [wallet |-> w, price |-> p, held |-> store]
                                            ELSE offer[j]
    BY <2>2 DEF IInv
  <2>4. LiveSales(store, w, saleLate') = {}
    BY <1>1 DEF HandleOffer, MayOpenSale, env
  <2>5. offer' = [j \in Slot |-> offer'[j]]
    BY <2>2 DEF IInv
  <2>6. \A j \in Slot :
          \/ offer'[j] \in {offer[j], NoOffer}
          \/ offer'[j].held = store /\ LiveSales(store, offer'[j].wallet, saleLate') = {}
    BY <2>3, <2>4
  <2> QED
    BY <1>1, <2>1, <2>5, <2>6, Kept DEF HandleOffer, env, IInv
<1>2. ASSUME NEW i \in Slot, AcceptOffer(i) \/ DeclineOffer(i)
      PROVE  /\ offer' = [offer EXCEPT ![i] = NoOffer] /\ offer[i] # NoOffer
             /\ UNCHANGED <<trader, saleLate>>
  BY <1>2 DEF AcceptOffer, DeclineOffer, env
<1>3. ASSUME NEW i \in Slot, AcceptOffer(i) \/ DeclineOffer(i), Sound(store', saleLate')
      PROVE  IInv'
  <2>1. offer' = [j \in Slot |-> offer'[j]] /\ \A j \in Slot : offer'[j] \in {offer[j], NoOffer}
    BY <1>2, <1>3 DEF IInv
  <2> QED
    BY <1>2, <1>3, <2>1, Kept DEF IInv
<1>4. ASSUME NEW i \in Slot, AcceptOffer(i) PROVE Sound(store', saleLate')
  <2>1. Sound(offer[i].held, saleLate) /\ LiveSales(offer[i].held, offer[i].wallet, saleLate) = {}
    BY <1>2, <1>4 DEF IInv, Blobs
  <2> QED
    BY <1>2, <1>4, <2>1, SaleOpened DEF AcceptOffer
<1>5. ASSUME NEW i \in Slot, DeclineOffer(i) PROVE Sound(store', saleLate')
  BY <1>2, <1>5, Blob DEF DeclineOffer
<1> QED
  BY <1>1, <1>3, <1>4, <1>5 DEF Offers

LEMMA StepPayment ==
  ASSUME IInv, Payment
  PROVE  IInv'
<1>1. UNCHANGED <<offer, trader, saleLate>>
  BY DEF Payment, Pay, PollBaseUsdc, BalanceSync, OnInboundTransfer, env, workers
<1>2. Shape(store') /\ Narrows(store, store')
  <2>1. ASSUME NEW tr \in inflight, OnInboundTransfer(tr)
        PROVE  Shape(store') /\ Narrows(store, store')
    <3>1. CASE Donate(tr)
      <4>1. PICK x : store' = store \/ store' = [store EXCEPT !.donations = x]
        BY <3>1 DEF Donate
      <4>2. Fields(store') /\ store'.sales = store.sales /\ store'.queue = store.queue
        BY <4>1, Blob DEF Shape, Fields
      <4> QED
        BY <4>2, Blob, SameLists
    <3>2. CASE IgnoreTransfer(tr)
      BY <3>2, Blob, NarrowsRefl DEF IgnoreTransfer
    <3>3. CASE PayForNft(tr)
      BY <3>3, Blob, SaleCompleted DEF PayForNft
    <3>4. CASE PayIntoNft(tr)
      BY <3>4, Blob, FundsAdded, NarrowsRefl DEF PayIntoNft
    <3> QED
      BY <2>1, <3>1, <3>2, <3>3, <3>4 DEF OnInboundTransfer
  <2>2. CASE BalanceSync
    <3>1. PICK x : store' = [store EXCEPT !.liquid = x]
      BY <2>2 DEF BalanceSync
    <3>2. Fields(store') /\ store'.sales = store.sales /\ store'.queue = store.queue
      BY <3>1, Blob DEF Shape, Fields
    <3> QED
      BY <3>2, Blob, SameLists
  <2>3. CASE UNCHANGED store
    BY <2>3, Blob, NarrowsRefl
  <2> QED
    BY <2>1, <2>2, <2>3 DEF Payment, Pay, PollBaseUsdc
<1> QED
  BY <1>1, <1>2, Blob, SavedNarrower

LEMMA StepRedemption ==
  ASSUME IInv, Redemption
  PROVE  IInv'
<1>1. UNCHANGED <<offer, trader, saleLate>>
  BY DEF Redemption, QueueWithdrawal, WithdrawNow, RecordWithdrawal, FulfilExpiresAll,
     FulfilStart, FulfilRecord, FulfilNext, env, workers
<1>2. ASSUME NEW w \in Wallet, NEW t \in TokenId, QueueWithdrawal(w, t) PROVE IInv'
  <2>1. Sound(store', saleLate')
    BY <1>1, <1>2, Blob, RequestQueued DEF QueueWithdrawal
  <2> QED
    BY <1>1, <2>1, Kept DEF IInv
<1>3. ASSUME Shape(store'), Narrows(store, store') PROVE IInv'
  BY <1>1, <1>3, Blob, SavedNarrower
<1>4. ASSUME NEW w \in Wallet, NEW t \in TokenId, WithdrawNow(w, t) PROVE IInv'
  BY <1>3, <1>4, Blob, Redeemed DEF WithdrawNow
<1>5. ASSUME NEW rd \in withdrawing, RecordWithdrawal(rd) PROVE IInv'
  BY <1>3, <1>5, Blob, Recorded DEF RecordWithdrawal
<1>6. CASE FulfilExpiresAll
  BY <1>3, <1>6, Blob, RequestsExpired DEF FulfilExpiresAll
<1>7. ASSUME NEW todo, NEW liquid, RedeemNext(todo, liquid) PROVE IInv'
  BY <1>3, <1>7, Blob, Redeemed DEF RedeemNext
<1>8. CASE FulfilRecord
  BY <1>3, <1>8, Blob, Recorded DEF FulfilRecord
<1>9. CASE UNCHANGED store
  BY <1>3, <1>9, Blob, NarrowsRefl
<1> QED
  BY <1>2, <1>4, <1>5, <1>6, <1>7, <1>8, <1>9 DEF Redemption, FulfilStart, FulfilNext

LEMMA StepTrading ==
  ASSUME IInv, Trading
  PROVE  IInv'
<1>1. UNCHANGED <<offer, saleLate>>
  BY DEF Trading, TraderSync, EvaluateStart, EvaluateRefused, EvaluateSkipped, EvaluateTraded,
     EvaluateDecided, MarkPositions, env, workers
<1>2. /\ trader' = [pc |-> trader'.pc, held |-> trader'.held]
      /\ trader'.held \in {trader.held, store, EmptyBlob}
  BY DEF Trading, TraderSync, EvaluateStart, EvaluateRefused, EvaluateSkipped, EvaluateTraded,
     EvaluateDecided, MarkPositions, workers, IdleTrader, IInv
<1>3. ASSUME NEW b \in Blobs, Shape(store'), Narrows(b, store') PROVE IInv'
  <2>1. Sound(store', saleLate')
    BY <1>1, <1>3, NarrowsSound DEF IInv
  <2> QED
    BY <1>1, <1>2, <2>1, Kept DEF IInv
<1>4. trader.held \in Blobs /\ Shape(trader.held)
  BY DEF IInv, Blobs, Sound
<1>5. CASE TraderSync
  <2>1. PICK x : store' = [store EXCEPT !.liquid = x]
    BY <1>5 DEF TraderSync
  <2>2. Fields(store') /\ store'.sales = store.sales /\ store'.queue = store.queue
    BY <2>1, Blob DEF Shape, Fields
  <2> QED
    BY <1>3, <2>2, Blob, SameLists
<1>6. CASE UNCHANGED store
  BY <1>3, <1>6, Blob, NarrowsRefl
<1>7. ASSUME NEW next, EvaluateDecided(next) PROVE IInv'
  BY <1>3, <1>4, <1>7, NarrowsRefl DEF EvaluateDecided
<1>8. CASE EvaluateTraded
  BY <1>3, <1>4, <1>8, TradedNarrows DEF EvaluateTraded
<1>9. ASSUME NEW g, MarkPositions(g) PROVE IInv'
  BY <1>3, <1>9, Blob, MarkedNarrows DEF MarkPositions
<1> QED
  BY <1>5, <1>6, <1>7, <1>8, <1>9 DEF Trading, EvaluateStart, EvaluateRefused, EvaluateSkipped

LEMMA StepClock ==
  ASSUME IInv, Clock
  PROVE  IInv'
<1>1. ASSUME NEW s \in SaleId, SalePasses(s) PROVE IInv'
  BY <1>1, Blob, NarrowsRefl, SavedNarrower DEF SalePasses, workers
<1>2. ASSUME NEW r \in RequestId, RequestPasses(r) PROVE IInv'
  BY <1>2, Blob, NarrowsRefl, SavedNarrower DEF RequestPasses, workers
<1>3. CASE CleanupSales
  <2>1. Shape(store') /\ Narrows(store, store')
    BY <1>3, Blob, SalesExpired DEF CleanupSales
  <2> QED
    BY <1>3, <2>1, Blob, SavedNarrower DEF CleanupSales, workers, env
<1>4. CASE Restart
  <2>1. Sound(store', saleLate') /\ saleLate' = saleLate
    BY <1>4, Blob DEF Restart
  <2>2. offer' = [i \in Slot |-> NoOffer] /\ trader' = IdleTrader
    BY <1>4 DEF Restart
  <2>3. /\ trader' = [pc |-> trader'.pc, held |-> trader'.held]
        /\ trader'.held = EmptyBlob
    BY <2>2 DEF IdleTrader
  <2> QED
    BY <2>1, <2>2, <2>3, Kept
<1> QED
  BY <1>1, <1>2, <1>3, <1>4 DEF Clock

LEMMA StepInv == IInv /\ [Next]_vars => IInv'
<1> SUFFICES ASSUME IInv, [Next]_vars PROVE IInv'
  OBVIOUS
<1>1. CASE UNCHANGED vars
  BY <1>1, Blob, NarrowsRefl, SavedNarrower DEF vars, env, workers
<1> QED
  BY <1>1, StepSales, StepOffers, StepPayment, StepRedemption, StepTrading, StepClock DEF Next

\* Every blob, in the store or in a slow handler's hands, is sound.
THEOREM Invariance == Spec => []IInv
BY InitInv, StepInv, PTL DEF Spec

\* A wallet never has two sales it could pay, for any number of concurrent
\* offers, evaluations, transfers and restarts.
THEOREM OneLiveSale == Spec => []OneLiveSalePerWallet
<1>1. IInv => OneLiveSalePerWallet
  BY Blob DEF Sound, OneLive, OneLiveSalePerWallet
<1> QED
  BY <1>1, Invariance, PTL

\* A token never waits twice in the redemption queue, whatever is saved over it.
THEOREM QueuedOnce == Spec => []OneQueuedPerToken
<1>1. IInv => OneQueuedPerToken
  BY Blob DEF Sound, OneQueued, OneQueuedPerToken
<1> QED
  BY <1>1, Invariance, PTL

-----------------------------------------------------------------------------
(***************************************************************************)
(* Where a saved blob comes from: the store, or a copy that a handler      *)
(* holds and may still save.  A step keeps the sales of that blob, or      *)
(* completes one of them and mints an NFT, or adds a new one.              *)
(***************************************************************************)
\* Drawing an id of one kind leaves the others.
LEMMA DrawnOne ==
  ASSUME drawn \in [DrawnKinds -> Nat], NEW kind \in DrawnKinds, NEW max, Draw(kind, max)
  PROVE  /\ drawn' \in [DrawnKinds -> Nat] /\ drawn'[kind] = drawn[kind] + 1
         /\ \A k \in DrawnKinds \ {kind} : drawn'[k] = drawn[k]
         /\ drawn[kind] < max
BY DEF Draw


Sources ==
  {store} \cup {offer[i].held : i \in {j \in Slot : offer[j] # NoOffer}}
          \cup {b \in {trader.held} : trader.pc \in {"asked", "trading"}}

\* The sale s of b is paid by the transfer tr and the token t is minted.
Mints(b, c, tr, t) ==
  LET s == Match(b, tr)
  IN  /\ KeepsPaid(b, c) /\ DOMAIN c.nfts = DOMAIN b.nfts \cup {t}
      /\ s # 0 /\ b.sales[s].status = "awaiting_payment" /\ b.sales[s].target = NoToken
      /\ s \in DOMAIN b.sales => c.sales[s].status = "paid"

Keeps(b, c) == KeepsPaid(b, c) /\ DOMAIN c.nfts \subseteq DOMAIN b.nfts

Opens(b, c) ==
  /\ Draw("sale", MaxSale)
  /\ \E w, price, target : c = OpenSale(b, drawn.sale + 1, w, price, target)

SameDraw == drawn'.sale = drawn.sale

LEMMA KeepsRefl == ASSUME NEW b PROVE Keeps(b, b)
BY DEF Keeps, KeepsPaid

LEMMA KeepsOther ==
  ASSUME NEW b, NEW c, c.sales = b.sales, c.nfts = b.nfts
  PROVE  Keeps(b, c)
BY DEF Keeps, KeepsPaid

\* A new sale leaves the others, the queue and the tokens.
LEMMA SaleAdded ==
  ASSUME NEW b, NEW s, NEW w, NEW price, NEW target, Shape(b)
  PROVE  LET c == OpenSale(b, s, w, price, target)
         IN  /\ DOMAIN c.sales = DOMAIN b.sales \cup {s} /\ c.nfts = b.nfts
             /\ \A x \in DOMAIN b.sales : x # s => c.sales[x] = b.sales[x]
<1> DEFINE c == OpenSale(b, s, w, price, target)
<1>1. PICK x : /\ x = Put(b.sales, s, [buyer |-> w, price |-> price,
                            status |-> "awaiting_payment", target |-> target])
               /\ c = [b EXCEPT !.sales = x]
  BY DEF OpenSale
<1>2. c.sales = x /\ c.nfts = b.nfts
  BY <1>1 DEF Shape, Fields
<1> QED
  BY <1>1, <1>2 DEF Put

LEMMA SavedPayment ==
  ASSUME IInv, drawn \in [DrawnKinds -> Nat], Payment
  PROVE  /\ SameDraw
         /\ Keeps(store, store') \/ \E tr \in inflight : \E t : Mints(store, store', tr, t)
<1>1. SameDraw
  BY DrawnOne DEF Payment, Pay, PollBaseUsdc, BalanceSync, OnInboundTransfer, Donate,
     IgnoreTransfer, PayForNft, PayIntoNft, SameDraw, DrawnKinds
<1>2. ASSUME NEW tr \in inflight, OnInboundTransfer(tr)
      PROVE  Keeps(store, store') \/ \E t : Mints(store, store', tr, t)
  <2>1. CASE Donate(tr)
    <3>1. PICK x : store' = store \/ store' = [store EXCEPT !.donations = x]
      BY <2>1 DEF Donate
    <3>2. store'.sales = store.sales /\ store'.nfts = store.nfts
      BY <3>1, Blob DEF Shape, Fields
    <3> QED
      BY <3>2, KeepsOther
  <2>2. CASE PayForNft(tr)
    <3>1. store' = CompleteSale(store, Match(store, tr), drawn.token + 1, tr.amount)
      BY <2>2 DEF PayForNft
    <3>2. Mints(store, store', tr, drawn.token + 1)
      BY <2>2, <3>1, Blob, SaleCompleted DEF PayForNft, Payable, Mints, Narrows
    <3> QED
      BY <3>2
  <2>3. CASE PayIntoNft(tr)
    BY <2>3, KeepsRefl, Blob, FundsAdded DEF PayIntoNft, Narrows, Keeps
  <2> QED
    BY <1>2, <2>1, <2>2, <2>3, KeepsRefl DEF OnInboundTransfer, IgnoreTransfer
<1>3. CASE BalanceSync
  <2>1. PICK x : store' = [store EXCEPT !.liquid = x]
    BY <1>3 DEF BalanceSync
  <2>2. store'.sales = store.sales /\ store'.nfts = store.nfts
    BY <2>1, Blob DEF Shape, Fields
  <2> QED
    BY <1>1, <2>2, KeepsOther
<1> QED
  BY <1>1, <1>2, <1>3, KeepsRefl DEF Payment, Pay, PollBaseUsdc

LEMMA SavedRedemption ==
  ASSUME IInv, drawn \in [DrawnKinds -> Nat], Redemption
  PROVE  SameDraw /\ Keeps(store, store')
<1>1. SameDraw
  BY DrawnOne DEF Redemption, QueueWithdrawal, WithdrawNow, RecordWithdrawal, FulfilExpiresAll,
     FulfilStart, FulfilRecord, FulfilNext, SameDraw, DrawnKinds
<1>2. ASSUME NEW w \in Wallet, NEW t \in TokenId, QueueWithdrawal(w, t)
      PROVE  Keeps(store, store')
  <2>1. PICK r, net : store' = AddRequest(store, r, t, net, "queued")
    BY <1>2 DEF QueueWithdrawal
  <2>2. PICK x : store' = [store EXCEPT !.queue = x]
    BY <2>1 DEF AddRequest
  <2>3. store'.sales = store.sales /\ store'.nfts = store.nfts
    BY <2>2, Blob DEF Shape, Fields
  <2> QED
    BY <2>3, KeepsOther
<1>3. ASSUME NEW t, store' = RedeemNft(store, t) PROVE Keeps(store, store')
  BY <1>3, Blob, Redeemed DEF Narrows, Keeps
<1>4. ASSUME FulfilRecord \/ \E rd \in withdrawing : RecordWithdrawal(rd)
      PROVE  Keeps(store, store')
  <2>1. PICK q : store' = RecordFulfilled(store, q.id, q.token, q.net)
    BY <1>4 DEF FulfilRecord, RecordWithdrawal
  <2>2. PICK x, y : store' = [[store EXCEPT !.queue = x] EXCEPT !.liquid = y]
    BY <2>1 DEF RecordFulfilled, AddRequest
  <2>3. store'.sales = store.sales /\ store'.nfts = store.nfts
    BY <2>2, Blob DEF Shape, Fields
  <2> QED
    BY <2>3, KeepsOther
<1>5. CASE FulfilExpiresAll
  BY <1>1, <1>5, Blob, RequestsExpired DEF FulfilExpiresAll, Narrows, Keeps
<1> QED
  BY <1>1, <1>2, <1>3, <1>4, <1>5, KeepsRefl DEF Redemption, WithdrawNow, FulfilStart,
     FulfilNext, RedeemNext

LEMMA SavedTrading ==
  ASSUME IInv, drawn \in [DrawnKinds -> Nat], Trading
  PROVE  SameDraw /\ \E b \in Sources : Keeps(b, store')
<1>1. SameDraw
  BY DrawnOne DEF Trading, TraderSync, EvaluateStart, EvaluateRefused, EvaluateSkipped,
     EvaluateTraded, EvaluateDecided, MarkPositions, SameDraw, DrawnKinds
<1>2. store \in Sources
  BY DEF Sources
<1>3. CASE TraderSync
  <2>1. PICK x : store' = [store EXCEPT !.liquid = x]
    BY <1>3 DEF TraderSync
  <2>2. store'.sales = store.sales /\ store'.nfts = store.nfts
    BY <2>1, Blob DEF Shape, Fields
  <2> QED
    BY <1>1, <1>2, <2>2, KeepsOther
<1>4. ASSUME NEW g, MarkPositions(g) PROVE Keeps(store, store')
  BY <1>4, Blob, MarkedNarrows DEF MarkPositions, Narrows, Keeps
<1>5. ASSUME NEW next, EvaluateDecided(next) PROVE \E b \in Sources : Keeps(b, store')
  BY <1>5, KeepsRefl DEF EvaluateDecided, Sources
<1>6. CASE EvaluateTraded
  <2>1. trader.held \in Sources /\ Shape(trader.held) /\ store' \in Traded(trader.held)
    BY <1>6 DEF EvaluateTraded, Sources, IInv, Blobs, Sound
  <2>2. Keeps(trader.held, store')
    BY <2>1, TradedNarrows DEF Narrows, Keeps
  <2> QED
    BY <1>1, <2>1, <2>2
<1> QED
  BY <1>1, <1>2, <1>3, <1>4, <1>5, <1>6, KeepsRefl DEF Trading, EvaluateStart, EvaluateRefused,
     EvaluateSkipped

LEMMA Saved ==
  ASSUME IInv, drawn \in [DrawnKinds -> Nat], [Next]_vars
  PROVE  \/ SameDraw /\ \E b \in Sources : Keeps(b, store')
         \/ SameDraw /\ \E tr \in inflight : \E t : Mints(store, store', tr, t)
         \/ \E b \in Sources : Opens(b, store')
<1>1. store \in Sources
  BY DEF Sources
<1>2. CASE OpenSales
  BY <1>1, <1>2 DEF OpenSales, HandleBuy, HandleAddFunds, Opens
<1>3. CASE Offers
  <2>1. ASSUME NEW i \in Slot, AcceptOffer(i) PROVE \E b \in Sources : Opens(b, store')
    BY <2>1 DEF AcceptOffer, Opens, Sources
  <2> QED
    BY <1>1, <1>3, <2>1, KeepsRefl DEF Offers, HandleOffer, DeclineOffer, SameDraw
<1>4. CASE Clock
  BY <1>1, <1>4, KeepsRefl, DrawnOne, Blob, SalesExpired DEF Clock, SalePasses, RequestPasses,
     CleanupSales, Restart, Narrows, Keeps, SameDraw, DrawnKinds
<1>5. CASE UNCHANGED vars
  BY <1>1, <1>5, KeepsRefl DEF vars, SameDraw
<1> QED
  BY <1>1, <1>2, <1>3, <1>4, <1>5, SavedPayment, SavedRedemption, SavedTrading DEF Next

-----------------------------------------------------------------------------
(***************************************************************************)
(* Purchases, with stale saves.  Every blob in the system has at least as  *)
(* many paid purchases as NFTs: a stale copy that is saved takes both back.*)
(* A sale that opens must not overwrite a paid one, so ids are fresh in    *)
(* every blob; and the sale a transfer completes must be one of the blob,  *)
(* which the choice among the sender's live sales shows only because there *)
(* is never more than one (OneLive).                                       *)
(***************************************************************************)
Purchases(b) ==
  {s \in DOMAIN b.sales : b.sales[s].status = "paid" /\ b.sales[s].target = NoToken}

Covered(b, n) ==
  /\ DOMAIN b.sales \subseteq 1..n
  /\ IsFiniteSet(DOMAIN b.nfts)
  /\ Cardinality(DOMAIN b.nfts) <= Cardinality(Purchases(b))

PInv ==
  /\ drawn \in [DrawnKinds -> Nat]
  /\ \A b \in Blobs : Covered(b, drawn.sale)
  /\ inflight \subseteq mined /\ \A tr \in mined : tr.from \in Wallet

LEMMA PurchasesFinite ==
  ASSUME NEW b, NEW n \in Nat, DOMAIN b.sales \subseteq 1..n
  PROVE  IsFiniteSet(Purchases(b)) /\ Cardinality(Purchases(b)) \in Nat
<1>1. IsFiniteSet(1..n) /\ Purchases(b) \in SUBSET (1..n)
  BY FS_Interval DEF Purchases
<1> QED
  BY <1>1, FS_Subset, FS_CardinalityType

LEMMA CoveredKept ==
  ASSUME NEW b, NEW c, NEW n \in Nat, NEW m \in Nat, n <= m, Covered(b, n),
         DOMAIN c.sales \subseteq 1..m, Purchases(b) \subseteq Purchases(c),
         DOMAIN c.nfts \subseteq DOMAIN b.nfts
  PROVE  Covered(c, m)
<1>1. /\ IsFiniteSet(DOMAIN c.nfts) /\ Cardinality(DOMAIN c.nfts) <= Cardinality(DOMAIN b.nfts)
      /\ Cardinality(DOMAIN c.nfts) \in Nat /\ Cardinality(DOMAIN b.nfts) \in Nat
  BY FS_Subset, FS_CardinalityType DEF Covered
<1>2. /\ Cardinality(Purchases(b)) <= Cardinality(Purchases(c))
      /\ Cardinality(Purchases(b)) \in Nat /\ Cardinality(Purchases(c)) \in Nat
  BY PurchasesFinite, FS_Subset DEF Covered
<1> QED
  BY <1>1, <1>2 DEF Covered

\* The match of a transfer is a sale of the store.
LEMMA MatchInStore ==
  ASSUME IInv, PInv, NEW tr \in inflight, Match(store, tr) # 0
  PROVE  Match(store, tr) \in DOMAIN store.sales
<1>1. CASE tr.memo \in DOMAIN store.sales
  BY <1>1 DEF Match
<1>2. CASE tr.memo \notin DOMAIN store.sales
  <2> DEFINE live == LiveSales(store, tr.from, saleLate)
  <2>1. live # {} /\ Match(store, tr) = Min(live)
    BY <1>2 DEF Match
  <2>2. PICK s : s \in live
    BY <2>1
  <2>3. \A x \in live : x = s
    BY <2>2, Blob DEF PInv, Sound, OneLive
  <2>4. live \subseteq DOMAIN store.sales /\ s \in Int
    BY <2>2 DEF LiveSales, PInv, Blobs, Covered
  <2>5. Min(live) \in live
    <3>1. live = {s}
      BY <2>2, <2>3
    <3>2. s <= s
      BY <2>4
    <3> QED
      BY <3>1, <3>2 DEF Min
  <2> QED
    BY <2>1, <2>4, <2>5
<1> QED
  BY <1>1, <1>2

LEMMA CoveredMint ==
  ASSUME IInv, PInv, NEW c, NEW tr \in inflight, NEW t, Mints(store, c, tr, t)
  PROVE  Covered(c, drawn.sale)
<1> DEFINE s == Match(store, tr)
<1>1. drawn.sale \in Nat /\ Covered(store, drawn.sale)
  BY DEF PInv, Blobs, DrawnKinds
<1>2. s \in DOMAIN store.sales /\ store.sales[s].status = "awaiting_payment"
  BY MatchInStore DEF Mints
<1>3. /\ DOMAIN c.sales = DOMAIN store.sales /\ DOMAIN c.nfts = DOMAIN store.nfts \cup {t}
      /\ s \in Purchases(c) /\ s \notin Purchases(store)
      /\ Purchases(store) \cup {s} \subseteq Purchases(c)
  BY <1>2 DEF Mints, KeepsPaid, Purchases
<1>4. /\ IsFiniteSet(Purchases(store)) /\ Cardinality(Purchases(store)) \in Nat
      /\ IsFiniteSet(Purchases(c)) /\ Cardinality(Purchases(c)) \in Nat
  BY <1>1, <1>3, PurchasesFinite DEF Covered
<1>5. Cardinality(Purchases(store)) + 1 <= Cardinality(Purchases(c))
  <2>1. Cardinality(Purchases(store) \cup {s}) = Cardinality(Purchases(store)) + 1
    BY <1>3, <1>4, FS_AddElement
  <2>2. Cardinality(Purchases(store) \cup {s}) <= Cardinality(Purchases(c))
    BY <1>3, <1>4, FS_Subset
  <2> QED
    BY <2>1, <2>2
<1>6. /\ IsFiniteSet(DOMAIN c.nfts)
      /\ Cardinality(DOMAIN c.nfts) <= Cardinality(DOMAIN store.nfts) + 1
      /\ Cardinality(DOMAIN c.nfts) \in Nat /\ Cardinality(DOMAIN store.nfts) \in Nat
  <2>1. IsFiniteSet(DOMAIN store.nfts) /\ Cardinality(DOMAIN store.nfts) \in Nat
    BY <1>1, FS_CardinalityType DEF Covered
  <2>2. /\ IsFiniteSet(DOMAIN c.nfts)
        /\ Cardinality(DOMAIN c.nfts) = IF t \in DOMAIN store.nfts
             THEN Cardinality(DOMAIN store.nfts) ELSE Cardinality(DOMAIN store.nfts) + 1
    BY <1>3, <2>1, FS_AddElement
  <2> QED
    BY <2>1, <2>2
<1> QED
  BY <1>1, <1>3, <1>4, <1>5, <1>6 DEF Covered

LEMMA CoveredOpen ==
  ASSUME IInv, PInv, NEW b \in Blobs, NEW c, Opens(b, c)
  PROVE  Covered(c, drawn'.sale)
<1>1. /\ drawn.sale \in Nat /\ drawn'.sale = drawn.sale + 1 /\ Covered(b, drawn.sale) /\ Shape(b)
  BY DrawnOne DEF PInv, Opens, DrawnKinds, IInv, Sound
<1>2. /\ DOMAIN c.sales = DOMAIN b.sales \cup {drawn.sale + 1} /\ c.nfts = b.nfts
      /\ \A x \in DOMAIN b.sales : x # drawn.sale + 1 => c.sales[x] = b.sales[x]
  BY <1>1, SaleAdded DEF Opens
<1>3. drawn.sale + 1 \notin DOMAIN b.sales
  BY <1>1 DEF Covered
<1>4. Purchases(b) \subseteq Purchases(c)
  BY <1>2, <1>3 DEF Purchases
<1>5. DOMAIN c.sales \subseteq 1..drawn'.sale
  BY <1>1, <1>2 DEF Covered
<1> QED
  BY <1>1, <1>2, <1>4, <1>5, CoveredKept

LEMMA EmptyCovered == ASSUME NEW n \in Nat PROVE Covered(EmptyBlob, n)
<1>1. DOMAIN EmptyBlob.sales = {} /\ DOMAIN EmptyBlob.nfts = {}
  BY DEF EmptyBlob
<1>2. Purchases(EmptyBlob) = {}
  BY <1>1 DEF Purchases
<1> QED
  BY <1>1, <1>2, FS_EmptySet DEF Covered

\* The blobs after a step are blobs before it, the one saved, or empty.
LEMMA BlobsKept ==
  ASSUME IInv, [Next]_vars
  PROVE  Blobs' \subseteq Blobs \cup {store', EmptyBlob}
<1>1. trader'.held \in {trader.held, store, EmptyBlob}
  BY DEF Next, OpenSales, HandleBuy, HandleAddFunds, Offers, HandleOffer, AcceptOffer, DeclineOffer,
     Payment, Pay, PollBaseUsdc, BalanceSync, OnInboundTransfer, Redemption, QueueWithdrawal,
     WithdrawNow, RecordWithdrawal, FulfilExpiresAll, FulfilStart, FulfilRecord, FulfilNext,
     Trading,
     TraderSync, EvaluateStart, EvaluateRefused, EvaluateSkipped, EvaluateTraded, EvaluateDecided,
     MarkPositions, Clock, SalePasses, RequestPasses, CleanupSales, Restart, vars, workers,
     IdleTrader, IInv
<1>2. \A i \in Slot : offer'[i].held \in {offer[i].held, store, EmptyBlob}
  <2>1. CASE UNCHANGED offer
    BY <2>1
  <2>2. ASSUME NEW i \in Slot, NEW o, offer' = [offer EXCEPT ![i] = o],
               o.held \in {store, EmptyBlob}
        PROVE  \A j \in Slot : offer'[j].held \in {offer[j].held, store, EmptyBlob}
    BY <2>2 DEF IInv
  <2>3. ASSUME NEW i \in Slot, NEW w, NEW p, HandleOffer(i, w, p)
        PROVE  \A j \in Slot : offer'[j].held \in {offer[j].held, store, EmptyBlob}
    BY <2>2, <2>3 DEF HandleOffer
  <2>4. ASSUME NEW i \in Slot, AcceptOffer(i) \/ DeclineOffer(i)
        PROVE  \A j \in Slot : offer'[j].held \in {offer[j].held, store, EmptyBlob}
    BY <2>2, <2>4 DEF AcceptOffer, DeclineOffer, NoOffer
  <2>5. CASE Restart
    BY <2>5 DEF Restart, NoOffer
  <2> QED
    BY <2>1, <2>3, <2>4, <2>5 DEF Next, OpenSales, HandleBuy, HandleAddFunds, Offers, Payment, Pay,
       PollBaseUsdc, BalanceSync, OnInboundTransfer, Redemption, QueueWithdrawal, WithdrawNow,
       RecordWithdrawal, FulfilExpiresAll, FulfilStart, FulfilRecord, FulfilNext, Trading,
       TraderSync, EvaluateStart, EvaluateRefused, EvaluateSkipped, EvaluateTraded, EvaluateDecided,
       MarkPositions, Clock, SalePasses, RequestPasses, CleanupSales, vars, workers
<1> QED
  BY <1>1, <1>2 DEF Blobs

\* A step draws at most one id.
LEMMA DrawnGrows ==
  ASSUME drawn \in [DrawnKinds -> Nat], [Next]_vars
  PROVE  /\ drawn' \in [DrawnKinds -> Nat]
         /\ \A kind \in DrawnKinds : /\ drawn[kind] \in Nat /\ drawn'[kind] \in Nat
                                     /\ drawn[kind] <= drawn'[kind]
<1>1. drawn' = drawn \/ \E kind \in DrawnKinds : \E max : Draw(kind, max)
  BY DEF Next, OpenSales, HandleBuy, HandleAddFunds, Offers, HandleOffer, AcceptOffer,
     DeclineOffer, Payment, Pay, PollBaseUsdc, BalanceSync, OnInboundTransfer, Donate,
     IgnoreTransfer, PayForNft, PayIntoNft, Redemption, QueueWithdrawal, WithdrawNow,
     RecordWithdrawal, FulfilExpiresAll, FulfilStart, FulfilRecord, FulfilNext, Trading,
     TraderSync, EvaluateStart, EvaluateRefused, EvaluateSkipped, EvaluateTraded,
     EvaluateDecided, MarkPositions, Clock, SalePasses, RequestPasses, CleanupSales, Restart,
     vars, DrawnKinds
<1>2. \A kind \in DrawnKinds : drawn[kind] \in Nat
  OBVIOUS
<1>3. CASE drawn' = drawn
  BY <1>2, <1>3
<1>4. ASSUME NEW kind \in DrawnKinds, NEW max, Draw(kind, max)
      PROVE  /\ drawn' \in [DrawnKinds -> Nat]
             /\ \A k \in DrawnKinds : drawn'[k] \in {drawn[k], drawn[k] + 1}
  BY <1>4, DrawnOne
<1> QED
  BY <1>1, <1>2, <1>3, <1>4

LEMMA StepPurchases == ASSUME IInv, PInv, [Next]_vars PROVE PInv'
<1>1. /\ drawn' \in [DrawnKinds -> Nat] /\ drawn.sale \in Nat /\ drawn'.sale \in Nat
      /\ drawn.sale <= drawn'.sale
  BY DrawnGrows DEF PInv, DrawnKinds
<1>2. ASSUME NEW b, Covered(b, drawn.sale) PROVE Covered(b, drawn'.sale)
  BY <1>1, <1>2 DEF Covered
<1>3. Sources \subseteq Blobs
  BY DEF Sources, Blobs
<1>4. Covered(store', drawn'.sale)
  <2>1. ASSUME NEW b \in Sources, Keeps(b, store'), SameDraw PROVE Covered(store', drawn'.sale)
    <3>1. Covered(b, drawn.sale) /\ Purchases(b) \subseteq Purchases(store')
      BY <1>3, <2>1 DEF PInv, Keeps, KeepsPaid, Purchases
    <3> QED
      BY <1>1, <2>1, <3>1, CoveredKept DEF Keeps, KeepsPaid, SameDraw, Covered
  <2>2. ASSUME NEW tr \in inflight, NEW t, Mints(store, store', tr, t), SameDraw
        PROVE  Covered(store', drawn'.sale)
    BY <2>2, CoveredMint DEF SameDraw
  <2>3. ASSUME NEW b \in Sources, Opens(b, store') PROVE Covered(store', drawn'.sale)
    BY <1>3, <2>3, CoveredOpen
  <2> QED
    BY <2>1, <2>2, <2>3, Saved DEF PInv
<1>5. \A b \in Blobs' : Covered(b, drawn'.sale)
  BY <1>1, <1>2, <1>4, EmptyCovered, BlobsKept DEF PInv
<1>6. inflight' \subseteq mined' /\ \A tr \in mined' : tr.from \in Wallet
  <2>1. CASE UNCHANGED <<inflight, mined>>
    BY <2>1 DEF PInv
  <2>2. ASSUME NEW w \in Wallet, NEW a, NEW m, Pay(w, a, m)
        PROVE  inflight' \subseteq mined' /\ \A tr \in mined' : tr.from \in Wallet
    BY <2>2 DEF Pay, PInv
  <2>3. ASSUME NEW tr, OnInboundTransfer(tr)
        PROVE  inflight' \subseteq mined' /\ \A x \in mined' : x.from \in Wallet
    BY <2>3 DEF OnInboundTransfer, PInv
  <2>4. CASE Restart
    BY <2>4 DEF Restart, StartAtHead, StartAtGenesis, PInv
  <2> QED
    BY <2>1, <2>2, <2>3, <2>4 DEF Next, OpenSales, HandleBuy, HandleAddFunds, Offers, HandleOffer,
       AcceptOffer, DeclineOffer, Payment, PollBaseUsdc, BalanceSync, Redemption,
       QueueWithdrawal, WithdrawNow, RecordWithdrawal, FulfilExpiresAll, FulfilStart, FulfilRecord,
       FulfilNext, Trading, TraderSync, EvaluateStart, EvaluateRefused, EvaluateSkipped,
       EvaluateTraded, EvaluateDecided, MarkPositions, Clock, SalePasses, RequestPasses,
       CleanupSales, fetches, vars, env
<1> QED
  BY <1>1, <1>5, <1>6 DEF PInv

LEMMA InitPurchases == Init => PInv
<1> SUFFICES ASSUME Init PROVE PInv
  OBVIOUS
<1>1. drawn \in [DrawnKinds -> Nat] /\ drawn.sale = 0 /\ inflight = {} /\ mined = {}
  BY DEF Init, DrawnKinds
<1>2. \A b \in Blobs : b = EmptyBlob
  BY DEF Init, Blobs, NoOffer, IdleTrader
<1> QED
  BY <1>1, <1>2, EmptyCovered DEF PInv

\* There are never more NFTs than paid purchases, stale saves included.
THEOREM EveryNftWasBought == Spec => []OneNftPerSale
<1>1. PInv => OneNftPerSale
  BY DEF PInv, Blobs, Covered, Purchases, OneNftPerSale
<1> QED
  BY <1>1, InitPurchases, StepPurchases, Invariance, PTL DEF Spec

-----------------------------------------------------------------------------
(***************************************************************************)
(* Redemptions, while no handler saves a blob it loaded before an await.   *)
(*                                                                         *)
(* A token is in one place: among the NFTs, in the hands of a withdrawal   *)
(* or of the pass between their two saves, or gone.  It leaves the NFTs    *)
(* with the first save and is paid with the second, so who pays must know  *)
(* that nobody else has it in hand (HandedOut); and the pass, whose list   *)
(* is old, must know that its requests are still the queue's (Listed).     *)
(***************************************************************************)
NoStaleSaves == OfferPrices = {} /\ MaxDecision = 0

NothingHeld ==
  /\ \A i \in Slot : offer[i] = NoOffer
  /\ trader.pc \in {"idle", "synced"}

Counted ==
  /\ drawn \in [DrawnKinds -> Nat] /\ drawn.token <= MaxToken
  /\ payouts \in [TokenId -> Nat]
  /\ DOMAIN store.nfts \subseteq 1..drawn.token
  /\ \A t \in TokenId : /\ payouts[t] <= 1
                        /\ t \in DOMAIN store.nfts \/ t > drawn.token => payouts[t] = 0

\* A token that left the NFTs and was not paid yet.
OnItsWay(t) == t \in 1..drawn.token /\ t \notin DOMAIN store.nfts /\ payouts[t] = 0

HandedOut ==
  /\ \A rd \in withdrawing : OnItsWay(rd.token)
  /\ \A p, q \in withdrawing : p.token = q.token \/ p.id = q.id => p = q
  /\ fulfil.pc = "redeemed" =>
       OnItsWay(fulfil.current.token) /\ \A rd \in withdrawing : rd.token # fulfil.current.token

PassShape ==
  /\ fulfil = [pc |-> fulfil.pc, todo |-> fulfil.todo, current |-> fulfil.current,
               liquid |-> fulfil.liquid]
  /\ fulfil.pc \in {"idle", "redeemed", "saved"}
  /\ fulfil.pc = "idle" => fulfil.todo = {}
  /\ fulfil.pc # "redeemed" => fulfil.current = NoRequest

Listed ==
  /\ DOMAIN store.queue \subseteq 1..drawn.request
  /\ \A rd \in withdrawing : rd.id \in (1..drawn.request) \ DOMAIN store.queue
  /\ \A q \in fulfil.todo : /\ q.id \in Queued(store) /\ store.queue[q.id].token = q.token
                            /\ q.id # fulfil.current.id
  /\ fulfil.pc = "redeemed" => fulfil.current.id \in Queued(store)
  /\ QueuedHasToken

RInv == NothingHeld /\ Counted /\ HandedOut /\ PassShape /\ Listed

LEMMA InitRedemptions == NoStaleSaves => (Init => RInv)
<1> SUFFICES ASSUME NoStaleSaves, Init PROVE RInv
  OBVIOUS
<1>1. NothingHeld
  BY DEF Init, NothingHeld, IdleTrader
<1>2. Counted
  BY LedgerBounds DEF Init, Counted, EmptyBlob, DrawnKinds, TokenId
<1>3. HandedOut /\ PassShape /\ Listed
  BY DEF Init, HandedOut, PassShape, Listed, IdleFulfil, EmptyBlob, QueuedHasToken, Queued,
     DrawnKinds
<1> QED
  BY <1>1, <1>2, <1>3 DEF RInv

\* Steps that leave the tokens, the queue and the redemptions alone.
LEMMA Undisturbed ==
  ASSUME RInv, store'.queue = store.queue, DOMAIN store'.nfts = DOMAIN store.nfts,
         drawn' \in [DrawnKinds -> Nat], drawn'.token = drawn.token,
         drawn'.request = drawn.request, drawn'.restart = drawn.restart,
         UNCHANGED <<withdrawing, fulfil, offer, payouts>>, trader'.pc \in {"idle", "synced"}
  PROVE  RInv'
<1>1. Counted'
  BY DEF RInv, Counted
<1>2. HandedOut' /\ PassShape'
  BY DEF RInv, HandedOut, OnItsWay, PassShape
<1>3. Listed'
  BY DEF RInv, Listed, QueuedHasToken, Queued
<1> QED
  BY <1>1, <1>2, <1>3 DEF RInv, NothingHeld

LEMMA Kinds == /\ {"sale", "token", "request", "payment", "decision", "restart"} = DrawnKinds
               /\ RInv => drawn \in [DrawnKinds -> Nat] /\ drawn.token <= MaxToken
BY DEF DrawnKinds, RInv, Counted

LEMMA RedemptionsSales ==
  ASSUME IInv, RInv, OpenSales
  PROVE  RInv'
<1>1. ASSUME Draw("sale", MaxSale), NEW s, NEW w, NEW price, NEW target,
             store' = OpenSale(store, s, w, price, target), UNCHANGED <<workers, payouts>>
      PROVE  RInv'
  <2>1. PICK x : store' = [store EXCEPT !.sales = x]
    BY <1>1 DEF OpenSale
  <2>2. store'.queue = store.queue /\ store'.nfts = store.nfts
    BY <2>1, Blob DEF Shape, Fields
  <2> QED
    BY <1>1, <2>2, Kinds, DrawnOne, Undisturbed DEF workers, RInv, NothingHeld
<1> QED
  BY <1>1 DEF OpenSales, HandleBuy, HandleAddFunds

LEMMA RedemptionsOffers ==
  ASSUME NoStaleSaves, RInv, Offers
  PROVE  FALSE
BY DEF NoStaleSaves, RInv, NothingHeld, Offers, AcceptOffer, DeclineOffer

\* A new token has no history.
LEMMA RedemptionsMint ==
  ASSUME RInv, Draw("token", MaxToken), store'.queue = store.queue,
         DOMAIN store'.nfts = DOMAIN store.nfts \cup {drawn.token + 1},
         UNCHANGED <<workers, payouts>>
  PROVE  RInv'
<1>1. /\ drawn' \in [DrawnKinds -> Nat] /\ drawn'.token = drawn.token + 1
      /\ drawn'.request = drawn.request /\ drawn'.restart = drawn.restart
      /\ drawn.token < MaxToken
  BY Kinds, DrawnOne
<1>2. drawn.token \in Nat /\ drawn.token + 1 \in TokenId /\ payouts[drawn.token + 1] = 0
  BY <1>1, Kinds, LedgerBounds DEF TokenId, RInv, Counted
<1>3. Counted'
  BY <1>1, <1>2, LedgerBounds DEF RInv, Counted, TokenId, workers
<1>4. \A t : OnItsWay(t) => OnItsWay(t)'
  BY <1>1, <1>2 DEF OnItsWay, workers
<1>5. HandedOut' /\ PassShape'
  BY <1>4 DEF RInv, HandedOut, PassShape, workers
<1>7. Listed'
  BY <1>1 DEF RInv, Listed, QueuedHasToken, Queued, workers
<1> QED
  BY <1>3, <1>5, <1>7 DEF RInv, NothingHeld, workers

LEMMA RedemptionsPayment ==
  ASSUME IInv, RInv, Payment
  PROVE  RInv'
<1>1. UNCHANGED <<workers, payouts>>
  BY DEF Payment, Pay, PollBaseUsdc, BalanceSync, OnInboundTransfer
<1>2. ASSUME store'.queue = store.queue, DOMAIN store'.nfts = DOMAIN store.nfts,
             drawn' = drawn \/ Draw("payment", MaxPayment)
      PROVE  RInv'
  <2>1. /\ drawn' \in [DrawnKinds -> Nat] /\ drawn'.token = drawn.token
        /\ drawn'.request = drawn.request /\ drawn'.restart = drawn.restart
    BY <1>2, Kinds, DrawnOne
  <2> QED
    BY <1>1, <1>2, <2>1, Undisturbed DEF workers, RInv, NothingHeld
<1>3. ASSUME NEW tr \in inflight, OnInboundTransfer(tr) PROVE RInv'
  <2>1. CASE Donate(tr)
    <3>1. PICK x : store' = store \/ store' = [store EXCEPT !.donations = x]
      BY <2>1 DEF Donate
    <3>2. store'.queue = store.queue /\ store'.nfts = store.nfts
      BY <3>1, Blob DEF Shape, Fields
    <3> QED
      BY <1>2, <2>1, <3>2 DEF Donate
  <2>2. CASE IgnoreTransfer(tr)
    BY <1>2, <2>2 DEF IgnoreTransfer
  <2>3. CASE PayForNft(tr)
    BY <1>1, <2>3, Blob, SaleCompleted, RedemptionsMint DEF PayForNft
  <2>4. CASE PayIntoNft(tr)
    BY <1>2, <2>4, Blob, FundsAdded DEF PayIntoNft
  <2> QED
    BY <1>3, <2>1, <2>2, <2>3, <2>4 DEF OnInboundTransfer
<1>4. CASE BalanceSync
  <2>1. PICK x : store' = [store EXCEPT !.liquid = x]
    BY <1>4 DEF BalanceSync
  <2>2. store'.queue = store.queue /\ store'.nfts = store.nfts
    BY <2>1, Blob DEF Shape, Fields
  <2> QED
    BY <1>2, <1>4, <2>2 DEF BalanceSync
<1>5. CASE UNCHANGED store /\ (drawn' = drawn \/ Draw("payment", MaxPayment))
  BY <1>2, <1>5
<1> QED
  BY <1>3, <1>4, <1>5 DEF Payment, Pay, PollBaseUsdc

\* Trading leaves the tokens and the queue alone.
LEMMA TradingKeeps ==
  ASSUME NoStaleSaves, IInv, RInv, Trading
  PROVE  /\ UNCHANGED <<drawn, withdrawing, fulfil, offer, payouts>>
         /\ trader'.pc \in {"idle", "synced"}
         /\ store'.queue = store.queue /\ DOMAIN store'.nfts = DOMAIN store.nfts
<1>1. ASSUME TraderSync
      PROVE  store'.queue = store.queue /\ DOMAIN store'.nfts = DOMAIN store.nfts
  <2>1. PICK x : store' = [store EXCEPT !.liquid = x]
    BY <1>1 DEF TraderSync
  <2> QED
    BY <2>1, Blob DEF Shape, Fields
<1>2. ASSUME NEW g, MarkPositions(g)
      PROVE  store'.queue = store.queue /\ DOMAIN store'.nfts = DOMAIN store.nfts
  BY <1>2, Blob, MarkedNarrows DEF MarkPositions
<1>3. UNCHANGED <<drawn, withdrawing, fulfil, offer, payouts>> /\ trader'.pc \in {"idle", "synced"}
  BY Kinds DEF Trading, TraderSync, EvaluateStart, EvaluateRefused, EvaluateSkipped, EvaluateTraded,
     EvaluateDecided, MarkPositions, workers, IInv, RInv, NothingHeld, NoStaleSaves, Draw,
     IdleTrader
<1> QED
  BY <1>1, <1>2, <1>3 DEF Trading, EvaluateStart, EvaluateRefused, EvaluateSkipped, EvaluateTraded,
     EvaluateDecided, RInv, NothingHeld

LEMMA RedemptionsTrading ==
  ASSUME NoStaleSaves, IInv, RInv, Trading
  PROVE  RInv'
BY TradingKeeps, Kinds, Undisturbed

LEMMA RedemptionsClock ==
  ASSUME IInv, RInv, Clock
  PROVE  RInv'
<1>1. CASE (\E s \in SaleId : SalePasses(s)) \/ (\E r \in RequestId : RequestPasses(r))
  BY <1>1, Kinds, Undisturbed DEF SalePasses, RequestPasses, workers, RInv, NothingHeld
<1>2. CASE CleanupSales
  BY <1>2, Blob, SalesExpired, Kinds, Undisturbed DEF CleanupSales, workers, RInv, NothingHeld
<1>3. CASE Restart
  <2>1. /\ drawn' \in [DrawnKinds -> Nat] /\ drawn'.token = drawn.token
        /\ drawn'.request = drawn.request /\ drawn'.restart # 0
    BY <1>3, Kinds, DrawnOne DEF Restart
  <2>2. NothingHeld'
    BY <1>3 DEF Restart, NothingHeld, IdleTrader
  <2>3. Counted'
    BY <1>3, <2>1 DEF Restart, RInv, Counted
  <2>4. HandedOut' /\ PassShape'
    BY <1>3 DEF Restart, HandedOut, PassShape, IdleFulfil
  <2>5. Listed'
    BY <1>3, <2>1 DEF Restart, RInv, Listed, QueuedHasToken, IdleFulfil
  <2> QED
    BY <2>2, <2>3, <2>4, <2>5 DEF RInv
<1> QED
  BY <1>1, <1>2, <1>3 DEF Clock

LEMMA RedemptionsQueue ==
  ASSUME IInv, RInv, NEW w \in Wallet, NEW t \in TokenId, QueueWithdrawal(w, t)
  PROVE  RInv'
<1> DEFINE r == drawn.request + 1
           request == [token |-> t, net |-> NetUsdc(store, t), status |-> "queued"]
<1>1. /\ drawn' \in [DrawnKinds -> Nat] /\ drawn'.token = drawn.token
      /\ drawn'.request = r /\ drawn'.restart = drawn.restart
      /\ UNCHANGED <<workers, payouts>>
  BY Kinds, DrawnOne DEF QueueWithdrawal
<1>2. store'.nfts = store.nfts /\ store'.queue = Put(store.queue, r, request)
  BY Blob, RequestAdded DEF QueueWithdrawal
<1>3. /\ DOMAIN store'.queue = DOMAIN store.queue \cup {r}
      /\ \A x \in DOMAIN store'.queue :
           store'.queue[x] = IF x = r THEN request ELSE store.queue[x]
  BY <1>2 DEF Put
<1>4. drawn.request \in Nat /\ r \notin DOMAIN store.queue
  BY Kinds DEF RInv, Listed
<1>5. NothingHeld' /\ Counted' /\ HandedOut' /\ PassShape'
  BY <1>1, <1>2 DEF RInv, NothingHeld, Counted, HandedOut, OnItsWay, PassShape, workers
<1>7. Queued(store') = Queued(store) \cup {r}
  BY <1>3, <1>4 DEF Queued
<1>8. Listed'
  <2>1. \A q \in fulfil'.todo : /\ q.id \in Queued(store') /\ store'.queue[q.id].token = q.token
                                /\ q.id # fulfil'.current.id
    BY <1>1, <1>3, <1>4, <1>7 DEF RInv, Listed, Queued, workers
  <2>2. QueuedHasToken'
    BY <1>1, <1>2, <1>3, <1>4, <1>7 DEF RInv, Listed, QueuedHasToken, QueueWithdrawal, workers,
       Queued
  <2> QED
    BY <1>1, <1>3, <1>4, <1>7, <2>1, <2>2 DEF RInv, Listed, workers
<1> QED
  BY <1>5, <1>8 DEF RInv

LEMMA RedemptionsWithdraw ==
  ASSUME IInv, RInv, NEW w \in Wallet, NEW t \in TokenId, WithdrawNow(w, t)
  PROVE  RInv'
<1> DEFINE r == drawn.request + 1
           rd == [id |-> r, token |-> t, net |-> NetUsdc(store, t)]
<1>1. /\ drawn' \in [DrawnKinds -> Nat] /\ drawn'.token = drawn.token
      /\ drawn'.request = r /\ drawn'.restart = drawn.restart /\ drawn.request \in Nat
      /\ UNCHANGED <<fulfil, offer, trader, payouts>>
      /\ withdrawing' = withdrawing \cup {rd}
  BY Kinds, DrawnOne DEF WithdrawNow
<1>2. DOMAIN store'.nfts = DOMAIN store.nfts \ {t} /\ store'.queue = store.queue
  BY Blob, Redeemed DEF WithdrawNow
<1>3. t \in DOMAIN store.nfts /\ ~AlreadyQueued(store, t)
  BY DEF WithdrawNow
<1>4. NothingHeld' /\ PassShape'
  BY <1>1 DEF RInv, NothingHeld, PassShape
<1>5. Counted'
  BY <1>1, <1>2 DEF RInv, Counted
<1>6. /\ OnItsWay(t)' /\ ~OnItsWay(t) /\ \A u : OnItsWay(u) => OnItsWay(u)'
      /\ rd.token = t /\ rd.id = r
  BY <1>1, <1>2, <1>3 DEF RInv, Counted, OnItsWay
<1>7. \A p \in withdrawing : p.token # t /\ p.id # r
  BY <1>1, <1>6 DEF RInv, HandedOut, Listed
<1>8. HandedOut'
  BY <1>1, <1>6, <1>7 DEF RInv, HandedOut
<1>10. Listed'
  <2>1. QueuedHasToken'
    BY <1>1, <1>2, <1>3 DEF RInv, Listed, QueuedHasToken, AlreadyQueued, Queued
  <2>2. \A p \in withdrawing' : p.id \in (1..drawn'.request) \ DOMAIN store'.queue
    BY <1>1, <1>2, <1>6 DEF RInv, Listed
  <2> QED
    BY <1>1, <1>2, <2>1, <2>2 DEF RInv, Listed, Queued
<1> QED
  BY <1>4, <1>5, <1>8, <1>10 DEF RInv

\* The second save pays a token that is on its way, and records the request.
LEMMA RedemptionsPaid ==
  ASSUME RInv, NEW t, NEW r, NEW net, OnItsWay(t), r \in 1..drawn.request,
         store'.nfts = store.nfts, UNCHANGED <<drawn, offer, trader>>,
         store'.queue = Put(store.queue, r, [token |-> t, net |-> net, status |-> "fulfilled"]),
         payouts' = [payouts EXCEPT ![t] = @ + 1]
  PROVE  /\ NothingHeld' /\ Counted'
         /\ \A u : u # t /\ OnItsWay(u) => OnItsWay(u)'
         /\ DOMAIN store'.queue = DOMAIN store.queue \cup {r}
         /\ Queued(store') = Queued(store) \ {r}
         /\ \A x \in Queued(store') : store'.queue[x] = store.queue[x]
<1>1. /\ DOMAIN store'.queue = DOMAIN store.queue \cup {r}
      /\ \A x \in DOMAIN store'.queue : store'.queue[x] =
           IF x = r THEN [token |-> t, net |-> net, status |-> "fulfilled"] ELSE store.queue[x]
  BY DEF Put
<1>2. t \in TokenId /\ t \in 1..drawn.token /\ t \notin DOMAIN store.nfts /\ payouts[t] = 0
  BY Kinds, LedgerBounds DEF OnItsWay, TokenId, DrawnKinds
<1>3. NothingHeld'
  BY DEF RInv, NothingHeld
<1>4. Counted'
  BY <1>2, Kinds DEF RInv, Counted
<1>6. \A u : u # t /\ OnItsWay(u) => OnItsWay(u)'
  BY Kinds, LedgerBounds DEF RInv, Counted, OnItsWay, TokenId, DrawnKinds
<1>7. Queued(store') = Queued(store) \ {r}
  BY <1>1 DEF Queued
<1> QED
  BY <1>1, <1>3, <1>4, <1>6, <1>7 DEF Queued

LEMMA RedemptionsRecord ==
  ASSUME IInv, RInv, NEW rd \in withdrawing, RecordWithdrawal(rd)
  PROVE  RInv'
<1>1. /\ store'.nfts = store.nfts /\ UNCHANGED <<drawn, fulfil, offer, trader>>
      /\ store'.queue = Put(store.queue, rd.id,
                            [token |-> rd.token, net |-> rd.net, status |-> "fulfilled"])
      /\ payouts' = [payouts EXCEPT ![rd.token] = @ + 1]
      /\ withdrawing' = withdrawing \ {rd}
  BY Blob, Recorded DEF RecordWithdrawal
<1>2. OnItsWay(rd.token) /\ rd.id \in (1..drawn.request) \ DOMAIN store.queue
  BY DEF RInv, HandedOut, Listed
<1>3. /\ NothingHeld' /\ Counted'
      /\ \A u : u # rd.token /\ OnItsWay(u) => OnItsWay(u)'
      /\ DOMAIN store'.queue = DOMAIN store.queue \cup {rd.id}
      /\ Queued(store') = Queued(store) \ {rd.id}
      /\ \A x \in Queued(store') : store'.queue[x] = store.queue[x]
  BY <1>1, <1>2, RedemptionsPaid
<1>4. \A p \in withdrawing' : p \in withdrawing /\ p.token # rd.token /\ p.id # rd.id
  BY <1>1 DEF RInv, HandedOut
<1>5. HandedOut' /\ PassShape'
  BY <1>1, <1>3, <1>4 DEF RInv, HandedOut, PassShape
<1>6. rd.id \notin Queued(store)
  BY <1>2 DEF Queued
<1>7. Listed'
  <2>1. QueuedHasToken'
    BY <1>1, <1>3 DEF RInv, Listed, QueuedHasToken
  <2> QED
    BY <1>1, <1>2, <1>3, <1>4, <1>6, <2>1 DEF RInv, Listed
<1> QED
  BY <1>3, <1>5, <1>7 DEF RInv

LEMMA RedemptionsExpire ==
  ASSUME IInv, RInv, FulfilExpiresAll
  PROVE  RInv'
<1>1. /\ UNCHANGED <<drawn, withdrawing, fulfil, offer, trader, payouts>>
      /\ fulfil.pc = "idle" /\ store' = ExpireRequests(store, Queued(store))
  BY DEF FulfilExpiresAll, workers
<1>2. /\ store'.nfts = store.nfts /\ DOMAIN store'.queue = DOMAIN store.queue
      /\ \A r \in DOMAIN store.queue :
           /\ store'.queue[r].token = store.queue[r].token
           /\ store'.queue[r].status \in {"expired", store.queue[r].status}
  BY <1>1, Blob, RequestsExpired
<1>3. NothingHeld' /\ Counted' /\ HandedOut' /\ PassShape'
  BY <1>1, <1>2 DEF RInv, NothingHeld, Counted, HandedOut, OnItsWay, PassShape
<1>5. Listed'
  <2>1. fulfil.todo = {}
    BY <1>1 DEF RInv, PassShape
  <2>2. QueuedHasToken'
    BY <1>1, <1>2 DEF RInv, Listed, QueuedHasToken, Queued
  <2> QED
    BY <1>1, <1>2, <2>1, <2>2 DEF RInv, Listed
<1> QED
  BY <1>3, <1>5 DEF RInv

\* The pass redeems the next token of a list whose requests are queued.
LEMMA RedemptionsNext ==
  ASSUME IInv, RInv, NEW todo, NEW liquid, RedeemNext(todo, liquid), fulfil.pc # "redeemed",
         UNCHANGED <<drawn, withdrawing, offer, trader, payouts>>,
         \A q \in todo : q.id \in Queued(store) /\ store.queue[q.id].token = q.token
  PROVE  RInv'
<1>1. PICK q \in Redeemable(todo, liquid) :
        /\ store' = RedeemNft(store, q.token)
        /\ fulfil' = [pc |-> "redeemed", current |-> q, liquid |-> liquid,
                      todo |-> {p \in todo : p.id > q.id}]
  BY DEF RedeemNext
<1>2. /\ q \in todo /\ q.token \in DOMAIN store.nfts
      /\ q.id \in Queued(store) /\ store.queue[q.id].token = q.token
  BY <1>1 DEF Redeemable
<1>3. DOMAIN store'.nfts = DOMAIN store.nfts \ {q.token} /\ store'.queue = store.queue
  BY <1>1, Blob, Redeemed
<1>4. NothingHeld' /\ PassShape' /\ Counted'
  BY <1>1, <1>3 DEF RInv, NothingHeld, PassShape, Counted
<1>5. /\ OnItsWay(q.token)' /\ ~OnItsWay(q.token)
      /\ \A u : OnItsWay(u) => OnItsWay(u)'
  BY <1>2, <1>3, Kinds, LedgerBounds DEF RInv, Counted, OnItsWay, TokenId, DrawnKinds
<1>6. HandedOut'
  BY <1>1, <1>5 DEF RInv, HandedOut
<1>8. Listed'
  <2>1. \A r \in Queued(store) : store.queue[r].token = q.token => r = q.id
    BY <1>2, Blob DEF Sound, OneQueued
  <2>2. \A r \in Queued(store) : drawn.restart = 0 => store.queue[r].token \in DOMAIN store.nfts
    <3>1. 0 \notin Queued(store)
      BY DEF RInv, Listed, Queued
    <3>2. fulfil.current.id = 0
      BY DEF RInv, PassShape, NoRequest
    <3> QED
      BY <3>1, <3>2 DEF RInv, Listed, QueuedHasToken
  <2>3. QueuedHasToken'
    BY <1>1, <1>3, <2>1, <2>2 DEF QueuedHasToken, Queued
  <2>4. q.id \in Nat /\ \A p \in fulfil'.todo : p \in todo /\ p.id \in Nat /\ p.id > q.id
    BY <1>1, <1>2, Kinds DEF RInv, Listed, Queued, DrawnKinds
  <2>5. \A p \in fulfil'.todo : /\ p.id \in Queued(store') /\ store'.queue[p.id].token = p.token
                                /\ p.id # fulfil'.current.id
    BY <1>1, <1>3, <2>4 DEF Queued
  <2>6. fulfil'.current.id \in Queued(store')
    BY <1>1, <1>2, <1>3 DEF Queued
  <2> QED
    BY <1>3, <2>3, <2>5, <2>6 DEF RInv, Listed
<1> QED
  BY <1>4, <1>6, <1>8 DEF RInv

LEMMA RedemptionsPass ==
  ASSUME IInv, RInv, FulfilStart \/ FulfilRecord \/ FulfilNext
  PROVE  RInv'
<1>1. CASE FulfilStart
  <2>1. \A q \in Pending : q.id \in Queued(store) /\ store.queue[q.id].token = q.token
    BY DEF Pending
  <2> QED
    BY <1>1, <2>1, RedemptionsNext DEF FulfilStart
<1>2. CASE FulfilRecord
  <2> DEFINE q == fulfil.current
  <2>1. /\ store'.nfts = store.nfts /\ UNCHANGED <<drawn, withdrawing, offer, trader>>
        /\ store'.queue = Put(store.queue, q.id,
                              [token |-> q.token, net |-> q.net, status |-> "fulfilled"])
        /\ payouts' = [payouts EXCEPT ![q.token] = @ + 1]
        /\ fulfil.pc = "redeemed"
    BY <1>2, Blob, Recorded DEF FulfilRecord
  <2>2. /\ PassShape' /\ fulfil'.pc = "saved" /\ fulfil'.todo = fulfil.todo
        /\ fulfil'.current = NoRequest
    BY <1>2 DEF FulfilRecord, RInv, PassShape
  <2>3. OnItsWay(q.token) /\ \A rd \in withdrawing : rd.token # q.token
    BY <2>1 DEF RInv, HandedOut
  <2>4. q.id \in DOMAIN store.queue /\ q.id \in 1..drawn.request
    BY <2>1 DEF RInv, Listed, Queued
  <2>5. /\ NothingHeld' /\ Counted'
        /\ \A u : u # q.token /\ OnItsWay(u) => OnItsWay(u)'
        /\ DOMAIN store'.queue = DOMAIN store.queue \cup {q.id}
        /\ Queued(store') = Queued(store) \ {q.id}
        /\ \A x \in Queued(store') : store'.queue[x] = store.queue[x]
    BY <2>1, <2>3, <2>4, RedemptionsPaid
  <2>6. HandedOut'
    BY <2>1, <2>2, <2>3, <2>5 DEF RInv, HandedOut
  <2>7. Listed'
    <3>1. QueuedHasToken'
      BY <2>1, <2>5 DEF RInv, Listed, QueuedHasToken
    <3>2. \A p \in fulfil'.todo : p.id \in Queued(store') /\ store'.queue[p.id].token = p.token
      BY <2>2, <2>5 DEF RInv, Listed
    <3>3. \A p \in fulfil'.todo : p.id # fulfil'.current.id
      <4>1. 0 \notin DOMAIN store.queue /\ fulfil'.current.id = 0
        BY <2>2 DEF RInv, Listed, NoRequest
      <4>2. \A p \in fulfil'.todo : p.id \in DOMAIN store.queue
        BY <2>2 DEF RInv, Listed, Queued
      <4> QED
        BY <4>1, <4>2
    <3> QED
      BY <2>1, <2>2, <2>4, <2>5, <3>1, <3>2, <3>3 DEF RInv, Listed
  <2> QED
    BY <2>2, <2>5, <2>6, <2>7 DEF RInv
<1>3. CASE FulfilNext
  <2>1. CASE RedeemNext(fulfil.todo, fulfil.liquid)
    BY <1>3, <2>1, RedemptionsNext DEF FulfilNext, RInv, Listed
  <2>2. CASE fulfil' = IdleFulfil /\ UNCHANGED store
    <3>1. UNCHANGED <<drawn, withdrawing, offer, trader, payouts>> /\ fulfil.current = NoRequest
      BY <1>3 DEF FulfilNext, RInv, PassShape
    <3>2. NothingHeld' /\ Counted' /\ HandedOut' /\ PassShape'
      BY <2>2, <3>1 DEF RInv, NothingHeld, Counted, HandedOut, OnItsWay, PassShape, IdleFulfil
    <3>3. Listed'
      BY <2>2, <3>1 DEF RInv, Listed, QueuedHasToken, IdleFulfil
    <3> QED
      BY <3>2, <3>3 DEF RInv
  <2> QED
    BY <1>3, <2>1, <2>2 DEF FulfilNext
<1> QED
  BY <1>1, <1>2, <1>3

LEMMA StepRedemptions ==
  ASSUME NoStaleSaves, IInv, RInv, [Next]_vars
  PROVE  RInv'
<1>1. CASE UNCHANGED vars
  BY <1>1, Kinds, Undisturbed DEF vars, workers, RInv, NothingHeld
<1>2. CASE Redemption
  BY <1>2, RedemptionsQueue, RedemptionsWithdraw, RedemptionsRecord, RedemptionsExpire,
     RedemptionsPass DEF Redemption
<1> QED
  BY <1>1, <1>2, RedemptionsSales, RedemptionsOffers, RedemptionsPayment, RedemptionsTrading,
     RedemptionsClock DEF Next

LEMMA RedemptionsInvariant == ASSUME NoStaleSaves PROVE Spec => []RInv
<1>1. Init => RInv
  BY InitRedemptions
<1>2. IInv /\ RInv /\ [Next]_vars => RInv'
  BY StepRedemptions
<1> QED
  BY <1>1, <1>2, Invariance, PTL DEF Spec

\* A token is redeemed for money at most once, by its holder or by the pass,
\* over any number of restarts, as long as no handler saves a stale blob.
THEOREM RedeemedAtMostOnce == ASSUME NoStaleSaves PROVE Spec => []RedeemedOnce
<1>1. RInv => RedeemedOnce
  BY DEF RInv, Counted, RedeemedOnce
<1> QED
  BY <1>1, RedemptionsInvariant, PTL

\* Until the process restarts the queue owes only for tokens it has: no
\* withdrawal that is paid at once takes a token from under a queued request.
THEOREM QueueOwnsItsTokens == ASSUME NoStaleSaves PROVE Spec => []QueuedHasToken
<1>1. RInv => QueuedHasToken
  BY DEF RInv, Listed
<1> QED
  BY <1>1, RedemptionsInvariant, PTL

-----------------------------------------------------------------------------
(***************************************************************************)
(* Under the same assumption Fund implements Holdings: every step mints a  *)
(* token, takes one out of the fund, pays one that was taken out, loses    *)
(* those in a crash, or leaves the tokens alone.                           *)
(***************************************************************************)
LEMMA HoldingsInit == Init => Promised!Init
BY DEF Init, Promised!Init, EmptyBlob, DrawnKinds, Leaving, FulfilledTokens, IdleFulfil

\* The tokens of fulfilled requests change with the requests that are fulfilled.
LEMMA SamePaid ==
  ASSUME \A r : r \in DOMAIN store'.queue /\ store'.queue[r].status = "fulfilled" <=>
                 r \in DOMAIN store.queue /\ store.queue[r].status = "fulfilled",
         \A r \in DOMAIN store.queue : store'.queue[r].token = store.queue[r].token
  PROVE  FulfilledTokens' = FulfilledTokens
BY DEF FulfilledTokens

LEMMA AlsoPaid ==
  ASSUME NEW t, NEW r, NEW net, store.queue[r].status # "fulfilled" \/ r \notin DOMAIN store.queue,
         store'.queue = Put(store.queue, r, [token |-> t, net |-> net, status |-> "fulfilled"])
  PROVE  FulfilledTokens' = FulfilledTokens \cup {t}
<1>1. /\ DOMAIN store'.queue = DOMAIN store.queue \cup {r}
      /\ \A x \in DOMAIN store'.queue : store'.queue[x] =
           IF x = r THEN [token |-> t, net |-> net, status |-> "fulfilled"] ELSE store.queue[x]
  BY DEF Put
<1> QED
  BY <1>1 DEF FulfilledTokens

Untouched ==
  UNCHANGED <<drawn.token, DOMAIN store.nfts, store.queue, withdrawing, fulfil>>

LEMMA UntouchedStutters == Untouched => UNCHANGED Promised!holdingVars
BY DEF Untouched, Promised!holdingVars, Leaving, FulfilledTokens

LEMMA HoldingsPayment ==
  ASSUME IInv, RInv, Payment
  PROVE  Promised!Next \/ Untouched
<1>1. UNCHANGED <<withdrawing, fulfil>>
  BY DEF Payment, Pay, PollBaseUsdc, BalanceSync, OnInboundTransfer, workers
<1>2. ASSUME NEW tr \in inflight, OnInboundTransfer(tr) PROVE Promised!Next \/ Untouched
  <2>1. CASE Donate(tr)
    <3>1. PICK x : store' = store \/ store' = [store EXCEPT !.donations = x]
      BY <2>1 DEF Donate
    <3>2. store'.queue = store.queue /\ store'.nfts = store.nfts
      BY <3>1, Blob DEF Shape, Fields
    <3> QED
      BY <1>1, <2>1, <3>2 DEF Donate, Untouched
  <2>2. CASE IgnoreTransfer(tr)
    BY <1>1, <2>2 DEF IgnoreTransfer, Untouched
  <2>3. CASE PayForNft(tr)
    <3>1. /\ store'.queue = store.queue
          /\ DOMAIN store'.nfts = DOMAIN store.nfts \cup {drawn.token + 1}
          /\ drawn'.token = drawn.token + 1 /\ drawn.token \in Nat /\ drawn.token < MaxToken
      BY <2>3, Blob, SaleCompleted, Kinds, DrawnOne DEF PayForNft
    <3>2. /\ drawn.token + 1 \in TokenId /\ drawn.token + 1 \notin 1..drawn.token
          /\ 1..drawn'.token = (1..drawn.token) \cup {drawn.token + 1}
      BY <3>1, LedgerBounds DEF TokenId
    <3>3. UNCHANGED <<Leaving, FulfilledTokens>>
      BY <1>1, <3>1 DEF Leaving, FulfilledTokens
    <3>4. Promised!Mint(drawn.token + 1)
      BY <3>1, <3>2, <3>3 DEF Promised!Mint
    <3> QED
      BY <3>2, <3>4 DEF Promised!Next
  <2>4. CASE PayIntoNft(tr)
    BY <1>1, <2>4, Blob, FundsAdded DEF PayIntoNft, Untouched
  <2> QED
    BY <1>2, <2>1, <2>2, <2>3, <2>4 DEF OnInboundTransfer
<1>3. CASE BalanceSync
  <2>1. PICK x : store' = [store EXCEPT !.liquid = x]
    BY <1>3 DEF BalanceSync
  <2>2. store'.queue = store.queue /\ store'.nfts = store.nfts
    BY <2>1, Blob DEF Shape, Fields
  <2> QED
    BY <1>1, <1>3, <2>2 DEF BalanceSync, Untouched
<1>4. ASSUME UNCHANGED store, drawn' = drawn \/ Draw("payment", MaxPayment) PROVE Untouched
  BY <1>1, <1>4, Kinds, DrawnOne DEF Untouched
<1> QED
  BY <1>2, <1>3, <1>4 DEF Payment, Pay, PollBaseUsdc

\* A withdrawal and the pass take a token out of the fund ...
LEMMA HoldingsLeave ==
  ASSUME IInv, RInv, NEW t \in DOMAIN store.nfts, store' = RedeemNft(store, t),
         drawn'.token = drawn.token, Leaving' = Leaving \cup {t}
  PROVE  Promised!Next
<1>1. DOMAIN store'.nfts = DOMAIN store.nfts \ {t} /\ store'.queue = store.queue
  BY Blob, Redeemed
<1>2. t \in TokenId
  BY Kinds, LedgerBounds DEF RInv, Counted, TokenId, DrawnKinds
<1>3. Promised!Leave(t)
  BY <1>1 DEF Promised!Leave, FulfilledTokens
<1> QED
  BY <1>2, <1>3 DEF Promised!Next

\* ... and pay one that they have in hand.
LEMMA HoldingsPayOut ==
  ASSUME IInv, RInv, NEW t \in Leaving, NEW r, NEW net, OnItsWay(t), drawn' = drawn,
         r \in DOMAIN store.queue => store.queue[r].status # "fulfilled",
         store' = RecordFulfilled(store, r, t, net), Leaving' = Leaving \ {t}
  PROVE  Promised!Next
<1>1. /\ store'.nfts = store.nfts
      /\ store'.queue = Put(store.queue, r, [token |-> t, net |-> net, status |-> "fulfilled"])
  BY Blob, Recorded
<1>2. FulfilledTokens' = FulfilledTokens \cup {t}
  BY <1>1, AlsoPaid
<1>3. t \in TokenId
  BY Kinds, LedgerBounds DEF OnItsWay, TokenId, DrawnKinds
<1>4. Promised!PayOut(t)
  BY <1>1, <1>2 DEF Promised!PayOut
<1> QED
  BY <1>3, <1>4 DEF Promised!Next

LEMMA HoldingsRedemption ==
  ASSUME IInv, RInv, Redemption
  PROVE  Promised!Next \/ UNCHANGED Promised!holdingVars
<1>1. ASSUME NEW w \in Wallet, NEW t \in TokenId, QueueWithdrawal(w, t)
      PROVE  UNCHANGED Promised!holdingVars
  <2> DEFINE r == drawn.request + 1
             request == [token |-> t, net |-> NetUsdc(store, t), status |-> "queued"]
  <2>1. /\ drawn'.token = drawn.token /\ UNCHANGED <<withdrawing, fulfil>>
        /\ r \notin DOMAIN store.queue
    BY <1>1, Kinds, DrawnOne DEF QueueWithdrawal, workers, RInv, Listed
  <2>2. store'.nfts = store.nfts /\ store'.queue = Put(store.queue, r, request)
    BY <1>1, Blob, RequestAdded DEF QueueWithdrawal
  <2>3. /\ DOMAIN store'.queue = DOMAIN store.queue \cup {r} /\ store'.queue[r] = request
        /\ \A x \in DOMAIN store.queue : store'.queue[x] = store.queue[x]
    BY <2>1, <2>2 DEF Put
  <2>4. UNCHANGED <<Leaving, FulfilledTokens>>
    BY <2>1, <2>3, SamePaid DEF Leaving
  <2> QED
    BY <2>1, <2>2, <2>4 DEF Promised!holdingVars
<1>2. ASSUME NEW w \in Wallet, NEW t \in TokenId, WithdrawNow(w, t) PROVE Promised!Next
  <2> DEFINE rd == [id |-> drawn.request + 1, token |-> t, net |-> NetUsdc(store, t)]
  <2>1. /\ t \in DOMAIN store.nfts /\ store' = RedeemNft(store, t) /\ drawn'.token = drawn.token
        /\ withdrawing' = withdrawing \cup {rd} /\ rd.token = t /\ UNCHANGED fulfil
    BY <1>2, Kinds, DrawnOne DEF WithdrawNow
  <2>2. Leaving' = Leaving \cup {t}
    <3> HIDE DEF rd
    <3> QED BY <2>1 DEF Leaving
  <2> QED
    BY <2>1, <2>2, HoldingsLeave
<1>3. ASSUME NEW rd \in withdrawing, RecordWithdrawal(rd) PROVE Promised!Next
  <2>1. /\ drawn' = drawn /\ store' = RecordFulfilled(store, rd.id, rd.token, rd.net)
        /\ withdrawing' = withdrawing \ {rd} /\ UNCHANGED fulfil
    BY <1>3 DEF RecordWithdrawal
  <2>2. /\ OnItsWay(rd.token) /\ rd.id \notin DOMAIN store.queue
        /\ \A p \in withdrawing : p.token = rd.token => p = rd
        /\ fulfil.pc = "redeemed" => fulfil.current.token # rd.token
    BY DEF RInv, HandedOut, Listed
  <2>3. rd.token \in Leaving /\ Leaving' = Leaving \ {rd.token}
    BY <2>1, <2>2 DEF Leaving
  <2> QED
    BY <2>1, <2>2, <2>3, HoldingsPayOut
<1>4. CASE FulfilExpiresAll
  <2>1. UNCHANGED <<drawn, withdrawing, fulfil>> /\ store' = ExpireRequests(store, Queued(store))
    BY <1>4 DEF FulfilExpiresAll, workers
  <2>2. /\ store'.nfts = store.nfts /\ DOMAIN store'.queue = DOMAIN store.queue
        /\ \A r \in DOMAIN store.queue :
             /\ store'.queue[r].token = store.queue[r].token
             /\ store'.queue[r].status =
                  IF r \in Queued(store) THEN "expired" ELSE store.queue[r].status
    BY <2>1, Blob, RequestsExpired
  <2>3. UNCHANGED <<Leaving, FulfilledTokens>>
    BY <2>1, <2>2, SamePaid DEF Leaving, Queued
  <2> QED
    BY <2>1, <2>2, <2>3 DEF Promised!holdingVars
<1>5. ASSUME NEW todo, NEW liquid, RedeemNext(todo, liquid), fulfil.pc # "redeemed",
             UNCHANGED <<drawn, withdrawing>>
      PROVE  Promised!Next
  <2>1. PICK q \in Redeemable(todo, liquid) :
          /\ store' = RedeemNft(store, q.token)
          /\ fulfil'.pc = "redeemed" /\ fulfil'.current = q
    BY <1>5 DEF RedeemNext
  <2>2. q.token \in DOMAIN store.nfts
    BY <2>1 DEF Redeemable
  <2>3. Leaving' = Leaving \cup {q.token}
    BY <1>5, <2>1 DEF Leaving
  <2> QED
    BY <1>5, <2>1, <2>2, <2>3, HoldingsLeave
<1>6. CASE FulfilRecord
  <2> DEFINE q == fulfil.current
  <2>1. /\ drawn' = drawn /\ store' = RecordFulfilled(store, q.id, q.token, q.net)
        /\ UNCHANGED withdrawing /\ fulfil.pc = "redeemed" /\ fulfil'.pc = "saved"
    BY <1>6 DEF FulfilRecord, RInv, PassShape
  <2>2. /\ OnItsWay(q.token) /\ q.id \in Queued(store)
        /\ \A p \in withdrawing : p.token # q.token
    BY <2>1 DEF RInv, HandedOut, Listed
  <2>3. q.token \in Leaving /\ Leaving' = Leaving \ {q.token}
    BY <2>1, <2>2 DEF Leaving
  <2>4. store.queue[q.id].status # "fulfilled"
    BY <2>2 DEF Queued
  <2> QED
    BY <2>1, <2>2, <2>3, <2>4, HoldingsPayOut
<1>7. CASE FulfilNext /\ fulfil' = IdleFulfil /\ UNCHANGED store
  <2>1. UNCHANGED <<drawn, withdrawing>> /\ fulfil.pc = "saved" /\ fulfil'.pc = "idle"
    BY <1>7 DEF FulfilNext, IdleFulfil
  <2>2. UNCHANGED <<Leaving, FulfilledTokens>>
    BY <1>7, <2>1 DEF Leaving, FulfilledTokens
  <2> QED
    BY <1>7, <2>1, <2>2 DEF Promised!holdingVars
<1> QED
  BY <1>1, <1>2, <1>3, <1>4, <1>5, <1>6, <1>7 DEF Redemption, FulfilStart, FulfilNext

LEMMA HoldingsClock ==
  ASSUME IInv, RInv, Clock
  PROVE  Promised!Next \/ Untouched
<1>1. CASE (\E s \in SaleId : SalePasses(s)) \/ (\E r \in RequestId : RequestPasses(r))
  BY <1>1 DEF SalePasses, RequestPasses, workers, Untouched
<1>2. CASE CleanupSales
  BY <1>2, Blob, SalesExpired DEF CleanupSales, workers, Untouched
<1>3. CASE Restart
  <2>1. drawn'.token = drawn.token /\ UNCHANGED store
    BY <1>3, Kinds, DrawnOne DEF Restart
  <2>2. Leaving' = {} /\ UNCHANGED FulfilledTokens
    BY <1>3, <2>1 DEF Restart, Leaving, IdleFulfil, FulfilledTokens
  <2> QED
    BY <2>1, <2>2 DEF Promised!Next, Promised!Crash
<1> QED
  BY <1>1, <1>2, <1>3 DEF Clock

LEMMA HoldingsStep ==
  ASSUME NoStaleSaves, IInv, RInv, [Next]_vars
  PROVE  [Promised!Next]_(Promised!holdingVars)
<1>1. CASE OpenSales
  <2>1. ASSUME Draw("sale", MaxSale), NEW s, NEW w, NEW price, NEW target,
               store' = OpenSale(store, s, w, price, target), UNCHANGED workers
        PROVE  Untouched
    <3>1. PICK x : store' = [store EXCEPT !.sales = x]
      BY <2>1 DEF OpenSale
    <3>2. store'.queue = store.queue /\ store'.nfts = store.nfts
      BY <3>1, Blob DEF Shape, Fields
    <3> QED
      BY <2>1, <3>2, Kinds, DrawnOne DEF workers, Untouched
  <2>2. Untouched
    BY <1>1, <2>1 DEF OpenSales, HandleBuy, HandleAddFunds
  <2> QED
    BY <2>2, UntouchedStutters
<1>2. CASE Trading
  <2>1. Untouched
    BY <1>2, TradingKeeps DEF Untouched
  <2> QED
    BY <2>1, UntouchedStutters
<1>3. CASE UNCHANGED vars
  <2>1. Untouched
    BY <1>3 DEF vars, workers, Untouched
  <2> QED
    BY <2>1, UntouchedStutters
<1> QED
  BY <1>1, <1>2, <1>3, RedemptionsOffers, HoldingsPayment, HoldingsRedemption, HoldingsClock,
     UntouchedStutters DEF Next

\* The fund's tokens behave as Holdings says, over any number of withdrawals,
\* passes and restarts, as long as no handler saves a stale blob.
THEOREM HoldingsRefinement == ASSUME NoStaleSaves PROVE Spec => HoldingsKept
<1>1. Init => Promised!Init
  BY HoldingsInit
<1>2. IInv /\ RInv /\ [Next]_vars => [Promised!Next]_(Promised!holdingVars)
  BY HoldingsStep
<1> QED
  BY <1>1, <1>2, Invariance, RedemptionsInvariant, PTL DEF Spec, HoldingsKept, Promised!Spec

\* Holdings keeps a token in one place.
LEMMA HoldingsApart == Promised!Spec => []Promised!OnePlace
<1>1. Promised!Init => Promised!OnePlace
  BY DEF Promised!Init, Promised!OnePlace
<1>2. Promised!OnePlace /\ [Promised!Next]_(Promised!holdingVars) => Promised!OnePlace'
  BY DEF Promised!OnePlace, Promised!Next, Promised!Mint, Promised!Leave, Promised!PayOut,
     Promised!Crash, Promised!holdingVars
<1> QED
  BY <1>1, <1>2, PTL DEF Promised!Spec

\* Hence a token that was reported redeemed is not in the fund, nor on its way
\* to be paid again: no later purchase and no later pass brings it back.
THEOREM FulfilledStaysGone == ASSUME NoStaleSaves PROVE Spec => []Promised!OnePlace
BY HoldingsRefinement, HoldingsApart, PTL DEF HoldingsKept

-----------------------------------------------------------------------------
\* Payments, under the same assumption: what is saved comes from the store, and
\* the ids of new sales are fresh.

\* Sales are numbered as their ids are drawn.
Numbered == drawn \in [DrawnKinds -> Nat] /\ DOMAIN store.sales \subseteq 1..drawn.sale

LEMMA StepPaid ==
  ASSUME NoStaleSaves, IInv, RInv, Numbered, [Next]_vars
  PROVE  /\ Numbered'
         /\ \A s \in DOMAIN store.sales : store.sales[s].status = "paid" =>
              s \in DOMAIN store'.sales /\ store'.sales[s].status = "paid"
<1>1. drawn' \in [DrawnKinds -> Nat]
  BY StepRedemptions DEF RInv, Counted
<1>2. Sources = {store}
  BY DEF RInv, NothingHeld, Sources
<1>3. CASE SameDraw /\ KeepsPaid(store, store')
  BY <1>1, <1>3 DEF Numbered, KeepsPaid, SameDraw
<1>4. CASE Opens(store, store')
  <2>1. /\ drawn.sale \in Nat /\ drawn'.sale = drawn.sale + 1
        /\ drawn.sale + 1 \notin DOMAIN store.sales
    BY <1>4, Kinds, DrawnOne DEF Opens, Numbered
  <2>2. /\ DOMAIN store'.sales = DOMAIN store.sales \cup {drawn.sale + 1}
        /\ \A s \in DOMAIN store.sales : store'.sales[s] = store.sales[s]
    BY <1>4, <2>1, Blob, SaleAdded DEF Opens
  <2> QED
    BY <1>1, <2>1, <2>2 DEF Numbered
<1> QED
  BY <1>2, <1>3, <1>4, Kinds, Saved DEF Keeps, Mints

\* A sale that was paid stays paid, so no buyer loses a payment, over any
\* number of transfers, redemptions and restarts.
THEOREM PaymentsStay == ASSUME NoStaleSaves PROVE Spec => PaidStaysPaid
<1>1. Init => Numbered
  BY DEF Init, Numbered, EmptyBlob, DrawnKinds
<1>2. IInv /\ RInv /\ Numbered /\ [Next]_vars => Numbered'
  BY StepPaid
<1>3. IInv /\ RInv /\ Numbered /\ [Next]_vars =>
        [\A s \in DOMAIN store.sales : store.sales[s].status = "paid" =>
           s \in DOMAIN store'.sales /\ store'.sales[s].status = "paid"]_store
  BY StepPaid
<1> QED
  BY <1>1, <1>2, <1>3, Invariance, RedemptionsInvariant, PTL DEF Spec, PaidStaysPaid
=============================================================================
