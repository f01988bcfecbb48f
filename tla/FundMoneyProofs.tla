--------------------------- MODULE FundMoneyProofs ---------------------------
(***************************************************************************)
(* Proofs about the amounts of Fund: types, deposits and navs.             *)
(*                                                                         *)
(* The store is saved whole, by handlers that may have read it long ago.   *)
(* So each invariant is about every blob that a handler still holds, not   *)
(* about the stored one alone:                                             *)
(*   TInv  the blobs are typed, and so is what is under way;               *)
(*   MInv  what a blob credits was handled before now (Money): the amount  *)
(*         that has been handled only grows, which makes this last for a   *)
(*         blob that is saved later;                                       *)
(*   NInv  the navs of a blob add up to the value of its pool, or to zero. *)
(* FundProofs has the shape of the blobs (IInv) and the ids drawn (PInv).  *)
(***************************************************************************)
EXTENDS FundProofs, SumLemmas, SequenceTheorems

-----------------------------------------------------------------------------
\* What the functions of the ledger do to a blob, field by field.

SameButNfts(b, c) ==
  /\ c.sales = b.sales /\ c.queue = b.queue /\ c.liquid = b.liquid
  /\ c.deposited = b.deposited /\ c.value = b.value /\ c.donations = b.donations
  /\ c.positions = b.positions /\ c.pnl = b.pnl

\* The navs of c are those of b, or their shares of the pool's value.
Recalculates(b, c) ==
  LET sum == SumOfNavs(b.nfts)
  IN  /\ Fields(c) /\ SameButNfts(b, c) /\ DOMAIN c.nfts = DOMAIN b.nfts
      /\ \/ c.nfts = b.nfts /\ (DOMAIN b.nfts = {} \/ sum = 0 \/ sum = b.value)
         \/ /\ sum # 0 /\ sum # b.value
            /\ \A t \in DOMAIN b.nfts :
                 c.nfts[t] = [b.nfts[t] EXCEPT !.nav = Share(b.nfts[t].nav, b.value, sum)]

\* recalculateAllNavs writes navs only, and shares only if there is something to share.
LEMMA Recalculation == ASSUME NEW b, Fields(b) PROVE Recalculates(b, RecalculateAllNavs(b))
<1> DEFINE c   == RecalculateAllNavs(b)
           sum == SumOfNavs(b.nfts)
<1>1. PICK navs : navs = [t \in DOMAIN b.nfts |->
                            [b.nfts[t] EXCEPT !.nav = Share(b.nfts[t].nav, b.value, sum)]]
  OBVIOUS
<1>2. c = IF DOMAIN b.nfts = {} \/ sum = 0 \/ sum = b.value THEN b ELSE [b EXCEPT !.nfts = navs]
  BY <1>1 DEF RecalculateAllNavs
<1>3. CASE DOMAIN b.nfts = {} \/ sum = 0 \/ sum = b.value
  BY <1>2, <1>3 DEF Recalculates, SameButNfts
<1>4. CASE ~(DOMAIN b.nfts = {} \/ sum = 0 \/ sum = b.value)
  <2>1. c = [b EXCEPT !.nfts = navs]
    BY <1>2, <1>4
  <2>2. Fields(c) /\ SameButNfts(b, c) /\ c.nfts = navs
    BY <2>1 DEF Fields, SameButNfts
  <2> QED
    BY <1>1, <1>4, <2>2 DEF Recalculates
<1> QED
  BY <1>3, <1>4

\* The values of a pool and of its tokens are whole numbers.
LEMMA ShareInt ==
  ASSUME NEW nav \in Int, NEW value \in Int, NEW sum \in Int, sum # 0
  PROVE  Share(nav, value, sum) \in Int
<1>1. CASE sum > 0
  <2>1. nav * value \in Int
    OBVIOUS
  <2>2. (nav * value) \div sum \in Int
    BY <1>1, <2>1
  <2> QED
    BY <1>1, <2>2 DEF Share
<1>2. CASE ~(sum > 0)
  <2>1. nav * (-value) \in Int /\ -sum \in Int /\ -sum > 0
    BY <1>2
  <2>2. (nav * (-value)) \div (-sum) \in Int
    BY <2>1
  <2> QED
    BY <1>2, <2>2 DEF Share
<1> QED
  BY <1>1, <1>2

\* There are finitely many tokens.
LEMMA TokensFinite ==
  ASSUME NEW S, S \subseteq TokenId
  PROVE  IsFiniteSet(S)
<1>1. IsFiniteSet(TokenId)
  BY LedgerBounds, FS_Interval DEF TokenId
<1> QED
  BY <1>1, FS_Subset

\* The navs of a typed blob have a sum.
LEMMA NavsInt == ASSUME NEW b, BlobOK(b) PROVE SumOfNavs(b.nfts) \in Int
<1> DEFINE f == [t \in DOMAIN b.nfts |-> b.nfts[t].nav]
<1>1. DOMAIN f = DOMAIN b.nfts /\ \A t \in DOMAIN f : f[t] \in Int
  BY DEF BlobOK, Nft
<1>2. IsFiniteSet(DOMAIN f)
  BY <1>1, TokensFinite DEF BlobOK
<1> HIDE DEF f
<1>3. SumFunction(f) \in Int
  BY <1>1, <1>2, SumFunctionInt
<1> QED
  BY <1>3 DEF f, SumOfNavs

\* A value of one field of an NFT.
LEMMA NftWritten ==
  ASSUME NEW nft \in Nft, NEW x \in Int, NEW y \in Int
  PROVE  /\ [nft EXCEPT !.nav = x] \in Nft
         /\ [nft EXCEPT !.deposited = y, !.nav = x] \in Nft
BY DEF Nft

\* Recalculated navs are whole numbers.
LEMMA TypeRecalculated ==
  ASSUME NEW b, BlobOK(b), Fields(b)
  PROVE  BlobOK(RecalculateAllNavs(b))
<1> DEFINE c == RecalculateAllNavs(b)
<1>1. Recalculates(b, c)
  BY Recalculation
<1>2. \A t \in DOMAIN c.nfts : c.nfts[t] \in Nft
  <2> TAKE t \in DOMAIN c.nfts
  <2>1. t \in DOMAIN b.nfts /\ b.nfts[t] \in Nft /\ b.nfts[t].nav \in Int /\ b.value \in Int
    BY <1>1 DEF Recalculates, BlobOK, Nft
  <2>2. CASE c.nfts = b.nfts
    BY <2>1, <2>2
  <2>3. CASE /\ SumOfNavs(b.nfts) # 0
             /\ c.nfts[t] = [b.nfts[t] EXCEPT !.nav = Share(b.nfts[t].nav, b.value,
                                                            SumOfNavs(b.nfts))]
    <3>1. Share(b.nfts[t].nav, b.value, SumOfNavs(b.nfts)) \in Int
      BY <2>1, <2>3, NavsInt, ShareInt
    <3> QED
      BY <2>1, <2>3, <3>1, NftWritten
  <2> QED
    BY <1>1, <2>1, <2>2, <2>3 DEF Recalculates
<1> HIDE DEF c
<1>3. BlobOK(c)
  BY <1>1, <1>2 DEF Recalculates, SameButNfts, BlobOK
<1> QED
  BY <1>3 DEF c

\* A blob that differs from b in what a deposit writes, and in its NFTs.
DepositsInto(b, c, s, amount) ==
  /\ Fields(c) /\ c.sales = [b.sales EXCEPT ![s].status = "paid"]
  /\ c.queue = b.queue /\ c.liquid = b.liquid
  /\ c.deposited = b.deposited + amount /\ c.value = b.value + amount
  /\ c.donations = b.donations /\ c.positions = b.positions /\ c.pnl = b.pnl

\* A purchase and a top-up, before the navs are recalculated.
LEMMA DepositFields ==
  ASSUME NEW b, NEW s, NEW amount, Fields(b)
  PROVE  DepositsInto(b, Deposit(b, s, amount), s, amount) /\ Deposit(b, s, amount).nfts = b.nfts
<1>1. PICK paid : paid = [b.sales EXCEPT ![s].status = "paid"]
  OBVIOUS
<1>2. PICK x, y : x = b.deposited + amount /\ y = b.value + amount
  OBVIOUS
<1>3. Deposit(b, s, amount) = [b EXCEPT !.sales = paid, !.deposited = x, !.value = y]
  BY <1>1, <1>2 DEF Deposit
<1> QED
  BY <1>1, <1>2, <1>3 DEF Fields, DepositsInto

NewNft(b, s, amount) ==
  [owner |-> b.sales[s].buyer, deposited |-> amount, nav |-> amount,
   index |-> Cardinality(DOMAIN b.nfts) + 1]

\* completeSale adds one NFT, of what was paid.
LEMMA MintedFields ==
  ASSUME NEW b, NEW s, NEW t, NEW amount, Fields(b)
  PROVE  /\ DepositsInto(b, Minted(b, s, t, amount), s, amount)
         /\ Minted(b, s, t, amount).nfts = Put(b.nfts, t, NewNft(b, s, amount))
<1> DEFINE d == Deposit(b, s, amount)
           c == Minted(b, s, t, amount)
<1>1. DepositsInto(b, d, s, amount) /\ d.nfts = b.nfts
  BY DepositFields
<1>2. PICK n : n = Put(b.nfts, t, NewNft(b, s, amount))
  OBVIOUS
<1>3. c = [d EXCEPT !.nfts = n]
  BY <1>1, <1>2 DEF Minted, NewNft
<1> HIDE DEF d
<1> QED
  BY <1>1, <1>2, <1>3 DEF DepositsInto, Fields

TopsUp(b, c, t, amount) ==
  /\ DOMAIN c.nfts = DOMAIN b.nfts
  /\ \A x \in DOMAIN b.nfts :
       c.nfts[x] = IF x = t THEN TopUp(b.nfts[x], amount) ELSE b.nfts[x]

\* addFundsToNft tops up the target of the sale.
LEMMA ToppedUpFields ==
  ASSUME NEW b, NEW s, NEW amount, Fields(b)
  PROVE  /\ DepositsInto(b, ToppedUp(b, s, amount), s, amount)
         /\ TopsUp(b, ToppedUp(b, s, amount), b.sales[s].target, amount)
<1> DEFINE d == Deposit(b, s, amount)
           c == ToppedUp(b, s, amount)
<1>1. DepositsInto(b, d, s, amount) /\ d.nfts = b.nfts
  BY DepositFields
<1>2. PICK n : n = [b.nfts EXCEPT ![b.sales[s].target] =
                      TopUp(b.nfts[b.sales[s].target], amount)]
  OBVIOUS
<1>3. c = [d EXCEPT !.nfts = n]
  BY <1>1, <1>2 DEF ToppedUp
<1>4. /\ DOMAIN n = DOMAIN b.nfts
      /\ \A x \in DOMAIN b.nfts :
           n[x] = IF x = b.sales[s].target THEN TopUp(b.nfts[x], amount) ELSE b.nfts[x]
  BY <1>2
<1> HIDE DEF d
<1>5. DepositsInto(b, c, s, amount) /\ c.nfts = n
  BY <1>1, <1>3 DEF DepositsInto, Fields
<1> QED
  BY <1>4, <1>5 DEF TopsUp

\* A redemption, before the navs are recalculated.
RemovesFrom(b, c, t) ==
  /\ Fields(c) /\ c.sales = b.sales /\ c.queue = b.queue /\ c.liquid = b.liquid
  /\ c.deposited = b.deposited - b.nfts[t].deposited /\ c.value = b.value - b.nfts[t].nav
  /\ c.donations = b.donations /\ c.positions = b.positions /\ c.pnl = b.pnl
  /\ DOMAIN c.nfts = DOMAIN b.nfts \ {t}
  /\ \A x \in DOMAIN c.nfts : c.nfts[x] = b.nfts[x]

\* redeemNft takes the NFT out, with its deposit and its nav.
LEMMA RemovedFields ==
  ASSUME NEW b, NEW t, Fields(b)
  PROVE  RemovesFrom(b, Removed(b, t), t)
<1>1. PICK n, x, y : /\ n = Restrict(b.nfts, DOMAIN b.nfts \ {t})
                     /\ x = b.deposited - b.nfts[t].deposited /\ y = b.value - b.nfts[t].nav
  OBVIOUS
<1>2. Removed(b, t) = [b EXCEPT !.nfts = n, !.deposited = x, !.value = y]
  BY <1>1 DEF Removed
<1>3. DOMAIN n = DOMAIN b.nfts \ {t} /\ \A z \in DOMAIN n : n[z] = b.nfts[z]
  BY <1>1 DEF Restrict
<1> QED
  BY <1>1, <1>2, <1>3 DEF RemovesFrom, Fields

\* The functions that touch no NFT.
SameNfts(b, c) == c.nfts = b.nfts /\ c.deposited = b.deposited /\ c.value = b.value

SameHoldings(b, c) == SameNfts(b, c) /\ c.donations = b.donations

-----------------------------------------------------------------------------
\* A function of the ledger makes a blob of a blob.

\* A deposit keeps the types if the NFTs keep theirs.
LEMMA TypeDeposited ==
  ASSUME NEW b, NEW c, NEW s \in DOMAIN b.sales, NEW amount \in Int, BlobOK(b),
         DepositsInto(b, c, s, amount), DOMAIN c.nfts \subseteq TokenId,
         \A t \in DOMAIN c.nfts : c.nfts[t] \in Nft
  PROVE  BlobOK(c)
<1>1. DOMAIN c.sales = DOMAIN b.sales
  BY DEF DepositsInto
<1>2. \A x \in DOMAIN c.sales : c.sales[x] \in Sale
  <2> TAKE x \in DOMAIN c.sales
  <2>1. PICK old : old = b.sales[x]
    OBVIOUS
  <2>2. old \in Sale /\ c.sales[x] \in {old, [old EXCEPT !.status = "paid"]}
    BY <1>1, <2>1 DEF DepositsInto, BlobOK
  <2> QED
    BY <2>2 DEF Sale
<1> QED
  BY <1>1, <1>2 DEF DepositsInto, BlobOK

\* A completed purchase keeps the types.
LEMMA TypeCompleted ==
  ASSUME NEW b, NEW s \in DOMAIN b.sales, NEW t \in TokenId, NEW amount \in Int,
         BlobOK(b), Fields(b)
  PROVE  BlobOK(Minted(b, s, t, amount)) /\ BlobOK(CompleteSale(b, s, t, amount))
<1> DEFINE c == Minted(b, s, t, amount)
<1>1. DepositsInto(b, c, s, amount) /\ c.nfts = Put(b.nfts, t, NewNft(b, s, amount))
  BY MintedFields
<1>2. NewNft(b, s, amount) \in Nft
  <2>1. Cardinality(DOMAIN b.nfts) \in Nat
    BY TokensFinite, FS_CardinalityType DEF BlobOK
  <2>2. Cardinality(DOMAIN b.nfts) + 1 \in Nat /\ b.sales[s].buyer \in Wallet
    BY <2>1 DEF BlobOK, Sale
  <2> QED
    BY <2>2 DEF NewNft, Nft
<1> HIDE DEF c
<1>3. DOMAIN c.nfts \subseteq TokenId /\ \A x \in DOMAIN c.nfts : c.nfts[x] \in Nft
  BY <1>1, <1>2 DEF Put, BlobOK
<1>4. BlobOK(c) /\ Fields(c)
  BY <1>1, <1>3, TypeDeposited DEF DepositsInto
<1> QED
  BY <1>4, TypeRecalculated DEF CompleteSale, c

\* A completed top-up keeps the types.
LEMMA TypeFundsAdded ==
  ASSUME NEW b, NEW s \in DOMAIN b.sales, NEW amount \in Int, BlobOK(b), Fields(b)
  PROVE  BlobOK(ToppedUp(b, s, amount)) /\ BlobOK(AddFundsToNft(b, s, amount))
<1> DEFINE c == ToppedUp(b, s, amount)
           t == b.sales[s].target
<1>1. DepositsInto(b, c, s, amount) /\ TopsUp(b, c, t, amount)
  BY ToppedUpFields
<1> HIDE DEF c, t
<1>2. DOMAIN c.nfts = DOMAIN b.nfts
  BY <1>1 DEF TopsUp
<1>3. \A x \in DOMAIN c.nfts : c.nfts[x] \in Nft
  <2> TAKE x \in DOMAIN c.nfts
  <2>1. PICK old : old = b.nfts[x]
    OBVIOUS
  <2>2. old \in Nft /\ c.nfts[x] \in {old, TopUp(old, amount)}
    BY <1>1, <1>2, <2>1 DEF TopsUp, BlobOK
  <2>3. PICK d, n : d = old.deposited + amount /\ n = old.nav + amount
    OBVIOUS
  <2>4. d \in Int /\ n \in Int
    BY <2>2, <2>3 DEF Nft
  <2>5. TopUp(old, amount) = [old EXCEPT !.deposited = d, !.nav = n]
    BY <2>3 DEF TopUp
  <2> QED
    BY <2>2, <2>4, <2>5 DEF Nft
<1>4. DOMAIN c.nfts \subseteq TokenId /\ Fields(c)
  BY <1>1, <1>2 DEF BlobOK, DepositsInto
<1>5. BlobOK(c)
  BY <1>1, <1>3, <1>4, TypeDeposited
<1> QED
  BY <1>4, <1>5, TypeRecalculated DEF AddFundsToNft, c

\* A redeemed NFT leaves the types.
LEMMA TypeRedeemed ==
  ASSUME NEW b, NEW t \in DOMAIN b.nfts, BlobOK(b), Fields(b)
  PROVE  BlobOK(Removed(b, t)) /\ BlobOK(RedeemNft(b, t))
<1> DEFINE c == Removed(b, t)
<1>1. RemovesFrom(b, c, t)
  BY RemovedFields
<1> HIDE DEF c
<1>2. b.nfts[t].deposited \in Int /\ b.nfts[t].nav \in Int
  BY DEF BlobOK, Nft
<1>3. BlobOK(c) /\ Fields(c)
  BY <1>1, <1>2 DEF RemovesFrom, BlobOK
<1> QED
  BY <1>3, TypeRecalculated DEF RedeemNft, c

\* A new sale is a sale.
LEMMA TypeOpened ==
  ASSUME NEW b, NEW s \in SaleId, NEW w \in Wallet, NEW price \in Int,
         NEW target \in {NoToken} \cup TokenId, BlobOK(b), Fields(b)
  PROVE  BlobOK(OpenSale(b, s, w, price, target)) /\ Fields(OpenSale(b, s, w, price, target))
<1> DEFINE sale == [buyer |-> w, price |-> price, status |-> "awaiting_payment",
                    target |-> target]
<1>1. PICK x : x = Put(b.sales, s, sale)
  OBVIOUS
<1>2. OpenSale(b, s, w, price, target) = [b EXCEPT !.sales = x]
  BY <1>1 DEF OpenSale
<1>3. sale \in Sale
  BY DEF Sale
<1>4. DOMAIN x \subseteq SaleId /\ \A y \in DOMAIN x : x[y] \in Sale
  BY <1>1, <1>3 DEF Put, BlobOK
<1> QED
  BY <1>2, <1>4 DEF Fields, BlobOK

\* A new request is a request.
LEMMA TypeRequestAdded ==
  ASSUME NEW b, NEW r \in RequestId, NEW t \in TokenId, NEW net \in Int,
         NEW status \in {"queued", "fulfilled"}, BlobOK(b), Fields(b)
  PROVE  /\ BlobOK(AddRequest(b, r, t, net, status)) /\ Fields(AddRequest(b, r, t, net, status))
         /\ AddRequest(b, r, t, net, status).liquid = b.liquid
<1> DEFINE request == [token |-> t, net |-> net, status |-> status]
<1>1. PICK x : x = Put(b.queue, r, request)
  OBVIOUS
<1>2. AddRequest(b, r, t, net, status) = [b EXCEPT !.queue = x]
  BY <1>1 DEF AddRequest
<1>3. request \in Request
  BY DEF Request
<1>4. DOMAIN x \subseteq RequestId /\ \A y \in DOMAIN x : x[y] \in Request
  BY <1>1, <1>3 DEF Put, BlobOK
<1> QED
  BY <1>2, <1>4 DEF Fields, BlobOK

\* Another liquid balance keeps the types.
LEMMA TypeLiquid ==
  ASSUME NEW b, NEW x \in Int, BlobOK(b), Fields(b)
  PROVE  BlobOK([b EXCEPT !.liquid = x])
BY DEF BlobOK, Fields

\* A recorded payout keeps the types.
LEMMA TypeRecorded ==
  ASSUME NEW b, NEW r \in RequestId, NEW t \in TokenId, NEW net \in Int, BlobOK(b), Fields(b)
  PROVE  BlobOK(RecordFulfilled(b, r, t, net))
<1> DEFINE a == AddRequest(b, r, t, net, "fulfilled")
<1>1. BlobOK(a) /\ Fields(a)
  BY TypeRequestAdded
<1>2. RecordFulfilled(b, r, t, net) = [a EXCEPT !.liquid = a.liquid - net]
  BY DEF RecordFulfilled
<1>3. a.liquid - net \in Int
  BY <1>1 DEF BlobOK
<1> HIDE DEF a
<1> QED
  BY <1>1, <1>2, <1>3, TypeLiquid

\* Sales that expire stay sales.
LEMMA TypeSalesExpired ==
  ASSUME NEW b, NEW late, BlobOK(b), Fields(b)
  PROVE  BlobOK(ExpireStalePendingSales(b, late))
<1>1. PICK x : x = [s \in DOMAIN b.sales |->
                      IF b.sales[s].status = "awaiting_payment" /\ s \in late
                      THEN [b.sales[s] EXCEPT !.status = "expired"] ELSE b.sales[s]]
  OBVIOUS
<1>2. ExpireStalePendingSales(b, late) = [b EXCEPT !.sales = x]
  BY <1>1 DEF ExpireStalePendingSales
<1>3. DOMAIN x = DOMAIN b.sales /\ \A s \in DOMAIN x : x[s] \in Sale
  BY <1>1 DEF BlobOK, Sale
<1> QED
  BY <1>2, <1>3 DEF Fields, BlobOK

\* Requests that expire stay requests.
LEMMA TypeRequestsExpired ==
  ASSUME NEW b, NEW rs, BlobOK(b), Fields(b)
  PROVE  BlobOK(ExpireRequests(b, rs))
<1>1. PICK x : x = [r \in DOMAIN b.queue |->
                      IF r \in rs THEN [b.queue[r] EXCEPT !.status = "expired"] ELSE b.queue[r]]
  OBVIOUS
<1>2. ExpireRequests(b, rs) = [b EXCEPT !.queue = x]
  BY <1>1 DEF ExpireRequests
<1>3. DOMAIN x = DOMAIN b.queue /\ \A r \in DOMAIN x : x[r] \in Request
  BY <1>1 DEF BlobOK, Request
<1> QED
  BY <1>2, <1>3 DEF Fields, BlobOK

\* An element leaves a sequence.
LEMMA RemovedSeq ==
  ASSUME NEW S, NEW p \in Seq(S), NEW i \in DOMAIN p
  PROVE  RemoveAt(p, i) \in Seq(S)
<1> DEFINE before == SubSeq(p, 1, i - 1)
           after  == SubSeq(p, i + 1, Len(p))
<1>1. Len(p) \in Nat /\ i \in 1..Len(p) /\ \A k \in 1..Len(p) : p[k] \in S
  OBVIOUS
<1>2. /\ \A k \in 1..(i - 1) : k \in 1..Len(p)
      /\ \A k \in (i + 1)..Len(p) : k \in 1..Len(p)
      /\ i - 1 \in Int /\ i + 1 \in Int
  BY <1>1
<1>3. before \in Seq(S) /\ after \in Seq(S)
  BY <1>1, <1>2, SubSeqProperties
<1>4. RemoveAt(p, i) = before \o after
  BY DEF RemoveAt
<1> QED
  BY <1>3, <1>4

\* A trade keeps the types.
LEMMA TypeTraded ==
  ASSUME NEW b, NEW c \in Traded(b), BlobOK(b), Fields(b)
  PROVE  BlobOK(c)
<1>1. ASSUME NEW a \in TradeAmounts, c = Buy(b, a) PROVE BlobOK(c)
  <2>1. PICK x, y : x = Append(b.positions, a) /\ y = b.liquid - a
    OBVIOUS
  <2>2. c = [b EXCEPT !.positions = x, !.liquid = y]
    BY <1>1, <2>1 DEF Buy
  <2>3. x \in Seq(Nat) /\ y \in Int
    BY <2>1, FundBounds DEF BlobOK
  <2> QED
    BY <2>2, <2>3 DEF BlobOK, Fields
<1>2. ASSUME NEW i \in DOMAIN b.positions, NEW g \in Gains, c = Sell(b, i, g) PROVE BlobOK(c)
  <2>1. PICK x, y, z : /\ x = RemoveAt(b.positions, i) /\ y = b.liquid + b.positions[i] + g
                       /\ z = b.pnl + g
    OBVIOUS
  <2>2. c = [b EXCEPT !.positions = x, !.liquid = y, !.pnl = z]
    BY <1>2, <2>1 DEF Sell
  <2>3. b.positions[i] \in Nat /\ g \in Int /\ b.liquid \in Int /\ b.pnl \in Int
    BY FundBounds DEF BlobOK
  <2>4. x \in Seq(Nat)
    BY <2>1, RemovedSeq DEF BlobOK
  <2>5. y \in Int /\ z \in Int
    BY <2>1, <2>3
  <2> QED
    BY <2>2, <2>4, <2>5 DEF BlobOK, Fields
<1> QED
  BY <1>1, <1>2, TradedCases

\* A pool marked to market has a whole value.
LEMMA TypeMarked ==
  ASSUME NEW b, NEW g \in Gains, BlobOK(b), Fields(b)
  PROVE  BlobOK(Marked(b, g)) /\ Fields(Marked(b, g)) /\ BlobOK(MarkToMarket(b, g))
<1>1. PICK x : x = b.deposited + g + b.pnl
  OBVIOUS
<1>2. Marked(b, g) = [b EXCEPT !.value = x]
  BY <1>1 DEF Marked
<1>3. x \in Int
  BY <1>1, FundBounds DEF BlobOK
<1>4. BlobOK(Marked(b, g)) /\ Fields(Marked(b, g))
  BY <1>2, <1>3 DEF BlobOK, Fields
<1> QED
  BY <1>4, TypeRecalculated DEF MarkToMarket

\* What a withdrawal pays is a whole number.
LEMMA TypeNet == ASSUME NEW b, NEW t \in DOMAIN b.nfts, BlobOK(b) PROVE NetUsdc(b, t) \in Int
<1>1. PICK nav, cut : /\ nav = b.nfts[t].nav
                      /\ cut = IF b.liquid >= nav THEN InstantCutPct ELSE ShortCutPct
  OBVIOUS
<1>2. nav \in Int /\ cut \in Int
  BY <1>1, LedgerBounds DEF BlobOK, Nft
<1>3. nav * (100 - cut) \in Int
  BY <1>2
<1>4. (nav * (100 - cut)) \div 100 \in Int
  BY <1>3
<1> QED
  BY <1>1, <1>4 DEF NetUsdc

\* The empty blob is typed.
LEMMA TypeEmpty == BlobOK(EmptyBlob)
<1>1. DOMAIN << >> = {} /\ << >> \in Seq(Nat)
  OBVIOUS
<1> QED
  BY <1>1 DEF EmptyBlob, BlobOK

-----------------------------------------------------------------------------
\* The type invariant.  What a redemption or an offer holds between two steps is
\* typed too, for a later step saves it.
Handed ==
  /\ withdrawing \subseteq Paper
  /\ fulfil = [pc |-> fulfil.pc, todo |-> fulfil.todo, current |-> fulfil.current,
               liquid |-> fulfil.liquid]
  /\ fulfil.pc \in {"idle", "redeemed", "saved"}
  /\ fulfil.todo \subseteq Paper /\ fulfil.liquid \in Int
  /\ fulfil.pc = "redeemed" => fulfil.current \in Paper
  /\ trader.pc \in {"idle", "synced", "asked", "trading"}
  /\ \A i \in Slot : offer[i] # NoOffer => offer[i].wallet \in Wallet /\ offer[i].price \in Int
  /\ payouts \in [TokenId -> Nat]

Outside ==
  /\ chain \in Nat /\ seen \in Nat /\ refetched \in Nat
  /\ inflight \subseteq mined /\ taken \subseteq mined
  /\ mined \subseteq Transfer /\ IsFiniteSet(mined)
  /\ saleLate \subseteq SaleId /\ requestLate \subseteq RequestId
  /\ drawn \in [DrawnKinds -> Nat]

TInv == (\A b \in Blobs : BlobOK(b)) /\ Outside /\ Handed

\* The store is a typed blob, and so is what a slow handler holds.
LEMMA Typed ==
  ASSUME IInv, TInv
  PROVE  /\ BlobOK(store) /\ Fields(store) /\ BlobOK(trader.held) /\ Fields(trader.held)
         /\ \A i \in Slot : BlobOK(offer[i].held) /\ Fields(offer[i].held)
BY DEF IInv, TInv, Blobs, Sound, Shape

\* An id that is drawn is within its bound.
LEMMA DrawnId ==
  ASSUME Outside, NEW kind \in DrawnKinds, NEW max \in Nat, Draw(kind, max)
  PROVE  drawn[kind] + 1 \in 1..max
<1>1. drawn[kind] \in Nat /\ drawn[kind] < max
  BY DrawnOne DEF Outside
<1> QED
  BY <1>1

\* Opening a sale saves a typed blob.
LEMMA TypeSales ==
  ASSUME IInv, TInv, OpenSales
  PROVE  BlobOK(store')
<1>1. PICK w \in Wallet, t \in {NoToken} \cup TokenId, a \in Int :
        Draw("sale", MaxSale) /\ store' = OpenSale(store, drawn.sale + 1, w, a, t)
  BY FundBounds DEF OpenSales, HandleBuy, HandleAddFunds
<1>2. drawn.sale + 1 \in SaleId
  BY <1>1, Kinds, LedgerBounds, DrawnId DEF TInv, SaleId
<1> QED
  BY <1>1, <1>2, Typed, TypeOpened

\* Judging an offer saves a typed blob, the one it was handed at the start.
LEMMA TypeOffers ==
  ASSUME IInv, TInv, Offers
  PROVE  BlobOK(store')
<1>1. ASSUME NEW i \in Slot, AcceptOffer(i) PROVE BlobOK(store')
  <2>1. /\ Draw("sale", MaxSale) /\ offer[i].wallet \in Wallet /\ offer[i].price \in Int
        /\ store' = OpenSale(offer[i].held, drawn.sale + 1, offer[i].wallet, offer[i].price,
                             NoToken)
    BY <1>1 DEF AcceptOffer, TInv, Handed
  <2>2. drawn.sale + 1 \in SaleId
    BY <2>1, Kinds, LedgerBounds, DrawnId DEF TInv, SaleId
  <2> QED
    BY <2>1, <2>2, Typed, TypeOpened
<1> QED
  BY <1>1, Typed DEF Offers, HandleOffer, DeclineOffer

\* The balance that is synced is a whole number.
LEMMA SyncedInt ==
  ASSUME IInv, TInv
  PROVE  SyncedLiquid(store) \in Int
<1>1. store.liquid \in Int /\ seen \in Int
  BY Typed DEF TInv, Outside, BlobOK
<1> QED
  BY <1>1 DEF SyncedLiquid, Bigger

\* A payment saves a typed blob.
LEMMA TypePayment ==
  ASSUME IInv, PInv, TInv, Payment
  PROVE  BlobOK(store')
<1>1. CASE BalanceSync
  BY <1>1, Typed, SyncedInt, TypeLiquid DEF BalanceSync
<1>2. ASSUME NEW tr \in inflight, OnInboundTransfer(tr) PROVE BlobOK(store')
  <2>1. tr.amount \in Payments /\ tr.amount \in Nat
    BY FundBounds DEF TInv, Outside, Transfer
  <2>2. CASE Donate(tr)
    <3>1. PICK x : x = store.donations + tr.amount
      OBVIOUS
    <3>2. x \in Int /\ store' \in {store, [store EXCEPT !.donations = x]}
      BY <2>1, <2>2, <3>1, Typed DEF Donate, BlobOK
    <3> QED
      BY <3>2, Typed DEF BlobOK, Fields
  <2>3. CASE PayForNft(tr)
    <3>1. /\ store' = CompleteSale(store, Match(store, tr), drawn.token + 1, tr.amount)
          /\ Match(store, tr) # 0 /\ Draw("token", MaxToken)
      BY <2>3 DEF PayForNft
    <3>2. drawn.token + 1 \in TokenId
      BY <3>1, Kinds, LedgerBounds, DrawnId DEF TInv, TokenId
    <3> QED
      BY <2>1, <3>1, <3>2, MatchInStore, Typed, TypeCompleted
  <2>4. CASE PayIntoNft(tr)
    <3>1. /\ store' \in {store, AddFundsToNft(store, Match(store, tr), tr.amount)}
          /\ Match(store, tr) # 0
      BY <2>4 DEF PayIntoNft
    <3> QED
      BY <2>1, <3>1, MatchInStore, Typed, TypeFundsAdded
  <2> QED
    BY <1>2, <2>2, <2>3, <2>4, Typed DEF OnInboundTransfer, IgnoreTransfer
<1> QED
  BY <1>1, <1>2, Typed DEF Payment, Pay, PollBaseUsdc

\* A withdrawal and a fulfilment pass save typed blobs.
LEMMA TypeRedemption ==
  ASSUME IInv, TInv, Redemption
  PROVE  BlobOK(store')
<1>1. ASSUME NEW w \in Wallet, NEW t \in TokenId, QueueWithdrawal(w, t) PROVE BlobOK(store')
  <2>1. /\ store' = AddRequest(store, drawn.request + 1, t, NetUsdc(store, t), "queued")
        /\ Draw("request", MaxRequest) /\ t \in DOMAIN store.nfts
    BY <1>1 DEF QueueWithdrawal
  <2>2. drawn.request + 1 \in RequestId
    BY <2>1, Kinds, LedgerBounds, DrawnId DEF TInv, RequestId
  <2> QED
    BY <2>1, <2>2, Typed, TypeNet, TypeRequestAdded
<1>2. ASSUME NEW w \in Wallet, NEW t \in TokenId, WithdrawNow(w, t) PROVE BlobOK(store')
  BY <1>2, Typed, TypeRedeemed DEF WithdrawNow
<1>3. ASSUME NEW rd \in Paper, store' = RecordFulfilled(store, rd.id, rd.token, rd.net)
      PROVE  BlobOK(store')
  <2>1. rd.id \in RequestId /\ rd.token \in TokenId /\ rd.net \in Int
    BY DEF Paper
  <2> QED
    BY <1>3, <2>1, Typed, TypeRecorded
<1>4. CASE FulfilExpiresAll
  BY <1>4, Typed, TypeRequestsExpired DEF FulfilExpiresAll
<1>5. ASSUME NEW todo, NEW liquid, RedeemNext(todo, liquid) PROVE BlobOK(store')
  BY <1>5, Typed, TypeRedeemed DEF RedeemNext, Redeemable
<1> QED
  BY <1>1, <1>2, <1>3, <1>4, <1>5, Typed DEF Redemption, RecordWithdrawal, FulfilStart,
     FulfilRecord, FulfilNext, TInv, Handed

\* The trader saves typed blobs, the one it holds included.
LEMMA TypeTrading ==
  ASSUME IInv, TInv, Trading
  PROVE  BlobOK(store')
<1>1. CASE TraderSync
  BY <1>1, Typed, SyncedInt, TypeLiquid DEF TraderSync
<1>2. ASSUME NEW g \in Gains, MarkPositions(g) PROVE BlobOK(store')
  BY <1>2, Typed, TypeMarked DEF MarkPositions
<1>3. CASE EvaluateTraded
  BY <1>3, Typed, TypeTraded DEF EvaluateTraded
<1> QED
  BY <1>1, <1>2, <1>3, Typed DEF Trading, EvaluateStart, EvaluateRefused, EvaluateSkipped,
     EvaluateDecided

\* Every step saves a typed blob.
LEMMA TypeStore ==
  ASSUME IInv, PInv, TInv, [Next]_vars
  PROVE  BlobOK(store')
<1>1. CASE Clock \/ UNCHANGED vars
  BY <1>1, Typed, TypeSalesExpired DEF Clock, SalePasses, RequestPasses, CleanupSales, Restart, vars
<1> QED
  BY <1>1, TypeSales, TypeOffers, TypePayment, TypeRedemption, TypeTrading DEF Next

Amounts(transfers) == [tr \in transfers |-> tr.amount]

\* Finitely many transfers have a sum.
LEMMA AmountsFinite ==
  ASSUME NEW S, S \subseteq Transfer, IsFiniteSet(S)
  PROVE  /\ DOMAIN Amounts(S) = S
         /\ \A tr \in S : Amounts(S)[tr] = tr.amount /\ tr.amount \in Nat
         /\ AmountOf(S) = SumFunction(Amounts(S)) /\ AmountOf(S) \in Nat
<1>1. DOMAIN Amounts(S) = S /\ \A tr \in S : Amounts(S)[tr] = tr.amount
  BY DEF Amounts
<1>2. \A tr \in S : tr.amount \in Nat
  BY FundBounds DEF Transfer
<1>3. SumFunction(Amounts(S)) \in Nat
  BY <1>1, <1>2, SumFunctionNat
<1>4. AmountOf(S) = SumFunction(Amounts(S))
  BY DEF AmountOf, Amounts
<1> QED
  BY <1>1, <1>2, <1>3, <1>4

\* No transfers, no amount.
LEMMA NoAmount == AmountOf({}) = 0
BY SumEmpty DEF AmountOf

\* Fewer transfers are worth no more.
LEMMA AmountsWithin ==
  ASSUME NEW T, T \subseteq Transfer, IsFiniteSet(T), NEW S \in SUBSET T
  PROVE  /\ IsFiniteSet(S) /\ AmountOf(S) \in Nat /\ AmountOf(T) \in Nat
         /\ AmountOf(S) <= AmountOf(T)
<1>1. IsFiniteSet(S) /\ S \subseteq Transfer
  BY FS_Subset
<1>2. AmountOf(S) = SumFunctionOnSet(Amounts(S), S) /\ AmountOf(T) = SumFunctionOnSet(Amounts(T), T)
  BY <1>1, AmountsFinite DEF SumFunction
<1>3. SumFunctionOnSet(Amounts(S), S) = SumFunctionOnSet(Amounts(T), S)
  <2>1. \A tr \in S : Amounts(S)[tr] = Amounts(T)[tr]
    BY DEF Amounts
  <2> QED
    BY <1>1, <2>1, SumSame
<1>4. SumFunctionOnSet(Amounts(T), S) <= SumFunctionOnSet(Amounts(T), T)
  BY AmountsFinite, SumWithin
<1> QED
  BY <1>1, <1>2, <1>3, <1>4, AmountsFinite

\* Every step keeps the types of the chain, the clock and the counters.
LEMMA TypeOutside ==
  ASSUME IInv, PInv, TInv, [Next]_vars
  PROVE  Outside'
<1>1. drawn' \in [DrawnKinds -> Nat]
  BY StepPurchases DEF PInv
<1>2. CASE UNCHANGED env
  BY <1>1, <1>2 DEF env, fetches, TInv, Outside
<1>3. ASSUME NEW w \in Wallet, NEW a \in Payments, NEW m \in Memos, Pay(w, a, m) PROVE Outside'
  <2>1. drawn.payment + 1 \in 1..MaxPayment
    BY <1>3, Kinds, FundBounds, DrawnId DEF Pay, TInv
  <2>2. [from |-> w, amount |-> a, memo |-> m, id |-> drawn.payment + 1] \in Transfer
    BY <2>1 DEF Transfer
  <2>3. chain + a \in Nat
    BY FundBounds DEF TInv, Outside
  <2> QED
    BY <1>1, <1>3, <2>2, <2>3, FS_AddElement DEF Pay, TInv, Outside
<1>4. CASE PollBaseUsdc
  BY <1>1, <1>4 DEF PollBaseUsdc, fetches, TInv, Outside
<1>5. ASSUME NEW tr \in inflight, OnInboundTransfer(tr) PROVE Outside'
  BY <1>1, <1>5 DEF OnInboundTransfer, TInv, Outside
<1>6. ASSUME NEW s \in SaleId, SalePasses(s) PROVE Outside'
  BY <1>1, <1>6 DEF SalePasses, fetches, TInv, Outside
<1>7. ASSUME NEW r \in RequestId, RequestPasses(r) PROVE Outside'
  BY <1>1, <1>7 DEF RequestPasses, fetches, TInv, Outside
<1>8. CASE Restart
  <2>1. AmountOf(taken \ inflight) \in Nat
    BY AmountsWithin DEF TInv, Outside
  <2> QED
    BY <1>1, <1>8, <2>1 DEF Restart, StartAtHead, StartAtGenesis, TInv, Outside
<1>9. CASE UNCHANGED vars
  BY <1>2, <1>9 DEF vars
<1> QED
  BY <1>2, <1>3, <1>4, <1>5, <1>6, <1>7, <1>8, <1>9 DEF Next, OpenSales, HandleBuy,
     HandleAddFunds, Offers, HandleOffer, AcceptOffer, DeclineOffer, Payment, BalanceSync,
     Redemption, QueueWithdrawal, WithdrawNow, RecordWithdrawal, FulfilExpiresAll, FulfilStart,
     FulfilRecord, FulfilNext, Trading, TraderSync, EvaluateStart, EvaluateRefused,
     EvaluateSkipped, EvaluateTraded, EvaluateDecided, MarkPositions, Clock, CleanupSales

\* A payout counts one redemption more.
LEMMA PaidOut ==
  ASSUME payouts \in [TokenId -> Nat], NEW t \in TokenId, payouts' = [payouts EXCEPT ![t] = @ + 1]
  PROVE  payouts' \in [TokenId -> Nat]
OBVIOUS

\* The pass takes a request off a list of papers.
LEMMA HandedNext ==
  ASSUME TInv, NEW todo, NEW liquid \in Int, todo \subseteq Paper, RedeemNext(todo, liquid),
         UNCHANGED <<withdrawing, offer, trader, payouts>>
  PROVE  Handed'
<1>1. PICK q \in todo : fulfil' = [pc |-> "redeemed", current |-> q, liquid |-> liquid,
                                   todo |-> {p \in todo : p.id > q.id}]
  BY DEF RedeemNext, Redeemable
<1>2. fulfil'.todo \subseteq Paper /\ fulfil'.current \in Paper
  BY <1>1
<1> QED
  BY <1>1, <1>2 DEF TInv, Handed

\* A redemption under way keeps typed papers.
LEMMA HandedRedemption ==
  ASSUME IInv, TInv, Redemption
  PROVE  Handed'
<1>1. ASSUME NEW w \in Wallet, NEW t \in TokenId, WithdrawNow(w, t) PROVE Handed'
  <2>1. drawn.request + 1 \in RequestId
    BY <1>1, Kinds, LedgerBounds, DrawnId DEF TInv, RequestId, WithdrawNow
  <2>2. [id |-> drawn.request + 1, token |-> t, net |-> NetUsdc(store, t)] \in Paper
    BY <1>1, <2>1, Typed, TypeNet DEF Paper, WithdrawNow
  <2> QED
    BY <1>1, <2>2 DEF WithdrawNow, TInv, Handed
<1>2. ASSUME NEW rd \in withdrawing, RecordWithdrawal(rd) PROVE Handed'
  <2>1. rd.token \in TokenId
    BY DEF TInv, Handed, Paper
  <2>2. payouts' \in [TokenId -> Nat]
    BY <1>2, <2>1, PaidOut DEF RecordWithdrawal, TInv, Handed
  <2> QED
    BY <1>2, <2>2 DEF RecordWithdrawal, TInv, Handed
<1>3. CASE FulfilStart
  <2>1. Pending \subseteq Paper
    <3>1. \A r \in DOMAIN store.queue : store.queue[r] \in Request /\ r \in RequestId
      BY Typed DEF BlobOK
    <3> QED
      BY <3>1 DEF Pending, Queued, Paper, Request
  <2>2. store.liquid \in Int
    BY Typed DEF BlobOK
  <2> QED
    BY <1>3, <2>1, <2>2, HandedNext DEF FulfilStart
<1>4. CASE FulfilRecord
  <2>1. fulfil.current \in Paper
    BY <1>4 DEF FulfilRecord, TInv, Handed
  <2>2. fulfil.current.token \in TokenId /\ fulfil.current.net \in Int /\ store.liquid \in Int
    BY <2>1, Typed DEF Paper, BlobOK
  <2>3. payouts' \in [TokenId -> Nat]
    BY <1>4, <2>2, PaidOut DEF FulfilRecord, TInv, Handed
  <2>4. PICK x : x = store.liquid - fulfil.current.net
    OBVIOUS
  <2>5. x \in Int /\ fulfil' = [fulfil EXCEPT !.pc = "saved", !.current = NoRequest, !.liquid = x]
    BY <1>4, <2>2, <2>4 DEF FulfilRecord
  <2> QED
    BY <1>4, <2>3, <2>5 DEF FulfilRecord, TInv, Handed
<1>5. CASE FulfilNext
  BY <1>5, HandedNext DEF FulfilNext, TInv, Handed, IdleFulfil
<1> QED
  BY <1>1, <1>2, <1>3, <1>4, <1>5 DEF Redemption, QueueWithdrawal, FulfilExpiresAll, workers,
     TInv, Handed

\* An offer under way keeps its wallet and its price.
LEMMA HandedOffers ==
  ASSUME IInv, TInv, Offers
  PROVE  Handed'
<1>1. ASSUME NEW i \in Slot, NEW w \in Wallet, NEW p \in OfferPrices, HandleOffer(i, w, p)
      PROVE  Handed'
  <2>1. \A j \in Slot : offer'[j] = IF j = i THEN [wallet |-> w, price |-> p, held |-> store]
                                            ELSE offer[j]
    BY <1>1 DEF IInv, HandleOffer
  <2>2. p \in Int
    BY FundBounds
  <2>3. \A j \in Slot :
          offer'[j] # NoOffer => offer'[j].wallet \in Wallet /\ offer'[j].price \in Int
    BY <2>1, <2>2 DEF TInv, Handed
  <2> QED
    BY <1>1, <2>3 DEF HandleOffer, TInv, Handed
<1>2. ASSUME NEW i \in Slot, AcceptOffer(i) \/ DeclineOffer(i) PROVE Handed'
  <2>1. \A j \in Slot : offer'[j] \in {offer[j], NoOffer}
    BY <1>2 DEF AcceptOffer, DeclineOffer, IInv
  <2>2. \A j \in Slot :
          offer'[j] # NoOffer => offer'[j].wallet \in Wallet /\ offer'[j].price \in Int
    BY <2>1 DEF TInv, Handed
  <2> QED
    BY <1>2, <2>2 DEF AcceptOffer, DeclineOffer, TInv, Handed
<1> QED
  BY <1>1, <1>2 DEF Offers

\* Every step keeps the types of what is under way.
LEMMA TypeHanded ==
  ASSUME IInv, TInv, [Next]_vars
  PROVE  Handed'
<1>1. CASE UNCHANGED workers /\ UNCHANGED payouts
  BY <1>1 DEF workers, TInv, Handed
<1>2. CASE Trading
  <2>1. trader'.pc \in {"idle", "synced", "asked", "trading"}
    BY <1>2 DEF Trading, TraderSync, EvaluateStart, EvaluateRefused, EvaluateSkipped, IInv,
       EvaluateTraded, EvaluateDecided, MarkPositions, IdleTrader, workers, TInv, Handed
  <2>2. UNCHANGED <<withdrawing, fulfil, offer, payouts>>
    BY <1>2 DEF Trading, TraderSync, EvaluateStart, EvaluateRefused, EvaluateSkipped,
       EvaluateTraded, EvaluateDecided, MarkPositions, workers
  <2> QED
    BY <2>1, <2>2 DEF TInv, Handed
<1>3. CASE Restart
  BY <1>3 DEF Restart, TInv, Handed, IdleFulfil, IdleTrader
<1>4. CASE UNCHANGED vars
  BY <1>1, <1>4 DEF vars
<1> QED
  BY <1>1, <1>2, <1>3, <1>4, HandedOffers, HandedRedemption DEF Next, OpenSales, HandleBuy,
     HandleAddFunds, Payment, Pay, PollBaseUsdc, BalanceSync, OnInboundTransfer, Clock, SalePasses,
     RequestPasses, CleanupSales

\* The types hold at the start.
LEMMA InitTypes == Init => TInv
<1> SUFFICES ASSUME Init PROVE TInv
  OBVIOUS
<1>1. \A b \in Blobs : b = EmptyBlob
  BY DEF Init, Blobs, NoOffer, IdleTrader
<1>2. \A b \in Blobs : BlobOK(b)
  BY <1>1, TypeEmpty
<1>3. Outside
  <2>1. IsFiniteSet(mined)
    BY FS_EmptySet DEF Init
  <2> QED
    BY <2>1 DEF Init, Outside, DrawnKinds
<1>4. Handed
  BY DEF Init, Handed, IdleFulfil, IdleTrader
<1> QED
  BY <1>2, <1>3, <1>4 DEF TInv

\* The types are kept.
LEMMA StepTypes == ASSUME IInv, PInv, TInv, [Next]_vars PROVE TInv'
<1>1. \A b \in Blobs' : BlobOK(b)
  BY TypeStore, TypeEmpty, BlobsKept DEF TInv
<1> QED
  BY <1>1, TypeOutside, TypeHanded DEF TInv

\* Every blob, stored or held, and every other variable has its type: no step
\* saves a sale, an NFT or a request that is not one.
THEOREM WellTyped == Spec => []TypeOK
<1>1. IInv /\ PInv /\ TInv /\ [Next]_vars => TInv'
  BY StepTypes
<1>2. TInv => TypeOK
  BY DEF TInv, Outside, Handed, TypeOK
<1> QED
  BY <1>1, <1>2, InitTypes, InitPurchases, StepPurchases, Invariance, PTL DEF Spec

-----------------------------------------------------------------------------
(***************************************************************************)
(* What a step does to the amounts of the store: it saves the amounts of   *)
(* one of the blobs, credits a transfer to the donations or to an NFT,     *)
(* redeems an NFT, or marks the pool to market.                            *)
(***************************************************************************)
Takes(tr) ==
  /\ tr \in inflight /\ inflight' = inflight \ {tr} /\ taken' = taken \cup {tr}
  /\ mined' = mined /\ chain' = chain /\ refetched' = refetched

Donates(tr) ==
  /\ Takes(tr)
  /\ SameNfts(store, store') /\ store'.donations = store.donations + tr.amount

Buys(tr, s) ==
  /\ Takes(tr) /\ s \in DOMAIN store.sales /\ Draw("token", MaxToken)
  /\ store' = CompleteSale(store, s, drawn.token + 1, tr.amount)

Adds(tr, s) ==
  /\ Takes(tr) /\ s \in DOMAIN store.sales /\ store.sales[s].target \in DOMAIN store.nfts
  /\ store' = AddFundsToNft(store, s, tr.amount)

Redeems(t) == t \in DOMAIN store.nfts /\ store' = RedeemNft(store, t)

Marks(g) == g \in Gains /\ WholeShares(Marked(store, g)) /\ store' = MarkToMarket(store, g)

Credits ==
  \E tr \in inflight : Donates(tr) \/ \E s \in DOMAIN store.sales : Buys(tr, s) \/ Adds(tr, s)

SavesAmounts ==
  \/ \E b \in Blobs : SameHoldings(b, store')
  \/ \E t \in DOMAIN store.nfts : Redeems(t)
  \/ \E g \in Gains : Marks(g)

\* A blob has its own amounts.
LEMMA HoldingsRefl == ASSUME NEW b PROVE SameHoldings(b, b)
BY DEF SameHoldings, SameNfts

\* The functions that rewrite sales, requests and positions only.
LEMMA HoldingsOpened ==
  ASSUME NEW b, NEW s, NEW w, NEW price, NEW target, Fields(b)
  PROVE  SameHoldings(b, OpenSale(b, s, w, price, target))
<1>1. PICK x : OpenSale(b, s, w, price, target) = [b EXCEPT !.sales = x]
  BY DEF OpenSale
<1> QED
  BY <1>1 DEF SameHoldings, SameNfts, Fields

\* The liquid balance is no deposit.
LEMMA HoldingsLiquid ==
  ASSUME NEW b, NEW x, Fields(b)
  PROVE  SameHoldings(b, [b EXCEPT !.liquid = x])
BY DEF SameHoldings, SameNfts, Fields

\* A request is no deposit.
LEMMA HoldingsRequest ==
  ASSUME NEW b, NEW r, NEW t, NEW net, NEW status, Fields(b)
  PROVE  /\ SameHoldings(b, AddRequest(b, r, t, net, status))
         /\ SameHoldings(b, RecordFulfilled(b, r, t, net))
<1>1. PICK q : AddRequest(b, r, t, net, status) = [b EXCEPT !.queue = q]
  BY DEF AddRequest
<1>2. PICK x, y : RecordFulfilled(b, r, t, net) = [[b EXCEPT !.queue = x] EXCEPT !.liquid = y]
  BY DEF RecordFulfilled, AddRequest
<1> QED
  BY <1>1, <1>2 DEF SameHoldings, SameNfts, Fields

\* What expires is no deposit.
LEMMA HoldingsExpired ==
  ASSUME NEW b, NEW late, Fields(b)
  PROVE  /\ SameHoldings(b, ExpireStalePendingSales(b, late))
         /\ SameHoldings(b, ExpireRequests(b, late))
<1>1. PICK y : ExpireStalePendingSales(b, late) = [b EXCEPT !.sales = y]
  BY DEF ExpireStalePendingSales
<1>2. PICK x : ExpireRequests(b, late) = [b EXCEPT !.queue = x]
  BY DEF ExpireRequests
<1> QED
  BY <1>1, <1>2 DEF SameHoldings, SameNfts, Fields

\* A trade touches no deposit.
LEMMA HoldingsTraded ==
  ASSUME NEW b, NEW c \in Traded(b), Fields(b)
  PROVE  SameHoldings(b, c)
<1>1. ASSUME NEW a, c = Buy(b, a) PROVE SameHoldings(b, c)
  <2>1. PICK x, y : c = [b EXCEPT !.positions = x, !.liquid = y]
    BY <1>1 DEF Buy
  <2> QED
    BY <2>1 DEF SameHoldings, SameNfts, Fields
<1>2. ASSUME NEW i, NEW g, c = Sell(b, i, g) PROVE SameHoldings(b, c)
  <2>1. PICK x, y, z : c = [b EXCEPT !.positions = x, !.liquid = y, !.pnl = z]
    BY <1>2 DEF Sell
  <2> QED
    BY <2>1 DEF SameHoldings, SameNfts, Fields
<1> QED
  BY <1>1, <1>2, TradedCases, HoldingsRefl

\* A step credits a transfer, or saves amounts without one.
LEMMA AmountsSaved ==
  ASSUME IInv, PInv, TInv, [Next]_vars
  PROVE  Credits \/ SavesAmounts
<1>1. store \in Blobs /\ trader.held \in Blobs /\ \A i \in Slot : offer[i].held \in Blobs
  BY DEF Blobs
<1>2. CASE OpenSales
  BY <1>1, <1>2, Typed, HoldingsOpened DEF OpenSales, HandleBuy, HandleAddFunds, SavesAmounts
<1>3. CASE Offers
  BY <1>1, <1>3, Typed, HoldingsOpened, HoldingsRefl DEF Offers, HandleOffer, AcceptOffer,
     DeclineOffer, SavesAmounts
<1>4. ASSUME NEW tr \in inflight, OnInboundTransfer(tr) PROVE Credits \/ SavesAmounts
  <2>1. Takes(tr)
    BY <1>4 DEF OnInboundTransfer, Takes
  <2>2. CASE Donate(tr)
    <3>1. PICK x : x = store.donations + tr.amount
      OBVIOUS
    <3>2. store' = store \/ store' = [store EXCEPT !.donations = x]
      BY <2>2, <3>1 DEF Donate
    <3>3. CASE store' = [store EXCEPT !.donations = x]
      BY <2>1, <3>1, <3>3, Typed DEF Fields, Donates, SameNfts, Credits
    <3> QED
      BY <1>1, <3>2, <3>3, HoldingsRefl DEF SavesAmounts
  <2>3. CASE PayForNft(tr)
    <3>1. /\ store' = CompleteSale(store, Match(store, tr), drawn.token + 1, tr.amount)
          /\ Match(store, tr) # 0 /\ Draw("token", MaxToken)
      BY <2>3 DEF PayForNft
    <3>2. Buys(tr, Match(store, tr)) /\ Match(store, tr) \in DOMAIN store.sales
      BY <2>1, <3>1, MatchInStore DEF Buys
    <3> QED
      BY <3>2 DEF Credits
  <2>4. CASE PayIntoNft(tr)
    <3> DEFINE s == Match(store, tr)
    <3>1. /\ s \in DOMAIN store.sales
          /\ store' = IF store.sales[s].target \in DOMAIN store.nfts
                      THEN AddFundsToNft(store, s, tr.amount) ELSE store
      BY <2>4, MatchInStore DEF PayIntoNft
    <3>2. CASE store.sales[s].target \in DOMAIN store.nfts
      <4>1. Adds(tr, s)
        BY <2>1, <3>1, <3>2 DEF Adds
      <4> QED
        BY <3>1, <4>1 DEF Credits
    <3> QED
      BY <1>1, <3>1, <3>2, HoldingsRefl DEF SavesAmounts
  <2> QED
    BY <1>1, <1>4, <2>2, <2>3, <2>4, HoldingsRefl DEF OnInboundTransfer, IgnoreTransfer,
       SavesAmounts
<1>5. CASE Payment
  <2>1. CASE BalanceSync
    BY <1>1, <2>1, Typed, HoldingsLiquid DEF BalanceSync, SavesAmounts
  <2>2. CASE UNCHANGED store
    BY <1>1, <2>2, HoldingsRefl DEF SavesAmounts
  <2> QED
    BY <1>4, <1>5, <2>1, <2>2 DEF Payment, Pay, PollBaseUsdc
<1>6. CASE Redemption
  <2>1. ASSUME NEW todo, NEW liquid, RedeemNext(todo, liquid) PROVE SavesAmounts
    BY <2>1 DEF RedeemNext, Redeemable, Redeems, SavesAmounts
  <2>2. ASSUME NEW w, NEW t, WithdrawNow(w, t) PROVE SavesAmounts
    BY <2>2 DEF WithdrawNow, Redeems, SavesAmounts
  <2>3. ASSUME NEW w, NEW t, QueueWithdrawal(w, t) PROVE SavesAmounts
    BY <1>1, <2>3, Typed, HoldingsRequest DEF QueueWithdrawal, SavesAmounts
  <2>4. ASSUME NEW r, NEW t, NEW net, store' = RecordFulfilled(store, r, t, net)
        PROVE  SavesAmounts
    BY <1>1, <2>4, Typed, HoldingsRequest DEF SavesAmounts
  <2>5. CASE FulfilExpiresAll
    BY <1>1, <2>5, Typed, HoldingsExpired DEF FulfilExpiresAll, SavesAmounts
  <2>6. CASE UNCHANGED store
    BY <1>1, <2>6, HoldingsRefl DEF SavesAmounts
  <2> QED
    BY <1>6, <2>1, <2>2, <2>3, <2>4, <2>5, <2>6 DEF Redemption, RecordWithdrawal, FulfilStart,
       FulfilRecord, FulfilNext
<1>7. CASE Trading
  <2>1. ASSUME NEW g \in Gains, MarkPositions(g) PROVE SavesAmounts
    BY <2>1 DEF MarkPositions, Marks, SavesAmounts
  <2> QED
    BY <1>1, <1>7, <2>1, Typed, HoldingsTraded, HoldingsLiquid, HoldingsRefl DEF Trading,
       TraderSync, EvaluateStart, EvaluateRefused, EvaluateSkipped, EvaluateTraded,
       EvaluateDecided, SavesAmounts
<1>8. CASE Clock \/ UNCHANGED vars
  BY <1>1, <1>8, Typed, HoldingsExpired, HoldingsRefl DEF Clock, SalePasses, RequestPasses,
     CleanupSales, Restart, vars, SavesAmounts
<1> QED
  BY <1>2, <1>3, <1>5, <1>6, <1>7, <1>8 DEF Next

-----------------------------------------------------------------------------
(***************************************************************************)
(* Deposits.  What a blob credits to NFTs and donations together was       *)
(* handed over, once or again, before the blob was written: it is at most  *)
(* what was taken and is not to be fetched again, and what was fetched     *)
(* again.  That sum never shrinks, so a stale blob that is saved keeps the *)
(* promise: a restart that fetches everything again moves what was taken   *)
(* from the first part of the sum to the second.                           *)
(***************************************************************************)
Deposits(nfts) == [t \in DOMAIN nfts |-> nfts[t].deposited]

Handled == AmountOf(taken \ inflight) + refetched

\* Every deposit is an amount that was sent, and the total is their sum.
Pool(b) ==
  /\ \A t \in DOMAIN b.nfts : b.nfts[t].deposited \in Nat
  /\ b.deposited = SumOfDeposits(b.nfts)

\* Of n tokens drawn and an amount handled.
Money(b, n, amount) ==
  /\ Pool(b) /\ DOMAIN b.nfts \subseteq 1..n /\ b.donations \in Nat
  /\ SumOfDeposits(b.nfts) + b.donations <= amount

MInv ==
  /\ \A tr \in mined : tr.id <= drawn.payment
  /\ chain = AmountOf(mined)
  /\ \A b \in Blobs : Money(b, drawn.token, Handled)

\* The deposits of a typed blob can be summed.
LEMMA DepositsFinite ==
  ASSUME NEW b, BlobOK(b)
  PROVE  /\ DOMAIN Deposits(b.nfts) = DOMAIN b.nfts /\ IsFiniteSet(DOMAIN Deposits(b.nfts))
         /\ \A t \in DOMAIN b.nfts : /\ Deposits(b.nfts)[t] = b.nfts[t].deposited
                                     /\ Deposits(b.nfts)[t] \in Int
         /\ SumOfDeposits(b.nfts) = SumFunction(Deposits(b.nfts))
<1>1. /\ DOMAIN Deposits(b.nfts) = DOMAIN b.nfts
      /\ \A t \in DOMAIN b.nfts : Deposits(b.nfts)[t] = b.nfts[t].deposited
  BY DEF Deposits
<1>2. IsFiniteSet(DOMAIN b.nfts)
  BY TokensFinite DEF BlobOK
<1>3. \A t \in DOMAIN b.nfts : b.nfts[t].deposited \in Int
  BY DEF BlobOK, Nft
<1>4. SumOfDeposits(b.nfts) = SumFunction(Deposits(b.nfts))
  BY DEF SumOfDeposits, Deposits
<1> QED
  BY <1>1, <1>2, <1>3, <1>4

\* Their sum is a natural.
LEMMA DepositsNat ==
  ASSUME NEW b, BlobOK(b), Pool(b)
  PROVE  SumOfDeposits(b.nfts) \in Nat
BY DepositsFinite, SumFunctionNat DEF Pool

\* The navs are recalculated without touching a deposit.
LEMMA DepositsRecalculated ==
  ASSUME NEW b, BlobOK(b), Fields(b), Pool(b)
  PROVE  /\ Pool(RecalculateAllNavs(b)) /\ RecalculateAllNavs(b).donations = b.donations
         /\ SumOfDeposits(RecalculateAllNavs(b).nfts) = SumOfDeposits(b.nfts)
         /\ DOMAIN RecalculateAllNavs(b).nfts = DOMAIN b.nfts
<1> DEFINE c == RecalculateAllNavs(b)
<1>1. Recalculates(b, c) /\ BlobOK(c)
  BY Recalculation, TypeRecalculated
<1> HIDE DEF c
<1>2. /\ DOMAIN c.nfts = DOMAIN b.nfts /\ c.donations = b.donations
      /\ c.deposited = b.deposited
  BY <1>1 DEF Recalculates, SameButNfts
<1>3. \A t \in DOMAIN b.nfts : c.nfts[t].deposited = b.nfts[t].deposited
  <2> TAKE t \in DOMAIN b.nfts
  <2>1. PICK old : old = b.nfts[t]
    OBVIOUS
  <2>2. old \in Nft
    BY <2>1 DEF BlobOK
  <2>3. c.nfts[t] = old \/ \E x : c.nfts[t] = [old EXCEPT !.nav = x]
    BY <1>1, <2>1 DEF Recalculates
  <2> QED
    BY <2>1, <2>2, <2>3 DEF Nft
<1>4. SumOfDeposits(c.nfts) = SumOfDeposits(b.nfts)
  <2>1. /\ DOMAIN Deposits(c.nfts) = DOMAIN Deposits(b.nfts)
        /\ \A t \in DOMAIN Deposits(b.nfts) : Deposits(b.nfts)[t] = Deposits(c.nfts)[t]
    BY <1>1, <1>2, <1>3, DepositsFinite
  <2>2. SumFunction(Deposits(c.nfts)) = SumFunction(Deposits(b.nfts))
    BY <2>1, DepositsFinite, SumSameFunction
  <2> QED
    BY <1>1, <2>2, DepositsFinite
<1>5. Pool(c)
  BY <1>2, <1>3, <1>4 DEF Pool
<1> QED
  BY <1>2, <1>4, <1>5 DEF c

\* A purchase adds what was paid to the deposits.
LEMMA DepositsCompleted ==
  ASSUME NEW b, NEW s \in DOMAIN b.sales, NEW t \in TokenId, NEW amount \in Nat,
         t \notin DOMAIN b.nfts, BlobOK(b), Fields(b), Pool(b)
  PROVE  LET c == CompleteSale(b, s, t, amount)
         IN  /\ Pool(c) /\ c.donations = b.donations /\ DOMAIN c.nfts = DOMAIN b.nfts \cup {t}
             /\ SumOfDeposits(c.nfts) = SumOfDeposits(b.nfts) + amount
<1> DEFINE c == Minted(b, s, t, amount)
<1>1. DepositsInto(b, c, s, amount) /\ c.nfts = Put(b.nfts, t, NewNft(b, s, amount)) /\ BlobOK(c)
  BY MintedFields, TypeCompleted
<1> HIDE DEF c
<1>2. /\ DOMAIN c.nfts = DOMAIN b.nfts \cup {t} /\ c.nfts[t].deposited = amount
      /\ \A x \in DOMAIN b.nfts : c.nfts[x] = b.nfts[x]
  BY <1>1 DEF Put, NewNft
<1>3. SumFunction(Deposits(c.nfts)) = SumFunction(Deposits(b.nfts)) + amount
  <2>1. /\ DOMAIN Deposits(c.nfts) = DOMAIN Deposits(b.nfts) \cup {t}
        /\ t \notin DOMAIN Deposits(b.nfts) /\ Deposits(c.nfts)[t] = amount
        /\ \A x \in DOMAIN Deposits(b.nfts) : Deposits(c.nfts)[x] = Deposits(b.nfts)[x]
    BY <1>2 DEF Deposits
  <2> QED
    BY <1>1, <2>1, DepositsFinite, SumAdd
<1>4. SumOfDeposits(c.nfts) = SumOfDeposits(b.nfts) + amount
  BY <1>1, <1>3, DepositsFinite
<1>5. Pool(c) /\ Fields(c) /\ c.donations = b.donations
  BY <1>1, <1>2, <1>4 DEF Pool, DepositsInto
<1> QED
  BY <1>1, <1>2, <1>4, <1>5, DepositsRecalculated DEF CompleteSale, c

\* A top-up adds what was paid to the deposits.
LEMMA DepositsAdded ==
  ASSUME NEW b, NEW s \in DOMAIN b.sales, NEW amount \in Nat, b.sales[s].target \in DOMAIN b.nfts,
         BlobOK(b), Fields(b), Pool(b)
  PROVE  LET c == AddFundsToNft(b, s, amount)
         IN  /\ Pool(c) /\ c.donations = b.donations /\ DOMAIN c.nfts = DOMAIN b.nfts
             /\ SumOfDeposits(c.nfts) = SumOfDeposits(b.nfts) + amount
<1> DEFINE c == ToppedUp(b, s, amount)
           t == b.sales[s].target
<1>1. DepositsInto(b, c, s, amount) /\ TopsUp(b, c, t, amount) /\ BlobOK(c)
  BY ToppedUpFields, TypeFundsAdded
<1> HIDE DEF c, t
<1>2. /\ DOMAIN c.nfts = DOMAIN b.nfts /\ t \in DOMAIN b.nfts
      /\ \A x \in DOMAIN b.nfts : x # t => c.nfts[x] = b.nfts[x]
  BY <1>1 DEF TopsUp, t
<1>3. c.nfts[t].deposited = b.nfts[t].deposited + amount
  <2>1. PICK old : old = b.nfts[t]
    OBVIOUS
  <2>2. old \in Nft /\ c.nfts[t] = TopUp(old, amount)
    BY <1>1, <1>2, <2>1 DEF TopsUp, BlobOK
  <2>3. TopUp(old, amount).deposited = old.deposited + amount
    BY <2>2 DEF TopUp, Nft
  <2> QED
    BY <2>1, <2>2, <2>3
<1>4. SumFunction(Deposits(c.nfts)) = SumFunction(Deposits(b.nfts)) + amount
  <2>1. /\ DOMAIN Deposits(c.nfts) = DOMAIN Deposits(b.nfts) /\ t \in DOMAIN Deposits(b.nfts)
        /\ \A x \in DOMAIN Deposits(b.nfts) \ {t} : Deposits(c.nfts)[x] = Deposits(b.nfts)[x]
        /\ Deposits(c.nfts)[t] = Deposits(b.nfts)[t] + amount
        /\ Deposits(c.nfts)[t] \in Int /\ Deposits(b.nfts)[t] \in Int
    BY <1>1, <1>2, <1>3, DepositsFinite
  <2>2. SumFunction(Deposits(c.nfts)) =
          SumFunction(Deposits(b.nfts)) + (Deposits(c.nfts)[t] - Deposits(b.nfts)[t])
    BY <2>1, DepositsFinite, SumChange
  <2>3. Deposits(c.nfts)[t] - Deposits(b.nfts)[t] = amount
    BY <2>1
  <2> QED
    BY <2>2, <2>3
<1>5. SumOfDeposits(c.nfts) = SumOfDeposits(b.nfts) + amount
  BY <1>1, <1>4, DepositsFinite
<1>6. \A x \in DOMAIN c.nfts : c.nfts[x].deposited \in Nat
  BY <1>2, <1>3 DEF Pool
<1>7. Pool(c) /\ Fields(c) /\ c.donations = b.donations
  BY <1>1, <1>5, <1>6 DEF Pool, DepositsInto
<1> QED
  BY <1>1, <1>2, <1>5, <1>7, DepositsRecalculated DEF AddFundsToNft, c

\* A redemption takes a deposit away.
LEMMA DepositsRedeemed ==
  ASSUME NEW b, NEW t \in DOMAIN b.nfts, BlobOK(b), Fields(b), Pool(b)
  PROVE  LET c == RedeemNft(b, t)
         IN  /\ Pool(c) /\ c.donations = b.donations /\ DOMAIN c.nfts = DOMAIN b.nfts \ {t}
             /\ SumOfDeposits(c.nfts) <= SumOfDeposits(b.nfts)
<1> DEFINE c == Removed(b, t)
<1>1. RemovesFrom(b, c, t) /\ BlobOK(c)
  BY RemovedFields, TypeRedeemed
<1> HIDE DEF c
<1>2. SumFunction(Deposits(b.nfts)) = SumFunction(Deposits(c.nfts)) + b.nfts[t].deposited
  <2>1. /\ DOMAIN Deposits(b.nfts) = DOMAIN Deposits(c.nfts) \cup {t}
        /\ t \notin DOMAIN Deposits(c.nfts) /\ Deposits(b.nfts)[t] = b.nfts[t].deposited
        /\ \A x \in DOMAIN Deposits(c.nfts) : Deposits(b.nfts)[x] = Deposits(c.nfts)[x]
    BY <1>1 DEF RemovesFrom, Deposits
  <2>2. Deposits(b.nfts)[t] \in Int
    BY DepositsFinite
  <2> QED
    BY <1>1, <2>1, <2>2, DepositsFinite, SumAdd
<1>3. SumOfDeposits(b.nfts) = SumOfDeposits(c.nfts) + b.nfts[t].deposited
  BY <1>1, <1>2, DepositsFinite
<1>4. \A x \in DOMAIN c.nfts : c.nfts[x].deposited \in Nat
  BY <1>1 DEF Pool, RemovesFrom
<1>5. SumOfDeposits(c.nfts) \in Int /\ b.nfts[t].deposited \in Nat
  BY <1>1, DepositsFinite, SumFunctionInt DEF Pool
<1>6. /\ c.deposited = b.deposited - b.nfts[t].deposited /\ Fields(c)
      /\ c.donations = b.donations /\ DOMAIN c.nfts = DOMAIN b.nfts \ {t}
  BY <1>1 DEF RemovesFrom
<1>7. c.deposited = SumOfDeposits(c.nfts) /\ SumOfDeposits(c.nfts) <= SumOfDeposits(b.nfts)
  BY <1>3, <1>5, <1>6 DEF Pool
<1> QED
  BY <1>1, <1>4, <1>6, <1>7, DepositsRecalculated DEF RedeemNft, c, Pool

\* Marking to market touches no deposit.
LEMMA DepositsMarked ==
  ASSUME NEW b, NEW g \in Gains, BlobOK(b), Fields(b), Pool(b)
  PROVE  LET c == MarkToMarket(b, g)
         IN  /\ Pool(c) /\ c.donations = b.donations /\ DOMAIN c.nfts = DOMAIN b.nfts
             /\ SumOfDeposits(c.nfts) = SumOfDeposits(b.nfts)
<1> DEFINE c == Marked(b, g)
<1>1. BlobOK(c) /\ Fields(c)
  BY TypeMarked
<1>2. PICK x : c = [b EXCEPT !.value = x]
  BY DEF Marked
<1>3. c.nfts = b.nfts /\ c.deposited = b.deposited /\ c.donations = b.donations
  BY <1>2 DEF Fields
<1> HIDE DEF c
<1>4. Pool(c)
  BY <1>3 DEF Pool
<1> QED
  BY <1>1, <1>3, <1>4, DepositsRecalculated DEF MarkToMarket, c

\* One transfer more.
LEMMA AmountsAdded ==
  ASSUME NEW S, NEW T, NEW tr \in T, T \subseteq Transfer, IsFiniteSet(T), S = T \ {tr}
  PROVE  AmountOf(T) = AmountOf(S) + tr.amount
<1>1. IsFiniteSet(S) /\ S \subseteq Transfer
  BY FS_Subset
<1>2. /\ DOMAIN Amounts(T) = DOMAIN Amounts(S) \cup {tr} /\ tr \notin DOMAIN Amounts(S)
      /\ IsFiniteSet(DOMAIN Amounts(S)) /\ \A x \in DOMAIN Amounts(S) : Amounts(S)[x] \in Int
  <2>1. DOMAIN Amounts(T) = T /\ DOMAIN Amounts(S) = S
    BY DEF Amounts
  <2>2. \A x \in S : Amounts(S)[x] \in Nat
    BY <1>1, AmountsFinite
  <2> QED
    BY <1>1, <2>1, <2>2
<1>3. \A x \in DOMAIN Amounts(S) : Amounts(T)[x] = Amounts(S)[x]
  BY DEF Amounts
<1>4. Amounts(T)[tr] = tr.amount /\ Amounts(T)[tr] \in Int
  BY AmountsFinite
<1>5. SumFunction(Amounts(T)) = SumFunction(Amounts(S)) + Amounts(T)[tr]
  BY <1>2, <1>3, <1>4, SumAdd
<1> QED
  BY <1>1, <1>4, <1>5, AmountsFinite

\* What was handed over and is not to be fetched again is a number.
LEMMA HandledInt == TInv => Handled \in Nat /\ AmountOf(taken \ inflight) \in Nat
BY AmountsWithin DEF TInv, Outside, Handled

\* A transfer handed over adds its amount.
LEMMA HandledOne ==
  ASSUME TInv, NEW tr, Takes(tr)
  PROVE  Handled' = Handled + tr.amount /\ tr.amount \in Nat /\ Handled \in Int
<1>1. /\ mined \subseteq Transfer /\ IsFiniteSet(mined) /\ inflight \subseteq mined
      /\ taken \subseteq mined /\ refetched \in Nat /\ tr.amount \in Nat
  BY FundBounds DEF TInv, Outside, Transfer, Takes
<1>2. /\ taken' \ inflight' = (taken \ inflight) \cup {tr} /\ tr \notin taken \ inflight
      /\ tr \in taken' \ inflight' /\ taken' \ inflight' \subseteq mined
  BY <1>1 DEF Takes
<1>3. taken' \ inflight' \subseteq Transfer /\ IsFiniteSet(taken' \ inflight')
  BY <1>1, <1>2, FS_Subset
<1>4. taken \ inflight = (taken' \ inflight') \ {tr}
  BY <1>2
<1>5. AmountOf(taken' \ inflight') = AmountOf(taken \ inflight) + tr.amount
  BY <1>2, <1>3, <1>4, AmountsAdded
<1> QED
  BY <1>1, <1>5, HandledInt DEF Handled, Takes

\* A restart takes nothing back.
LEMMA HandledRestart ==
  ASSUME TInv, Restart
  PROVE  Handled <= Handled' /\ Handled' \in Int
<1>1. /\ mined \subseteq Transfer /\ IsFiniteSet(mined) /\ inflight \subseteq mined
      /\ taken \subseteq mined /\ refetched \in Nat /\ taken' = taken
  BY DEF TInv, Outside, Restart
<1>2. Handled \in Nat /\ AmountOf(taken \ inflight) \in Nat
  BY HandledInt
<1>3. CASE StartAtHead
  <2>1. taken' \ inflight' = taken /\ refetched' = refetched
    BY <1>1, <1>3 DEF StartAtHead
  <2>2. taken \subseteq Transfer /\ IsFiniteSet(taken) /\ taken \ inflight \in SUBSET taken
    BY <1>1, FS_Subset
  <2>3. AmountOf(taken \ inflight) <= AmountOf(taken) /\ AmountOf(taken) \in Nat
    BY <2>2, AmountsWithin
  <2>4. AmountOf(taken' \ inflight') = AmountOf(taken)
    BY <2>1
  <2> QED
    BY <1>1, <1>2, <2>1, <2>3, <2>4 DEF Handled
<1>4. CASE StartAtGenesis
  <2>1. taken' \ inflight' = {} /\ refetched' = refetched + AmountOf(taken \ inflight)
    BY <1>1, <1>4 DEF StartAtGenesis
  <2>2. AmountOf(taken' \ inflight') = 0
    BY <2>1, NoAmount
  <2> QED
    BY <1>1, <1>2, <2>1, <2>2 DEF Handled
<1> QED
  BY <1>3, <1>4 DEF Restart

\* A transfer that is mined is new, and is not handed over yet.
LEMMA Mined ==
  ASSUME TInv, MInv, NEW w \in Wallet, NEW a \in Payments, NEW m \in Memos, Pay(w, a, m)
  PROVE  /\ \A x \in mined' : x.id <= drawn'.payment
         /\ chain' = AmountOf(mined') /\ Handled' = Handled
<1> DEFINE tr == [from |-> w, amount |-> a, memo |-> m, id |-> drawn.payment + 1]
<1>1. /\ mined \subseteq Transfer /\ IsFiniteSet(mined) /\ inflight \subseteq mined
      /\ taken \subseteq mined /\ drawn \in [DrawnKinds -> Nat]
      /\ chain = AmountOf(mined) /\ \A x \in mined : x.id <= drawn.payment
  BY DEF TInv, Outside, MInv
<1>2. /\ inflight' = inflight \cup {tr} /\ mined' = mined \cup {tr} /\ taken' = taken
      /\ chain' = chain + a /\ refetched' = refetched /\ Draw("payment", MaxPayment)
  BY DEF Pay
<1>3. drawn'.payment = drawn.payment + 1 /\ drawn.payment + 1 \in 1..MaxPayment
      /\ drawn.payment \in Nat
  BY <1>1, <1>2, Kinds, DrawnOne, DrawnId, FundBounds DEF TInv
<1>4. tr \in Transfer /\ tr \notin mined
  <2>1. tr \in Transfer
    BY <1>3 DEF Transfer
  <2>2. ~(tr.id <= drawn.payment)
    BY <1>3
  <2> QED
    BY <1>1, <2>1, <2>2
<1>5. tr.amount = a /\ tr.id = drawn'.payment
  BY <1>3
<1> HIDE DEF tr
<1>6. /\ mined' \subseteq Transfer /\ IsFiniteSet(mined') /\ tr \in mined'
      /\ mined = mined' \ {tr}
  BY <1>1, <1>2, <1>4, FS_AddElement
<1>7. AmountOf(mined') = AmountOf(mined) + tr.amount
  BY <1>6, AmountsAdded
<1>8. \A x \in mined' : x.id <= drawn'.payment
  <2>1. \A x \in mined : x.id \in Nat /\ x.id <= drawn.payment
    BY <1>1, FundBounds DEF Transfer
  <2> QED
    BY <1>2, <1>3, <1>5, <2>1
<1>9. taken' \ inflight' = taken \ inflight
  BY <1>1, <1>2, <1>4
<1> QED
  BY <1>1, <1>2, <1>5, <1>7, <1>8, <1>9 DEF Handled

\* What was handed over never shrinks, and the chain is what was mined.
LEMMA HandledGrows ==
  ASSUME TInv, MInv, [Next]_vars
  PROVE  /\ \A tr \in mined' : tr.id <= drawn'.payment
         /\ chain' = AmountOf(mined')
         /\ Handled \in Int /\ Handled' \in Int /\ Handled <= Handled'
<1>1. Handled \in Int /\ drawn \in [DrawnKinds -> Nat]
  BY HandledInt DEF TInv, Outside
<1>2. mined' = mined => \A tr \in mined' : tr.id <= drawn'.payment
  <2>1. drawn.payment \in Nat /\ drawn'.payment \in Nat /\ drawn.payment <= drawn'.payment
    BY <1>1, DrawnGrows, Kinds
  <2>2. \A tr \in mined : tr.id \in Nat /\ tr.id <= drawn.payment
    BY FundBounds DEF TInv, Outside, MInv, Transfer
  <2> QED
    BY <2>1, <2>2
<1>3. CASE UNCHANGED <<inflight, fetches, chain>>
  BY <1>1, <1>2, <1>3 DEF fetches, Handled, MInv
<1>4. ASSUME NEW tr \in inflight, OnInboundTransfer(tr)
      PROVE  mined' = mined /\ chain' = chain /\ Handled' \in Int /\ Handled <= Handled'
  <2>1. Takes(tr)
    BY <1>4 DEF OnInboundTransfer, Takes
  <2>2. Handled' = Handled + tr.amount /\ tr.amount \in Nat
    BY <2>1, HandledOne
  <2> QED
    BY <1>1, <2>1, <2>2 DEF Takes
<1>5. CASE Restart
  BY <1>2, <1>5, HandledRestart, <1>1 DEF Restart, MInv
<1>6. ASSUME NEW w \in Wallet, NEW a \in Payments, NEW m \in Memos, Pay(w, a, m)
      PROVE  /\ \A tr \in mined' : tr.id <= drawn'.payment
             /\ chain' = AmountOf(mined') /\ Handled' = Handled
  BY <1>6, Mined
<1>7. CASE \E tr \in inflight : OnInboundTransfer(tr)
  BY <1>1, <1>2, <1>4, <1>7 DEF MInv
<1>8. CASE \E w \in Wallet, a \in Payments, m \in Memos : Pay(w, a, m)
  BY <1>1, <1>6, <1>8
<1>9. CASE UNCHANGED vars
  BY <1>3, <1>9 DEF vars, env
<1> QED
  BY <1>3, <1>5, <1>7, <1>8, <1>9 DEF Next, OpenSales, HandleBuy, HandleAddFunds, Offers,
     HandleOffer, AcceptOffer, DeclineOffer, Payment, PollBaseUsdc, BalanceSync, Redemption,
     QueueWithdrawal, WithdrawNow, RecordWithdrawal, FulfilExpiresAll, FulfilStart, FulfilRecord,
     FulfilNext, Trading, TraderSync, EvaluateStart, EvaluateRefused, EvaluateSkipped,
     EvaluateTraded, EvaluateDecided, MarkPositions, Clock, SalePasses, RequestPasses,
     CleanupSales, env

\* The promise outlives a step for every blob that was there before.
LEMMA MoneyStays ==
  ASSUME TInv, MInv, [Next]_vars, NEW b, BlobOK(b), Money(b, drawn.token, Handled)
  PROVE  Money(b, drawn'.token, Handled')
<1>1. /\ drawn.token \in Nat /\ drawn'.token \in Nat /\ drawn.token <= drawn'.token
  BY DrawnGrows, Kinds DEF TInv, Outside
<1>2. Handled \in Int /\ Handled' \in Int /\ Handled <= Handled'
  BY HandledGrows
<1>3. SumOfDeposits(b.nfts) \in Nat /\ b.donations \in Nat
  BY DepositsNat DEF Money
<1>4. \A t \in DOMAIN b.nfts : t \in 1..drawn'.token
  BY <1>1 DEF Money
<1>5. SumOfDeposits(b.nfts) + b.donations <= Handled'
  BY <1>2, <1>3 DEF Money
<1> QED
  BY <1>4, <1>5 DEF Money

\* The same amounts keep the same promise.
LEMMA MoneySame ==
  ASSUME NEW b, NEW c, NEW n, NEW amount, SameHoldings(b, c), Money(b, n, amount)
  PROVE  Money(c, n, amount)
<1>1. c.nfts = b.nfts /\ c.deposited = b.deposited /\ c.donations = b.donations
  BY DEF SameHoldings, SameNfts
<1> QED
  BY <1>1 DEF Money, Pool

\* Nothing is credited at the start.
LEMMA EmptyMoney ==
  ASSUME NEW n, NEW amount, 0 <= amount
  PROVE  Money(EmptyBlob, n, amount)
<1>1. /\ EmptyBlob.nfts = << >> /\ DOMAIN EmptyBlob.nfts = {}
      /\ EmptyBlob.deposited = 0 /\ EmptyBlob.donations = 0
  BY DEF EmptyBlob
<1> HIDE DEF EmptyBlob
<1>2. SumOfDeposits(EmptyBlob.nfts) = 0
  BY <1>1, SumEmpty DEF SumOfDeposits
<1>3. DOMAIN EmptyBlob.nfts \subseteq 1..n
  BY <1>1
<1>4. SumOfDeposits(EmptyBlob.nfts) + EmptyBlob.donations = 0
  BY <1>1, <1>2
<1> QED
  BY <1>1, <1>2, <1>3, <1>4 DEF Money, Pool

\* A credited transfer is covered by what it adds to the handled amount.
LEMMA MoneyCredited ==
  ASSUME IInv, TInv, MInv, [Next]_vars, Credits
  PROVE  Money(store', drawn'.token, Handled')
<1>1. PICK tr \in inflight : Donates(tr) \/ \E s \in DOMAIN store.sales : Buys(tr, s) \/ Adds(tr, s)
  BY DEF Credits
<1>2. Takes(tr)
  BY <1>1 DEF Donates, Buys, Adds
<1>3. Handled' = Handled + tr.amount /\ tr.amount \in Nat /\ Handled \in Int
  BY <1>2, HandledOne
<1>4. /\ BlobOK(store) /\ Fields(store) /\ Money(store, drawn.token, Handled) /\ Pool(store)
      /\ SumOfDeposits(store.nfts) \in Nat /\ store.donations \in Nat
      /\ SumOfDeposits(store.nfts) + store.donations <= Handled
  BY Typed, DepositsNat DEF MInv, Blobs, Money
<1>5. /\ drawn.token \in Nat /\ drawn'.token \in Nat /\ drawn.token <= drawn'.token
      /\ \A t \in DOMAIN store.nfts : t \in 1..drawn.token
  BY <1>4, DrawnGrows, Kinds DEF TInv, Outside, Money
<1>6. ASSUME Pool(store'), DOMAIN store'.nfts \subseteq 1..drawn'.token,
             \/ /\ SumOfDeposits(store'.nfts) = SumOfDeposits(store.nfts) + tr.amount
                /\ store'.donations = store.donations
             \/ /\ SumOfDeposits(store'.nfts) = SumOfDeposits(store.nfts)
                /\ store'.donations = store.donations + tr.amount
      PROVE  Money(store', drawn'.token, Handled')
  <2>1. SumOfDeposits(store'.nfts) + store'.donations <= Handled' /\ store'.donations \in Nat
    BY <1>3, <1>4, <1>6
  <2> QED
    BY <1>6, <2>1 DEF Money
<1>7. CASE Donates(tr)
  <2>1. Pool(store') /\ store'.nfts = store.nfts
    BY <1>4, <1>7 DEF Donates, SameNfts, Pool
  <2>2. DOMAIN store'.nfts \subseteq 1..drawn'.token
    BY <1>5, <2>1
  <2> QED
    BY <1>6, <1>7, <2>1, <2>2 DEF Donates
<1>8. ASSUME NEW s \in DOMAIN store.sales, Buys(tr, s) PROVE Money(store', drawn'.token, Handled')
  <2> DEFINE t == drawn.token + 1
  <2>1. /\ Draw("token", MaxToken) /\ store' = CompleteSale(store, s, t, tr.amount)
    BY <1>8 DEF Buys
  <2>2. drawn'.token = t /\ t \in 1..MaxToken
    BY <2>1, Kinds, DrawnOne, DrawnId, LedgerBounds DEF TInv, Outside
  <2>3. t \in TokenId /\ t \notin DOMAIN store.nfts
    BY <1>5, <2>2 DEF TokenId
  <2> HIDE DEF t
  <2>4. /\ Pool(store') /\ store'.donations = store.donations
        /\ DOMAIN store'.nfts = DOMAIN store.nfts \cup {t}
        /\ SumOfDeposits(store'.nfts) = SumOfDeposits(store.nfts) + tr.amount
    BY <1>3, <1>4, <2>1, <2>3, DepositsCompleted
  <2>5. DOMAIN store'.nfts \subseteq 1..drawn'.token
    BY <1>5, <2>2, <2>4 DEF t
  <2> QED
    BY <1>6, <2>4, <2>5
<1>9. ASSUME NEW s \in DOMAIN store.sales, Adds(tr, s) PROVE Money(store', drawn'.token, Handled')
  <2>1. /\ Pool(store') /\ store'.donations = store.donations
        /\ DOMAIN store'.nfts = DOMAIN store.nfts
        /\ SumOfDeposits(store'.nfts) = SumOfDeposits(store.nfts) + tr.amount
    BY <1>3, <1>4, <1>9, DepositsAdded DEF Adds
  <2>2. DOMAIN store'.nfts \subseteq 1..drawn'.token
    BY <1>5, <2>1
  <2> QED
    BY <1>6, <2>1, <2>2
<1> QED
  BY <1>1, <1>7, <1>8, <1>9

\* A save without a transfer credits nothing new.
LEMMA MoneySaved ==
  ASSUME IInv, TInv, MInv, [Next]_vars, SavesAmounts
  PROVE  Money(store', drawn'.token, Handled')
<1>1. \A b \in Blobs : BlobOK(b) /\ Money(b, drawn'.token, Handled')
  BY MoneyStays DEF TInv, MInv
<1>2. ASSUME NEW b \in Blobs, SameHoldings(b, store')
      PROVE  Money(store', drawn'.token, Handled')
  BY <1>1, <1>2, MoneySame
<1>3. /\ BlobOK(store) /\ Fields(store) /\ Pool(store)
      /\ DOMAIN store.nfts \subseteq 1..drawn'.token /\ store.donations \in Nat
      /\ SumOfDeposits(store.nfts) + store.donations <= Handled'
      /\ SumOfDeposits(store.nfts) \in Nat /\ Handled' \in Int
  BY <1>1, Typed, DepositsNat, HandledGrows DEF Money, Blobs
<1>4. ASSUME Pool(store'), store'.donations = store.donations,
             DOMAIN store'.nfts \subseteq DOMAIN store.nfts,
             SumOfDeposits(store'.nfts) \in Nat,
             SumOfDeposits(store'.nfts) <= SumOfDeposits(store.nfts)
      PROVE  Money(store', drawn'.token, Handled')
  <2>1. SumOfDeposits(store'.nfts) + store'.donations <= Handled'
    BY <1>3, <1>4
  <2> QED
    BY <1>3, <1>4, <2>1 DEF Money
<1>5. ASSUME NEW t \in DOMAIN store.nfts, Redeems(t)
      PROVE  Money(store', drawn'.token, Handled')
  <2>1. BlobOK(store')
    BY <1>3, <1>5, TypeRedeemed DEF Redeems
  <2>2. /\ Pool(store') /\ store'.donations = store.donations
        /\ DOMAIN store'.nfts = DOMAIN store.nfts \ {t}
        /\ SumOfDeposits(store'.nfts) <= SumOfDeposits(store.nfts)
    BY <1>3, <1>5, DepositsRedeemed DEF Redeems
  <2> QED
    BY <1>4, <2>1, <2>2, DepositsNat
<1>6. ASSUME NEW g \in Gains, Marks(g)
      PROVE  Money(store', drawn'.token, Handled')
  <2>1. /\ Pool(store') /\ store'.donations = store.donations
        /\ DOMAIN store'.nfts = DOMAIN store.nfts
        /\ SumOfDeposits(store'.nfts) = SumOfDeposits(store.nfts)
    BY <1>3, <1>6, DepositsMarked DEF Marks
  <2> QED
    BY <1>3, <1>4, <2>1
<1> QED
  BY <1>2, <1>5, <1>6 DEF SavesAmounts

\* The promise about deposits is kept by every step.
LEMMA StepMoney == ASSUME IInv, PInv, TInv, MInv, [Next]_vars PROVE MInv'
<1>1. Money(store', drawn'.token, Handled')
  BY AmountsSaved, MoneyCredited, MoneySaved
<1>2. Money(EmptyBlob, drawn'.token, Handled')
  <2>1. \A b \in Blobs : BlobOK(b) /\ Money(b, drawn'.token, Handled')
    BY MoneyStays DEF TInv, MInv
  <2>2. 0 <= Handled'
    <3>1. /\ SumOfDeposits(store.nfts) \in Nat /\ store.donations \in Nat /\ Handled' \in Int
          /\ SumOfDeposits(store.nfts) + store.donations <= Handled'
      BY <2>1, DepositsNat, HandledGrows DEF Money, Blobs
    <3> QED
      BY <3>1
  <2> QED
    BY <2>2, EmptyMoney
<1>3. \A b \in Blobs' : Money(b, drawn'.token, Handled')
  BY <1>1, <1>2, BlobsKept, MoneyStays DEF TInv, MInv
<1> QED
  BY <1>3, HandledGrows DEF MInv

\* The promise holds at the start.
LEMMA InitMoney == Init => MInv
<1> SUFFICES ASSUME Init PROVE MInv
  OBVIOUS
<1>1. \A b \in Blobs : b = EmptyBlob
  BY DEF Init, Blobs, NoOffer, IdleTrader
<1>2. Handled = 0
  <2>1. taken \ inflight = {} /\ refetched = 0
    BY DEF Init
  <2> QED
    BY <2>1, NoAmount DEF Handled
<1>3. \A b \in Blobs : Money(b, drawn.token, Handled)
  BY <1>1, <1>2, EmptyMoney
<1>4. chain = AmountOf(mined) /\ \A tr \in mined : tr.id <= drawn.payment
  BY NoAmount DEF Init
<1> QED
  BY <1>3, <1>4 DEF MInv

\* The types and the promise about deposits are invariants.
LEMMA MoneyInvariant == Spec => [](TInv /\ MInv)
<1>1. IInv /\ PInv /\ TInv /\ [Next]_vars => TInv'
  BY StepTypes
<1>2. IInv /\ PInv /\ TInv /\ MInv /\ [Next]_vars => MInv'
  BY StepMoney
<1> QED
  BY <1>1, <1>2, InitTypes, InitMoney, InitPurchases, StepPurchases, Invariance, PTL DEF Spec

\* The pool's deposits are those of the NFTs it holds, for any amounts and any
\* number of concurrent offers and evaluations, although each of them saves a
\* blob it loaded before other payments and redemptions were recorded.
THEOREM DepositsAreHeld == Spec => []DepositsAddUp
<1>1. MInv => DepositsAddUp
  BY DEF MInv, Blobs, Money, Pool, DepositsAddUp
<1> QED
  BY <1>1, MoneyInvariant, PTL

\* NFTs and donations are never credited with more than buyers sent, and what a
\* monitor that started at block 0 had handed over before and fetched again: a
\* transfer is credited at most once each time it is handed over, and what a stale
\* save undoes is not credited again.
THEOREM CreditedOnce == Spec => []NothingCreditedTwice
<1>1. TInv /\ MInv => NothingCreditedTwice
  <2> SUFFICES ASSUME TInv, MInv PROVE NothingCreditedTwice
    OBVIOUS
  <2>1. Money(store, drawn.token, Handled) /\ BlobOK(store)
    BY DEF TInv, MInv, Blobs
  <2>2. /\ AmountOf(taken \ inflight) \in Nat /\ AmountOf(taken \ inflight) <= chain
        /\ chain \in Nat /\ refetched \in Nat
    <3>1. taken \ inflight \in SUBSET mined
      BY DEF TInv, Outside
    <3> QED
      BY <3>1, AmountsWithin DEF TInv, Outside, MInv
  <2>3. SumOfDeposits(store.nfts) \in Nat /\ store.donations \in Nat
    BY <2>1, DepositsNat DEF Money
  <2> QED
    BY <2>1, <2>2, <2>3 DEF Money, Handled, NothingCreditedTwice
<1> QED
  BY <1>1, MoneyInvariant, PTL

-----------------------------------------------------------------------------
(***************************************************************************)
(* Navs.  A blob's navs add up to the value of its pool, unless they are   *)
(* worth nothing together.  Then the code leaves them as they are, and the *)
(* next purchase is divided by the nav it brought: that gives the new NFT  *)
(* the whole pool, and it is whole only if the others really have nothing, *)
(* and do not cancel each other out.                                       *)
(***************************************************************************)
Navs(nfts) == [t \in DOMAIN nfts |-> nfts[t].nav]

NavsAdd(b) == SumOfNavs(b.nfts) # 0 => SumOfNavs(b.nfts) = b.value

NoneHasAny(b) == \A t \in DOMAIN b.nfts : b.nfts[t].nav = 0

\* No holder's debt cancels another's nav while the pool has a value.
NavsDontCancel ==
  \A b \in Blobs : SumOfNavs(b.nfts) = 0 /\ b.value # 0 => NoneHasAny(b)

NInv == \A b \in Blobs : NavsAdd(b)

\* The navs of a typed blob can be summed.
LEMMA NavsFinite ==
  ASSUME NEW b, BlobOK(b)
  PROVE  /\ DOMAIN Navs(b.nfts) = DOMAIN b.nfts /\ IsFiniteSet(DOMAIN Navs(b.nfts))
         /\ \A t \in DOMAIN b.nfts : Navs(b.nfts)[t] = b.nfts[t].nav /\ Navs(b.nfts)[t] \in Int
         /\ SumOfNavs(b.nfts) = SumFunction(Navs(b.nfts)) /\ SumOfNavs(b.nfts) \in Int
<1>1. /\ DOMAIN Navs(b.nfts) = DOMAIN b.nfts
      /\ \A t \in DOMAIN b.nfts : Navs(b.nfts)[t] = b.nfts[t].nav
  BY DEF Navs
<1>2. IsFiniteSet(DOMAIN b.nfts)
  BY TokensFinite DEF BlobOK
<1>3. \A t \in DOMAIN b.nfts : b.nfts[t].nav \in Int
  BY DEF BlobOK, Nft
<1>4. SumOfNavs(b.nfts) = SumFunction(Navs(b.nfts))
  BY DEF SumOfNavs, Navs
<1> QED
  BY <1>1, <1>2, <1>3, <1>4, NavsInt

\* A factor that is not zero cancels.
LEMMA CancelFactor ==
  ASSUME NEW a \in Int, NEW x \in Int, NEW v \in Int, a # 0, a * x = v * a
  PROVE  x = v
OBVIOUS

\* Shares that are whole make the navs add up.
LEMMA NavsRecalculated ==
  ASSUME NEW b, BlobOK(b), Fields(b),
         SumOfNavs(b.nfts) # 0 /\ SumOfNavs(b.nfts) # b.value => WholeShares(b)
  PROVE  NavsAdd(RecalculateAllNavs(b))
<1> DEFINE c   == RecalculateAllNavs(b)
           sum == SumOfNavs(b.nfts)
<1>1. Recalculates(b, c) /\ BlobOK(c)
  BY Recalculation, TypeRecalculated
<1> HIDE DEF c
<1>2. c.value = b.value /\ sum \in Int /\ b.value \in Int
  BY <1>1, NavsInt DEF Recalculates, SameButNfts, BlobOK
<1>3. CASE c.nfts = b.nfts /\ (DOMAIN b.nfts = {} \/ sum = 0 \/ sum = b.value)
  <2>1. DOMAIN b.nfts = {} => sum = 0
    BY NavsFinite, SumEmpty
  <2> QED
    BY <1>2, <1>3, <2>1 DEF NavsAdd, c
<1>4. CASE /\ sum # 0 /\ sum # b.value
           /\ \A t \in DOMAIN b.nfts :
                c.nfts[t] = [b.nfts[t] EXCEPT !.nav = Share(b.nfts[t].nav, b.value, sum)]
  <2>1. \A t \in DOMAIN b.nfts : c.nfts[t].nav = Share(b.nfts[t].nav, b.value, sum)
    <3> TAKE t \in DOMAIN b.nfts
    <3>1. PICK old, x : old = b.nfts[t] /\ x = Share(b.nfts[t].nav, b.value, sum)
      OBVIOUS
    <3>2. old \in Nft /\ c.nfts[t] = [old EXCEPT !.nav = x]
      BY <1>4, <3>1 DEF BlobOK
    <3> QED
      BY <3>1, <3>2 DEF Nft
  <2>2. \A t \in DOMAIN b.nfts : sum * c.nfts[t].nav = b.value * b.nfts[t].nav
    <3> TAKE t \in DOMAIN b.nfts
    <3>1. b.nfts[t].nav \in Int
      BY DEF BlobOK, Nft
    <3>2. sum * c.nfts[t].nav = b.nfts[t].nav * b.value
      BY <1>4, <2>1 DEF WholeShares
    <3> QED
      BY <1>2, <3>1, <3>2
  <2>3. DOMAIN c.nfts = DOMAIN b.nfts
    BY <1>1 DEF Recalculates
  <2>4. /\ DOMAIN Navs(c.nfts) = DOMAIN Navs(b.nfts)
        /\ \A t \in DOMAIN Navs(b.nfts) : Navs(b.nfts)[t] \in Int /\ Navs(c.nfts)[t] \in Int
    BY <1>1, <2>3, NavsFinite
  <2>5. \A t \in DOMAIN Navs(b.nfts) : sum * Navs(c.nfts)[t] = b.value * Navs(b.nfts)[t]
    BY <1>1, <2>2, <2>3, NavsFinite
  <2> HIDE DEF sum
  <2>6. sum * SumFunction(Navs(c.nfts)) = b.value * SumFunction(Navs(b.nfts))
    BY <1>2, <2>4, <2>5, NavsFinite, SumShares
  <2>7. SumOfNavs(c.nfts) \in Int /\ sum * SumOfNavs(c.nfts) = b.value * sum
    BY <1>1, <2>6, NavsFinite DEF sum
  <2>8. SumOfNavs(c.nfts) = b.value
    BY <1>2, <1>4, <2>7, CancelFactor
  <2> QED
    BY <1>2, <2>8 DEF NavsAdd, c
<1> QED
  BY <1>1, <1>3, <1>4 DEF Recalculates, c

\* A nav that is the only one is worth the whole pool.
LEMMA OnlyShare ==
  ASSUME NEW amount \in Nat, amount # 0, NEW value \in Int
  PROVE  /\ amount * Share(amount, value, amount) = amount * value
         /\ amount * Share(0, value, amount) = 0 * value
<1>1. (amount * value) \div amount = value /\ 0 \div amount = 0
  OBVIOUS
<1>2. 0 * value = 0 /\ amount * 0 = 0
  OBVIOUS
<1> QED
  BY <1>1, <1>2 DEF Share

\* A nav of amount joins those of b, and the pool grows by as much.
LEMMA NavsGrown ==
  ASSUME NEW b, NEW c, NEW amount \in Nat, amount # 0, BlobOK(b), BlobOK(c), Fields(c),
         NavsAdd(b), SumOfNavs(b.nfts) = 0 /\ b.value # 0 => NoneHasAny(b),
         SumOfNavs(c.nfts) = SumOfNavs(b.nfts) + amount, c.value = b.value + amount,
         NoneHasAny(b) => \A x \in DOMAIN c.nfts : c.nfts[x].nav \in {0, amount}
  PROVE  NavsAdd(RecalculateAllNavs(c))
<1>1. b.value \in Int /\ c.value \in Int /\ SumOfNavs(b.nfts) \in Int /\ SumOfNavs(c.nfts) \in Int
  BY NavsFinite DEF BlobOK
<1>2. CASE SumOfNavs(b.nfts) # 0 \/ b.value = 0
  <2>1. SumOfNavs(b.nfts) = b.value
    BY <1>2 DEF NavsAdd
  <2>2. SumOfNavs(c.nfts) = c.value
    BY <2>1
  <2> QED
    BY <2>2, NavsRecalculated
<1>3. CASE SumOfNavs(b.nfts) = 0 /\ b.value # 0
  <2>1. SumOfNavs(c.nfts) = amount /\ \A x \in DOMAIN c.nfts : c.nfts[x].nav \in {0, amount}
    BY <1>1, <1>3
  <2>2. \A x \in DOMAIN c.nfts :
          amount * Share(c.nfts[x].nav, c.value, amount) = c.nfts[x].nav * c.value
    BY <1>1, <2>1, OnlyShare
  <2>3. WholeShares(c)
    BY <2>1, <2>2 DEF WholeShares
  <2> QED
    BY <2>3, NavsRecalculated
<1> QED
  BY <1>2, <1>3

\* The navs add up after a purchase.
LEMMA NavsCompleted ==
  ASSUME NEW b, NEW s \in DOMAIN b.sales, NEW t \in TokenId, NEW amount \in Nat, amount # 0,
         t \notin DOMAIN b.nfts, BlobOK(b), Fields(b), NavsAdd(b),
         SumOfNavs(b.nfts) = 0 /\ b.value # 0 => NoneHasAny(b)
  PROVE  NavsAdd(CompleteSale(b, s, t, amount))
<1> DEFINE c == Minted(b, s, t, amount)
<1>1. DepositsInto(b, c, s, amount) /\ c.nfts = Put(b.nfts, t, NewNft(b, s, amount)) /\ BlobOK(c)
  BY MintedFields, TypeCompleted
<1> HIDE DEF c
<1>2. /\ DOMAIN c.nfts = DOMAIN b.nfts \cup {t} /\ c.nfts[t].nav = amount
      /\ \A x \in DOMAIN b.nfts : c.nfts[x] = b.nfts[x]
  BY <1>1 DEF Put, NewNft
<1>3. SumFunction(Navs(c.nfts)) = SumFunction(Navs(b.nfts)) + amount
  <2>1. /\ DOMAIN Navs(c.nfts) = DOMAIN Navs(b.nfts) \cup {t}
        /\ t \notin DOMAIN Navs(b.nfts) /\ Navs(c.nfts)[t] = amount
        /\ \A x \in DOMAIN Navs(b.nfts) : Navs(c.nfts)[x] = Navs(b.nfts)[x]
    BY <1>2 DEF Navs
  <2> QED
    BY <2>1, NavsFinite, SumAdd
<1>4. /\ SumOfNavs(c.nfts) = SumOfNavs(b.nfts) + amount
      /\ c.value = b.value + amount /\ Fields(c)
  BY <1>1, <1>3, NavsFinite DEF DepositsInto
<1>5. NoneHasAny(b) => \A x \in DOMAIN c.nfts : c.nfts[x].nav \in {0, amount}
  BY <1>2 DEF NoneHasAny
<1> QED
  BY <1>1, <1>4, <1>5, NavsGrown DEF CompleteSale, c

\* The navs add up after a top-up.
LEMMA NavsToppedUp ==
  ASSUME NEW b, NEW s \in DOMAIN b.sales, NEW amount \in Nat, amount # 0,
         b.sales[s].target \in DOMAIN b.nfts, BlobOK(b), Fields(b), NavsAdd(b),
         SumOfNavs(b.nfts) = 0 /\ b.value # 0 => NoneHasAny(b)
  PROVE  NavsAdd(AddFundsToNft(b, s, amount))
<1> DEFINE c == ToppedUp(b, s, amount)
           t == b.sales[s].target
<1>1. DepositsInto(b, c, s, amount) /\ TopsUp(b, c, t, amount) /\ BlobOK(c)
  BY ToppedUpFields, TypeFundsAdded
<1> HIDE DEF c, t
<1>2. /\ DOMAIN c.nfts = DOMAIN b.nfts /\ t \in DOMAIN b.nfts
      /\ \A x \in DOMAIN b.nfts : x # t => c.nfts[x] = b.nfts[x]
  BY <1>1 DEF TopsUp, t
<1>3. c.nfts[t].nav = b.nfts[t].nav + amount /\ b.nfts[t].nav \in Int
  <2>1. PICK old : old = b.nfts[t]
    OBVIOUS
  <2>2. old \in Nft /\ c.nfts[t] = TopUp(old, amount)
    BY <1>1, <1>2, <2>1 DEF TopsUp, BlobOK
  <2>3. TopUp(old, amount).nav = old.nav + amount /\ old.nav \in Int
    BY <2>2 DEF TopUp, Nft
  <2> QED
    BY <2>1, <2>2, <2>3
<1>4. SumFunction(Navs(c.nfts)) = SumFunction(Navs(b.nfts)) + amount
  <2>1. /\ DOMAIN Navs(c.nfts) = DOMAIN Navs(b.nfts) /\ t \in DOMAIN Navs(b.nfts)
        /\ \A x \in DOMAIN Navs(b.nfts) \ {t} : Navs(c.nfts)[x] = Navs(b.nfts)[x]
        /\ Navs(c.nfts)[t] = Navs(b.nfts)[t] + amount
        /\ Navs(c.nfts)[t] \in Int /\ Navs(b.nfts)[t] \in Int
    BY <1>1, <1>2, <1>3, NavsFinite
  <2>2. SumFunction(Navs(c.nfts)) =
          SumFunction(Navs(b.nfts)) + (Navs(c.nfts)[t] - Navs(b.nfts)[t])
    BY <2>1, NavsFinite, SumChange
  <2>3. Navs(c.nfts)[t] - Navs(b.nfts)[t] = amount
    BY <2>1
  <2> QED
    BY <2>2, <2>3
<1>5. /\ SumOfNavs(c.nfts) = SumOfNavs(b.nfts) + amount
      /\ c.value = b.value + amount /\ Fields(c)
  BY <1>1, <1>4, NavsFinite DEF DepositsInto
<1>6. NoneHasAny(b) => \A x \in DOMAIN c.nfts : c.nfts[x].nav \in {0, amount}
  BY <1>2, <1>3 DEF NoneHasAny
<1> QED
  BY <1>1, <1>5, <1>6, NavsGrown DEF AddFundsToNft, c

\* The navs add up after a redemption.
LEMMA NavsRedeemed ==
  ASSUME NEW b, NEW t \in DOMAIN b.nfts, BlobOK(b), Fields(b), NavsAdd(b),
         SumOfNavs(b.nfts) = 0 /\ b.value # 0 => NoneHasAny(b)
  PROVE  NavsAdd(RedeemNft(b, t))
<1> DEFINE c == Removed(b, t)
<1>1. RemovesFrom(b, c, t) /\ BlobOK(c)
  BY RemovedFields, TypeRedeemed
<1> HIDE DEF c
<1>2. SumFunction(Navs(b.nfts)) = SumFunction(Navs(c.nfts)) + b.nfts[t].nav
  <2>1. /\ DOMAIN Navs(b.nfts) = DOMAIN Navs(c.nfts) \cup {t}
        /\ t \notin DOMAIN Navs(c.nfts) /\ Navs(b.nfts)[t] = b.nfts[t].nav
        /\ \A x \in DOMAIN Navs(c.nfts) : Navs(b.nfts)[x] = Navs(c.nfts)[x]
    BY <1>1 DEF RemovesFrom, Navs
  <2>2. Navs(b.nfts)[t] \in Int
    BY NavsFinite
  <2> QED
    BY <1>1, <2>1, <2>2, NavsFinite, SumAdd
<1>3. /\ SumOfNavs(b.nfts) = SumOfNavs(c.nfts) + b.nfts[t].nav
      /\ SumOfNavs(c.nfts) \in Int /\ SumOfNavs(b.nfts) \in Int
      /\ b.nfts[t].nav \in Int /\ b.value \in Int /\ c.value = b.value - b.nfts[t].nav
  BY <1>1, <1>2, NavsFinite DEF RemovesFrom, BlobOK, Nft
<1>4. CASE SumOfNavs(b.nfts) # 0 \/ b.value = 0
  <2>1. SumOfNavs(b.nfts) = b.value
    BY <1>4 DEF NavsAdd
  <2>2. SumOfNavs(c.nfts) = c.value
    BY <1>3, <2>1
  <2> QED
    BY <1>1, <2>2, NavsRecalculated DEF RedeemNft, RemovesFrom, c
<1>5. CASE SumOfNavs(b.nfts) = 0 /\ b.value # 0
  <2>1. b.nfts[t].nav = 0
    BY <1>5 DEF NoneHasAny
  <2>2. SumOfNavs(c.nfts) = 0
    BY <1>3, <1>5, <2>1
  <2> QED
    BY <1>1, <2>2, NavsRecalculated DEF RedeemNft, RemovesFrom, c
<1> QED
  BY <1>4, <1>5

\* The navs add up after the pool is marked to market.
LEMMA NavsMarked ==
  ASSUME NEW b, NEW g \in Gains, BlobOK(b), Fields(b), WholeShares(Marked(b, g))
  PROVE  NavsAdd(MarkToMarket(b, g))
BY TypeMarked, NavsRecalculated DEF MarkToMarket

\* The navs of the empty blob add up.
LEMMA EmptyNavs == NavsAdd(EmptyBlob)
<1>1. DOMAIN EmptyBlob.nfts = {} /\ EmptyBlob.value = 0
  BY DEF EmptyBlob
<1> HIDE DEF EmptyBlob
<1>2. SumOfNavs(EmptyBlob.nfts) = 0
  BY <1>1, SumEmpty DEF SumOfNavs
<1> QED
  BY <1>2 DEF NavsAdd

\* The navs of every blob that a step saves add up.
LEMMA StepNavs ==
  ASSUME IInv, PInv, TInv, MInv, NInv, NavsDontCancel, [Next]_vars
  PROVE  NInv'
<1>1. /\ BlobOK(store) /\ Fields(store) /\ NavsAdd(store)
      /\ SumOfNavs(store.nfts) = 0 /\ store.value # 0 => NoneHasAny(store)
  BY Typed DEF NInv, NavsDontCancel, Blobs
<1>2. CASE Credits
  <2>1. PICK tr \in inflight :
          Donates(tr) \/ \E s \in DOMAIN store.sales : Buys(tr, s) \/ Adds(tr, s)
    BY <1>2 DEF Credits
  <2>2. tr.amount \in Nat /\ tr.amount # 0
    BY FundBounds DEF TInv, Outside, Transfer
  <2>3. ASSUME Donates(tr) PROVE NavsAdd(store')
    BY <1>1, <2>3 DEF Donates, SameNfts, NavsAdd
  <2>4. ASSUME NEW s \in DOMAIN store.sales, Buys(tr, s) PROVE NavsAdd(store')
    <3>1. /\ drawn.token + 1 \in TokenId /\ drawn.token \in Nat
          /\ store' = CompleteSale(store, s, drawn.token + 1, tr.amount)
      BY <2>4, Kinds, DrawnId, LedgerBounds DEF Buys, TInv, Outside, TokenId
    <3>2. \A t \in DOMAIN store.nfts : t \in 1..drawn.token
      BY DEF MInv, Money, Blobs
    <3>3. drawn.token + 1 \notin DOMAIN store.nfts
      BY <3>1, <3>2
    <3> QED
      BY <1>1, <2>2, <3>1, <3>3, NavsCompleted
  <2>5. ASSUME NEW s \in DOMAIN store.sales, Adds(tr, s) PROVE NavsAdd(store')
    BY <1>1, <2>2, <2>5, NavsToppedUp DEF Adds
  <2>6. NavsAdd(store')
    BY <2>1, <2>3, <2>4, <2>5
  <2> QED
    BY <2>6, EmptyNavs, BlobsKept DEF NInv
<1>3. CASE SavesAmounts
  <2>1. ASSUME NEW b \in Blobs, SameHoldings(b, store') PROVE NavsAdd(store')
    BY <2>1 DEF SameHoldings, SameNfts, NInv, NavsAdd
  <2>2. ASSUME NEW t \in DOMAIN store.nfts, Redeems(t) PROVE NavsAdd(store')
    BY <1>1, <2>2, NavsRedeemed DEF Redeems
  <2>3. ASSUME NEW g \in Gains, Marks(g) PROVE NavsAdd(store')
    BY <1>1, <2>3, NavsMarked DEF Marks
  <2>4. NavsAdd(store')
    BY <1>3, <2>1, <2>2, <2>3 DEF SavesAmounts
  <2> QED
    BY <2>4, EmptyNavs, BlobsKept DEF NInv
<1> QED
  BY <1>2, <1>3, AmountsSaved

\* The navs add up at the start.
LEMMA InitNavs == Init => NInv
<1> SUFFICES ASSUME Init PROVE NInv
  OBVIOUS
<1>1. \A b \in Blobs : b = EmptyBlob
  BY DEF Init, Blobs, NoOffer, IdleTrader
<1> QED
  BY <1>1, EmptyNavs DEF NInv

\* The navs of the holders add up to the pool's value through purchases,
\* top-ups, redemptions, marks to market and stale saves, as long as no debt of
\* one holder cancels the nav of another.
THEOREM NavsStayWhole == Spec /\ []NavsDontCancel => []NavsSumToPool
<1>1. IInv /\ PInv /\ TInv /\ MInv /\ NInv /\ NavsDontCancel /\ [Next]_vars => NInv'
  BY StepNavs
<1>2. NInv => NavsSumToPool
  BY DEF NInv, Blobs, NavsAdd, NavsSumToPool
<1> QED
  BY <1>1, <1>2, InitNavs, InitPurchases, StepPurchases, Invariance, MoneyInvariant, PTL DEF Spec

\* In particular when nobody's nav is below zero.
THEOREM NavsOfHolders ==
  Spec /\ [](\A b \in Blobs : \A t \in DOMAIN b.nfts : b.nfts[t].nav >= 0) => []NavsSumToPool
<1> DEFINE NoDebts == \A b \in Blobs : \A t \in DOMAIN b.nfts : b.nfts[t].nav >= 0
<1>1. TInv /\ NoDebts => NavsDontCancel
  <2> SUFFICES ASSUME TInv, NoDebts, NEW b \in Blobs, SumOfNavs(b.nfts) = 0 PROVE NoneHasAny(b)
    BY DEF NavsDontCancel
  <2>1. BlobOK(b) /\ \A t \in DOMAIN b.nfts : b.nfts[t].nav >= 0
    BY DEF TInv
  <2>2. \A t \in DOMAIN Navs(b.nfts) : Navs(b.nfts)[t] \in Nat
    BY <2>1, NavsFinite
  <2>3. \A t \in DOMAIN Navs(b.nfts) : Navs(b.nfts)[t] = 0
    BY <2>1, <2>2, NavsFinite, SumZero
  <2> QED
    BY <2>1, <2>3, NavsFinite DEF NoneHasAny
<1> HIDE DEF NoDebts
<1>2. Spec /\ []NoDebts => []NavsSumToPool
  BY <1>1, MoneyInvariant, NavsStayWhole, PTL
<1> QED
  BY <1>2 DEF NoDebts
=============================================================================
