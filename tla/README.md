# Panthers fund and Idiostasis protocol: specifications

The repository is a TypeScript monorepo with two systems in one process tree:

- the **Panthers fund agent** (`src/apps/agent/src`), which sells NFT shares of
  a trading pool for USDC on Base, credits payments it sees on chain, redeems
  shares, and trades the pool on the advice of a language model;
- the **Idiostasis protocol** (`src/packages/core`, `src/packages/guardian`),
  which keeps such an agent alive: guardians are admitted by attestation, hold
  snapshots and the vault key, and hand the role to a backup when the primary
  falls silent.

The modules here specify both, TLC checks them on small instances, and TLAPS
proves the theorems of the `*Proofs` modules for every value of the constants.
All line numbers refer to files under `src/`.

## 1. Inventory

| Component | State it keeps | Operations | What makes it hard, what makes it correct |
|---|---|---|---|
| State blob (`state/`, `db/panthers-db.ts`, `base/deposit.ts`) | one JSON value: sales, NFTs, redemption queue, pool, balance, positions | `completeSale`, `addFundsToNft`, `redeemNft`, `recalculateAllNavs`, `expireStalePendingSales` | every writer replaces the whole blob, so a writer that loaded early erases later writes. Navs add up to the pool; nothing is credited twice. |
| Redemptions (`base/withdraw.ts`) | requests in the blob | `processRedemptionRequest`, `fulfillQueuedRedemptions` every 15 minutes | two saves with a file write between; a loop over an old list. A share is paid once, a queued one settles. |
| HTTP API (`public/server.ts`) | none | buy, offer, withdraw, add funds, claim | an offer awaits a language model between load and save. |
| Inbound payments (`base/usdc-monitor.ts`, `index.ts:650`) | block cursor, seen transactions (memory) | poll, `onInboundTransfer` | late, missing and duplicate transfers; restarts. |
| Balance sync (`persona/wallet-monitor.ts`, `index.ts:758`) | last balance read | poll, two writers of `liquidUsdcBalance` | an old reading overwrites a newer deduction. |
| Trading (`trading/`) | positions, history (blob) | `evaluate`, `markToMarket` | awaits between load and save; the pool value is recomputed from parts. |
| Auctions (`auction/`) | auctions in the blob | create, tick, bid | a ticker and slow writers on one blob. One impulsive auction at a time; every auction ends. |
| Social posting (`moltbook/`, `social/`) | times of the last posts (memory), verification flag, survival state announced | `onEvent`, timers, challenges | the window is read before and noted after the awaits, and only if the site's answer arrives; a flag only a post can set; words read through noise. |
| Payments out (`packages/x402-client`, `index.ts`) | credit at SecretVM, authorizations | add funds, create a machine, fetch data | lost answers, refusals of payments that settle, a retry that calls itself. One payment per call. |
| Admission (`core/attestation/admission.ts`, guardian `main.ts`) | locked measurements, rows, peer keys, nonces | request, attest, exchange keys, admit; retry loop | concurrent handlers over two network awaits; retries whose first request still runs. One fleet runs one measurement. |
| Protocol database (`core/database/db.ts`) | rows, config, nonces, streaks | upserts, streaks, nonce check with eviction | nonces evicted while still fresh. |
| Snapshots (`core/database/snapshot.ts`) | sequence number | create, push, apply | overlapping pushes, numbers nobody compares, files written twice at once; guardians that restart ask again before they listen; bodies above 100 kB are refused. Copies catch up. |
| Heartbeat (`core/heartbeat`, guardian `liveness/monitor.ts`) | last ping, streaks | ping all, liveness timer | rounds overlap, pings come late or again. A dead primary is noticed, a dead backup loses its streak. |
| Succession (`core/succession`, guardian `succession/handler.ts`, agent `protocol/handlers.ts`) | one flag per guardian, one pending session per backup, role | ready, confirm, rotate, register | several guardians act without coordination; time-outs while the backup still works; a file closed while it is written; a confirmation that carries the whole database. One primary. |
| Vault key (`core/vault`) | the key in memory and sealed | load, replace, seal, exchange | restart between replace and seal. |
| Fleet manager (guardian `guardian-manager.ts`) | rows, deficit and pending marks in the config | evaluate, provision, retire | one count, then many awaits; requests that fail half way. Never fewer than three after retiring; a shortage ends. |
| Guardian servers, registry | peer table | routes | in the modules of the routes. |
| Chain, market data, LLM, persona, registry client | none that persists here | network calls | enter the models as calls that answer anything or fail. |

`PROJECT.json` lists the same components with their files and status, and every
hazard at its line.

### How they interact

The agent is one Node process. A handler or timer callback runs alone until it
awaits something **outside** the process: awaits of values already there only
queue microtasks, which Node drains before the next request or timer. Loading
and saving the blob is a synchronous SQLite call, so load, compute and save
make one atomic action. The awaits that really let others run are the cache
file written at the end of `saveState`, network calls (chain, language model,
attestation, signing service), and timers. Every action in the modules is the
code between two such awaits.

Agent, guardians and backups are separate processes that talk HTTP with
time-outs (10 s for a request, 15 s for a confirmation); a time-out ends the
caller's wait and not the callee's work.

## 2. Modules

| Module | Models | Notes |
|---|---|---|
| `FundLedger` | the blob and the pure functions that rewrite it (`schema.ts`, `nav.ts`, `deposit.ts`, the arithmetic of `withdraw.ts` and `trading/`) | operators from blob to blob; no variables |
| `Fund` | who loads and saves the blob when: API handlers, chain, monitors, redemption pass, trading, timers, restart | extends `FundLedger` |
| `Holdings` | abstract: what becomes of each token, minted, held, leaving, paid or lost | what the fund promises; implemented by `Fund` |
| `Membership` | abstract: a fleet with one canonical measurement | what admission promises |
| `Admission` | guardian retry loop and the primary's concurrent admission handlers | implements `Membership` for guardians and for backups |
| `Succession` | guardians that hand the role to a backup: calls with time-outs, one key session per backup, sealing, snapshot, rotation, restarts | several guardians at once |
| `Auction` | the auction engine, the ticker, the scheduler, and other slow writers of the blob | |
| `Payments` | what the agent pays: SecretVM credit, new machines, market data | the seller and the chain are external |
| `TransferMonitor` | the monitor of USDC transfers, with overlapping polls | what hands transfers to `Fund` |
| `Posting` | the posts on Moltbook and X | |
| `Verification` | the reading of Moltbook's challenges | a pure algorithm |
| `Replication` | snapshots, their pushes and the guardians' copies | |
| `Heartbeat` | rounds of pings, streaks, detection of a dead primary | what begins a succession |
| `Fleet` | the fleet manager | not called in this build |
| `MCFund`, `MCAdmission`, `MCSuccession` | small instances for TLC | definitions used by the `.cfg` files |
| `MCAgent`, `MCProtocol` | small instances of the services of the agent and of the protocol, one per behaviour | below |
| `FundProofs`, `FundMoneyProofs` | theorems about `Fund`: shapes and ids; types and amounts | section 5 |
| `SumLemmas` | lemmas about the folds that add amounts | for `FundMoneyProofs` |
| `AdmissionProofs`, `SuccessionProofs` | theorems about these modules | section 5 |
| `VerificationProofs` | theorems about the reading of challenges | section 5 |
| `AgentProofs` | theorems about `Auction`, `Payments`, `TransferMonitor`, `Posting`, and `MCAgent` | section 5 |
| `ProtocolProofs` | theorems about `Replication`, `Heartbeat`, `Fleet`, and `MCProtocol` | section 5 |

`MCAgent` and `MCProtocol` put services that share no state side by side
without interleaving them: the variable `part` chooses one at the start, a
behaviour is then a behaviour of that service, and the variables of the others
stand still in a state where their fairness asks for nothing. Interleaving them
would multiply the states and could show nothing new, because no step of one
reads or writes what another does.

Definitions marked `Mutant` in a comment are plausible bugs of the code (a
dropped guard, a missing reset, an off-by-one). They are not part of any
specification: each shows that a property can fail, because replacing the
definition after it by the mutant makes TLC report the property.

### State and actions against the code

**FundLedger.** A blob is a record. `sales`, `nfts` and `queue` are functions
from ids to records (lists in the code), `positions` a sequence of costs.
Amounts are whole units; the 1% fee and the swing of a redemption become two
percentages, one when liquid USDC covers the nav and one when it does not.
`Share` is a nav's part of the pool's value, as an integer also when the total
is negative; divisions with a remainder are kept out by `WholeShares`, which
restricts the amounts that are enumerated, not the state. Activity and decision
logs, texts and URLs are left out.

**Fund.** `store` is the persisted blob. A handler that loads, computes and
saves without a real await is one action (`HandleBuy`, `OnInboundTransfer`,
`BalanceSync`, `CleanupSales`, `MarkPositions`). Slow ones are several: an offer
(`HandleOffer`, `AcceptOffer`) and an evaluation (`EvaluateStart`,
`EvaluateDecided`, `EvaluateTraded`) keep in `held` the blob they loaded and
save a copy of it; a redemption saves twice (`WithdrawNow`,
`RecordWithdrawal`), and so does each round of the queue pass (`FulfilStart`,
`FulfilRecord`, `FulfilNext`). `chain`, `mined` and `inflight` are the
environment: all transfers on chain, and those that the monitor will still
fetch. Its block cursor and `processedTxs` appear only through what happens to
`inflight`. Within one process a transfer is handled at most once, which
`TransferMonitor` checks. A restart begins at the current block, and what is on
its way is skipped (`StartAtHead`); or, when the first `getBlockNumber` fails
(usdc-monitor.ts:45-48), at block 0 with nothing processed, and everything ever
sent is fetched and credited again (`StartAtGenesis`). `taken` and `refetched`
are histories that say how much this may be, and `payouts` one of the
redemptions. A transfer that a running monitor fails to fetch is not here but in
`TransferMonitor`. What the language model answers is a nondeterministic choice.

**Admission.** `handler.attesting` and `handler.exchanging` are requests whose
handler waits for attestation and for the signing service; everything between
these awaits is one action. A request is a machine and the number of its
attempt, which stands for the fresh nonce and key pair of the attempt. The
production path is modelled; with `DEV_MODE` the primary believes the
measurement a request claims. The repository has no admission client for
backups, they are assumed to ask as guardians do.

**Succession.** `calls` are requests a backup has not finished, with where its
handler stands (`ready`, `confirm`: not begun; `oversized`: a confirmation whose
body `express.json()` refuses; `sealing`, `applying`, `writing`, `recording`,
`rotating`, `resealing`: the awaits of `handleBackupConfirm`) and whether the
guardian still waits for the answer. A snapshot is applied as
snapshot.ts:124-126 does it: the database is closed, the file written, the
database opened again. `db` says what it is: the backup's own, the fleet's
state, `closed` while a confirmation writes, and after two writes at once or a
crash within one perhaps `empty` (a truncated file, opened as a fresh schema) or
`torn` (none that opens). Another handler that uses the database while it is
closed throws, as better-sqlite3 does, and answers 500 where it has got to.
`crossed` are the backups where two confirmations wrote at once. `large` are
guardians whose database, in base64, no longer fits the 100 kB that a request
may have by default (protocol/server.ts:30); it may have outgrown it whenever a
succession begins (`Initiate`). Sessions are numbers; a new one is the smallest
not in use, which stands for a fresh key pair. A guardian may begin a succession
whenever it is idle, because pings can be late at any time; pings themselves are
in `Heartbeat`. Three facts of this build shape the model: the candidates'
measurement is compared only if the config key `agent_rtmr3` is set, and nothing
sets it; the registry is never updated, because `index.ts` gives the handlers
neither a registry client nor a configuration; and the rotated key reaches no
guardian, because the guardian server has no handler for the route. Files are
assumed writable.

**Auction.** `auctions` are those of the stored blob. The ticker loads and saves
it in one action (`Tick`). `writer` are handlers between their load and their
save: the two kinds of the scheduler, which wait for the language model, and an
offer or a trading cycle ("other"), which put the auctions they loaded back. The
market signals are a choice. Prices are cents and percentages are rounded as the
code rounds them; times are minutes. `placeBid` and `scheduleAuction` have no
caller in `index.ts` and are modelled as what the classes offer.

**Payments.** A payment is an authorization `[by, call, sign]`: the caller, the
call and which signature of the call. `sent` and `settled` are what the seller
has seen and the contract has executed. A call is `ask`, `pay`, `paid`, and for
`addFunds` again `payAgain`, `paidAgain` after a 429. The seller is assumed
honest about success and about too little credit, and about nothing else.

**TransferMonitor.** A poll is `logs` (waiting for the head is one action with
it) and `handling` with the set of blocks to go, smallest first; the timer
starts polls whether or not one is under way. The set of transactions keeps its
order because the trimming depends on it. `handled` counts what the process
handed over; `crossed` records that the set was trimmed while polls overlapped.
`Fund` relies on what is checked here: its `inflight` transfers are handled at
most once by a process.

**Posting.** Times are ages, saturated at the window of their trigger. An event
is `writing` while it waits for the language model and the site, `answering`
once the site has taken the post and until its answer arrives, `challenged`
while it answers the challenge. `last` is what the agent notes, when the answer
arrives; `posted` what the site took, except that a post before a lost answer
of its trigger, or before a restart, does not count. `announced` is the survival
state the loop for X has seen. Whatever fails ends the event, as the `catch`
does; when the answer is lost, the post is never noted.

**Verification.** A challenge is a sequence of words, of which some are
stretched; collapsing repeated letters destroys a double letter of the word
itself. The reading is the fold `ExtractNumber` over `ReadWord`; each number in
words with each set of stretched words is an initial state.

**Replication.** A snapshot is the number of writes its contents have seen, its
sequence number, and the key it is encrypted with. The awaits are the signer,
the request to each guardian in turn, and the guardian's write of the file,
which another handler may do at the same time (`crossed`) and a restart may
interrupt; both may leave a file that is none. `held` is the guardian's key. A
guardian that starts has none and ignores pushes (main.ts:130) until it is
admitted: the answer brings the key and a snapshot, of any size (`answer`). It
asks ten times (main.ts:297) and then only listens, without a key; and on a file
that does not open it stops (main.ts:157); both are "over". `limit` is the
largest version that fits the 100 kB of a push
(guardian-http-server.ts:36). A succession gives the snapshots another key, the
one with which the new primary's machine started; guardians that were admitted
before do not have it and are not told. Lost pushes, time-outs and restarts
share the bound `MaxLoss`. A key set in the environment (`VAULT_KEY`) is not
modelled.

**Heartbeat.** The clock counts heartbeat intervals; every guardian looks at it
once in each. `round` holds the results of the rounds of pings that are under
way; `wire` the pings to guardians, which stay there to arrive again, late, or
never. A streak counts up to two ("more than one"). The answer "rejected" of
heartbeat/manager.ts:127 does not occur: the transport that the agent passes
catches every error, and the signer is local.

**Fleet.** Guardians and backups are counted. `work` is where `evaluate` waits;
each creation and each stop is a step, and may fail. Marks with a time are
"no", "new" or "old" against the delay they are compared with.

## 3. Runs

| Run | Instance | Properties |
|---|---|---|
| `fund_sales` | 1 wallet, 2 sales, 2 payments, 1 slow offer, memos, 1 restart (at the current block or at block 0) | `NothingCreditedTwice`, `OneNftPerSale`, `OneLiveSalePerWallet` |
| `fund_redeem` | 1 wallet, 2 NFTs, 2 requests, 1 restart, no slow handler, fair | `HoldingsKept`, `RedeemedOnce`, `OneQueuedPerToken`, `QueuedHasToken`, `PaidStaysPaid`, `QueuedSettles` |
| `fund_trade` | 1 wallet, 2 NFTs, 2 evaluations, 1 position, 1 request | `TypeOK`, `NavsSumToPool`, `DepositsAddUp` |
| `fund_overdraw` | 2 withdrawals | `LiquidNeverNegative` is violated |
| `fund_stale_sale` | 2 wallets, 2 sales, 1 slow offer, 1 payment | `PaidStaysPaid` is violated |
| `admission` | 2 guardians of different code, or a guardian and a backup with the end of the boot; 2 attempts each, fair | `TypeOK`, `FleetAgrees`, `InIsRecorded`, `LockStays`, `GuardianFleetSpec`, `BackupFleetSpec`, `ClientSettles` |
| `admission_stale_key` | 1 guardian, 2 attempts | `StoredKeyIsCurrent` is violated |
| `succession_race` | 2 guardians, 1 backup, 4 sessions, 1 time-out, 1 restart | `TypeOK`, `PromotedHasState`, `KeyIsRotated` |
| `succession_failover` | 1 guardian, 2 backups, 1 time-out, 1 restart, 1 stop, 1 database that may outgrow a request, fair | `OneCandidateAtATime`, `SuccessionSettles`, `SomeoneTakesOver` |
| `succession_split` | 2 guardians, 2 backups, no failure | `OneSuccessor` is violated |
| `agent_services` | auctions: 2 slow handlers, 2 auctions, 2 minutes; payments: 3 calls, 2 USDC, 2 of credit; transfers: 2 polls, 2 blocks, memory of 1, 1 failure, 1 restart; posts: 3 triggers on 2 sites, 2 events at a time, any answer lost, any restart; reading: every first number of 200 below a thousand, second numbers 0, 115 and 1100 (the last above the bound), every set of stretched words | `OneOpportunistic`, `AuctionsEnd`, `OnePaymentPerCall`, `CreationEnds`, `HandledOnce`, `EveryTransferHandled`, `RepeatOnlyOverlapping`, `UnclaimedNeverPosts`, `ReadsNumbersBelowThousand` |
| `protocol_services` | snapshots: 1 guardian, 2 pushes, 1 write, 2 numbers, 1 loss, time-out or restart, 1 succession; heartbeat: 1 backup, 1 guardian, 2 rounds, threshold 2, drift 1, 1 stop, 1 restart; fleet: 3 external guardians, 2 backups, 2 failures | `NumbersOrderContents`, `ReplicaCatchesUp`, `DetectedInTime`, `DeadBackupReset`, `DeprovisionKeepsThree`, `DeficitRepaired` |

Why these bounds are enough to be interesting: every hazard in the list needs
two actors (two sales of one wallet, two redemptions, two attempts of one
machine, two guardians) and at most one or two failures; each run has the two
and the failure, and its mutants show that the states where the property could
break are reached. `HandledOnce` was also checked with four blocks and three
polls at a time. `CHECK_DEADLOCK FALSE` everywhere: with bounded numbers of
sales, attempts and failures a run may come to an end.

`MaxSale`, `MaxToken`, `MaxRequest`, `MaxPayment`, `MaxPosition`, `MaxDecision`,
`MaxRestart`, `MaxOffer`, `MaxAttempt`, `MaxTimeout`, `MaxStop`, `MaxLarge`,
`MaxAuction`, `MaxTime`, `MaxStart`, `MaxCredit`, `MaxBlock`, `MaxFail`,
`MaxVersion`, `MaxNumber`, `MaxLoss`, `MaxExternal`, `MaxBackup` and the sets
`Session`, `Slot`, `Writer` and `Round` bound the instances. `MaxAttempt` and
`MaxProcessed` are also numbers in the code. At `MaxNumber` the sequence number
of snapshots stands still, and `NumbersOrderContents` speaks of the numbers
below it. Two snapshots, before and after one write, are enough for an older one
to arrive after a newer one, which is what the copies must survive; the theorem
has no such bound.

### Fairness

- `Fund!FairSpec`: the pass over the queue, a timer every 15 minutes
  (index.ts:794) whose callback runs to its end. Nothing is assumed of payments,
  of the model, of holders or of deadlines: `QueuedSettles` has as its
  hypothesis that from some time on no request in the queue is within its
  deadline. It is needed, because withdraw.ts:190 saves expiries only when
  nothing on the list is still queued: a steady stream of younger requests,
  which `MaxRequest` would otherwise exclude, starves a late one.
- `Admission!FairSpec`: a machine's own timers (ask again, give up). Nothing is
  assumed of the primary or the network.
- `Auction!FairSpec`: the ticker runs. Nothing of the language model.
- `Payments!FairSpec`: a request is answered or times out. The seller need not
  settle anything.
- `TransferMonitor!FairSpec`: the timer starts polls and requests end; that
  every failure is the last one follows from `MaxFail` only.
- `Heartbeat!FairSpec`: interval timers, and requests that end. No ping need
  arrive.
- `Replication!FairSpec`: the push timer, requests that arrive or fail, writes
  that end. Losses and restarts are finitely many, by `MaxLoss`: with losses for
  ever no copy would catch up. Nothing is assumed of admissions:
  `ReplicaCatchesUp` is promised to a guardian that from some time on holds the
  key of the snapshots and has not written two at once, once the writes are over
  and the database fits a push.
- `Fleet!FairSpec`: time passes and the caller goes on calling `evaluate`.
- `Succession!FairSpec`: no ping comes any more and the guardian's interval
  timer runs; connections to dead machines break; stand-down ends (two-minute
  deadline); a handler that somebody waits for goes on. Nothing makes a call
  time out. The takeover is promised to a single guardian that is left, whose
  database fits a request, when some candidate stays up and two writes never
  meet there. Two guardians can replace each other's sessions again and again,
  and a database that outgrew a request is refused by everyone for ever.

## 4. What the violated properties show

- `fund_overdraw`: the balance is compared (withdraw.ts:69) before the cache
  write and reduced after it (82-90), so two redemptions that are each covered
  are paid together and `liquidUsdcBalance` goes below zero.
- `fund_stale_sale`: an accepted offer (server.ts:652), or an evaluation
  (loop.ts:167), saves a blob older than a payment. A sale that was open when
  the blob was loaded awaits payment again, one that was opened later is gone,
  and in both cases so is the NFT that was paid for.
- `admission_stale_key`: the slow handler of an attempt the guardian gave up
  finishes last and overwrites the public key of the accepted one
  (admission.ts:207).
- `succession_split`: the second guardian's `ready` replaces the session the
  first one needs (handlers.ts:213); the first goes to its next candidate, and
  two backups are promoted. `selector.ts:11` promises convergence.

Known from the same models or from reading, without a run of their own: a
restart between `redeemNft` and the record of the request (withdraw.ts:161)
leaves a queued request whose NFT is gone, which can only expire; a pass with
both late and unpaid requests expires none of them (withdraw.ts:142, the object
it changes is reloaded); an evaluation can put a redeemed NFT back; a restart
between `ready` and `confirm` promotes a backup without state; a second
guardian's confirmation rolls a running primary back to an older snapshot; a
primary that restarts between locking a measurement and writing the row keeps a
lock nobody holds; English auctions never receive a bid, because nothing calls
`placeBid`; an agent that registers with Moltbook through this program never
posts, because only a challenge after a post verifies it (`UnclaimedNeverPosts`
says so); "twenty thhree" in a challenge is read as 20 and the answer submitted,
although `verification.ts:6` says never to submit a guess, because the second
word is not recognised; from a thousand on, "hundred" multiplies the thousands
too; `createVm` repeats its top-up as often as it is refused, where its comment
(secretvm.ts:234) says once; a primary that rotated its key pushes snapshots no
guardian can read; a creation of a guardian that succeeds before one that fails
leaves a pending mark that nothing clears below two guardians; spending
recorded while the tracker is being saved (index.ts:848) is set to zero with the
rest; two transfers to the agent in one transaction are handled as one
(usdc-monitor.ts:77); a monitor whose start fails at `getBlockNumber` credits
every transfer of the past again: an old payment without a memo pays a sale its
sender has open now, or counts once more as a donation (`NothingCreditedTwice`
allows exactly what was fetched again); a steady stream of younger redemption
requests keeps a late one from expiring (withdraw.ts:190); two confirmations
that write at once may leave a backup's database empty or torn, and promote it
without the state (snapshot.ts:124-126); the 100 kB that `express.json()` allows
by default refuse every confirmation (protocol/server.ts:30) and every push
(guardian-http-server.ts:36) once the database has grown, from every candidate
and on every retry; a post whose answer is lost is made again
(posting-loop.ts:114-124, x-posting-loop.ts:55-59); a guardian that restarts
ignores pushes until it is admitted again, may give up asking (main.ts:297), or
stops on a file that it cannot open (main.ts:157).

## 5. Theorems

All are proved for every value of the constants, from the named assumptions
(`LedgerBounds`, `FundBounds`, `AdmissionAssumption`, `SuccessionAssumption`,
`AuctionAssumption`, `ReplicationAssumption`; for services that `MCAgent` and
`MCProtocol` instantiate, `InstanceAssumption`, the conjunction of theirs, or
their own assumption as a hypothesis). TLC evaluates all of them.

**FundProofs** - First `OneLiveSale` and `QueuedOnce`, with stale saves and
restarts. The invariant `IInv` says of *every blob in the system*, the store and
the copies in the hands of slow handlers, that it has one live sale per wallet
and one queued request per token, and that a pending offer's wallet has no live
sale in the offer's own copy. It must speak of the copies because any of them
may become the store. Steps either *narrow* a blob (`Narrows`: nothing new is
open or queued) or add one sale or request guarded by a check of the same blob.
`EveryNftWasBought` (`OneNftPerSale`), also with stale saves: `PInv` says of
every blob in the system that it has at least as many paid purchases as NFTs. It
needs `OneLive` too, because the sale a transfer completes is chosen among the
sender's live ones. `RedeemedAtMostOnce`, `HoldingsRefinement`,
`FulfilledStaysGone`, `QueueOwnsItsTokens` and `PaymentsStay` assume
`NoStaleSaves` (no offers, no evaluations); the run `fund_stale_sale` and
reading show what happens without it. `RInv` follows a token: it is among the
NFTs, on its way between the two saves of a redemption in the hands of exactly
one worker, or gone; it leaves the NFTs with the first save and is paid with the
second. It also says that the requests on the old list of a pass are still the
queue's, which holds because ids are fresh and only the pass settles requests.
`HoldingsRefinement` (`HoldingsKept`) shows that `Fund` implements `Holdings`: a
token is *held* while it is among the NFTs, *leaving* between the two saves of
its redemption, and *paid* once a request or a withdrawal says so. Each action
of the fund maps to one step of `Holdings` or to none: a payment for an NFT to
`Mint`, the first save of a withdrawal or of a round of the pass to `Leave`, the
second to `PayOut`, a restart to `Crash`, which loses what was leaving. The hard
case is the pass, whose expiry reloads the store and marks requests of a list
read before it: `RInv` says that what is expired or fulfilled there is what the
queue still had. `FulfilledStaysGone` follows for `Fund` from `OnePlace`, an
invariant of `Holdings`: a token that left, paid or not, is never held again.

**SumLemmas, FundMoneyProofs** - The amounts of the fund. `FundLedger` adds with
the folds of the community module `Functions`, recursive functions over the
subsets of a set. What is needed of them (an element more, an element changed,
equal terms, terms multiplied) is proved in `SumLemmas` for every finite set,
from a minimal counterexample, because the induction theorems of the library
cannot be instantiated by the provers installed. `WellTyped` (`TypeOK`) follows
with `TInv`, which types what every slow handler holds. `DepositsAreHeld`
(`DepositsAddUp`) and `CreditedOnce` (`NothingCreditedTwice`) come from `MInv`:
every blob's total of deposits is that of its NFTs, and with the donations it is
no more than what was handled *by now*: the transfers that were taken and will
not be fetched again, plus, in `refetched`, what was taken before and was put
back by a restart at block 0. That amount only grows - such a restart moves it
from the first part to the second - so a blob that is saved long after it was
read still satisfies it. Where no start fails, `refetched` is zero and the
theorem says that no transfer is credited twice; where one does, that what is
credited again is no more than the chain was read again. `NavsStayWhole`
(`NavsSumToPool`): the navs of every blob in the system add up to its pool's
value, or to zero (`NInv`). Each handler changes one nav and the value alike, or
the value alone and then recalculates; shares are whole, hence add up to the
value. The theorem has a hypothesis, `NavsDontCancel`: in a pool with a value
the navs never cancel to zero without all being zero. `recalculateAllNavs`
leaves navs that add up to zero as they are, whatever the value (nav.ts:28), and
the next purchase is divided by the nav it brought; whether the sum then is the
value depends on roundings that the model does not have. It takes a holder with
a negative nav, hence recorded losses above the deposits that are left.
`NavsOfHolders` states the consequence: the navs add up in every behaviour in
which none is negative. TLC checks `NavsSumToPool`, and on its instances the
hypothesis holds.

**AdmissionProofs** - `TypeCorrect`, `Recorded`, `OneFleet`, `LocksNeverMove`,
and that Admission implements Membership for guardians and for backups. The
invariant `Trace` follows what is known of a machine from the handler that
attested it to its row, to the answer on its way, to the machine itself.

**SuccessionProofs** - `TypeCorrect`, `OneCandidate`, `StateBeforeRole` and
`KeyRotation`. `Plan` says that a guardian waits for at most the call to the
first candidate it has left, and a stopped one for none. `Ahead` says, per
backup and whoever called, what each await of a confirmation already guarantees,
outside `Lost` (backups that restarted, stopped, or wrote two confirmations at
once). `StateOf`: the database is the backup's own, the state, or closed, and
then some call is writing; a session is pending or the state is there when a
confirmation arrives; after `writing` the state is there, or closed because
another confirmation writes it once more. `RotationOf`: while a key that is not
the new primary's own is in force or sealed, some confirmation at that backup
has its rotation still ahead. `StateBeforeRole` is about overlapping sessions
and confirmations in any order; that two *writes* at once are excluded is in the
property, because the code does not survive them.

**AgentProofs** - Four services of the agent, then `MCAgent` itself, so that
each theorem named `...InAgent` is about the specification the run checks.

- *Auctions*: `TypeCorrect` and `OneOpportunisticAuction`. As in the fund, the
  invariant speaks of every blob: the stored auctions and those each slow
  handler holds have at most one live impulsive auction, and a check of the
  scheduler holds a blob with *no* live auction at all. The last conjunct is
  what makes the save of an overlapping check safe: it may undo another's
  auction, and never adds to it. `Tick` and bids make no auction live again.
- *Payments*: `PayTypes`, `OnePayment`. `PayInv` says that calls are numbered
  once: whatever was sent carries the first signature of a call not later than
  `calls`, two authorizations of one call are equal, and what a caller is paying
  with carries the number of its own call. It needs the callers' pending
  authorizations, because any of them may be settled later.
- *Transfers*: `HandedOverOnce` (`HandledOnce`). Every poll sets the cursor to
  its own head, so the cursor moves back when an older poll ends last, and
  transfers are asked for again; only the set of handled ones keeps them from
  being handed over twice, and it is trimmed. `MInv` says that there is a block,
  the *floor*, not above the cursor, and below every head and transfer in the
  hands of a poll, such that every handled transfer above it is still in the
  set, and so is every transfer up to the cursor, up to any element of the set,
  and - with what it still has to go - up to the head of any poll. The last
  three say that the set has no holes, which is why a trim by the only poll
  under way may move the floor to that poll's head: the set grew too large in
  the hands of a poll whose head is above all of it. A trim while another poll
  is under way is `crossed`.
- *Posts*: `RepeatsOverlap` (`RepeatOnlyOverlapping`) and `NeverPosts`
  (`UnclaimedNeverPosts`). The first follows from two invariants. `Overlap`: an
  event begins outside the noted window, so whatever is noted within it was
  noted after the event began; post and event grow older alike up to the window.
  `Noted`: a post that counts is noted, or its answer is still awaited; a lost
  answer is why some posts do not count. The second needs that an unverified
  agent has no event on Moltbook at all, and that only Moltbook answers with a
  challenge: then nothing can set the flag.

**VerificationProofs** - What the reader of challenges computes, for every
number it should understand. `NumbersRead`: every number from 0 to 999, said in
the words the code knows with any of them stretched in a way the code can undo,
is extracted as that number. A number below a thousand is at most four words
("nine hundred ninety nine"), so the fold over the words, a recursive function
over sets of positions, is unrolled four times (`Unrolled`), and each shape of a
number (a digit or teen, tens, hundreds with either) is one case. Which words
survive the collapse of repeated letters is in the hypothesis that the number is
*heard*. `NumbersBelowThousand` (`ReadsNumbersBelowThousand`) carries it to the
specification, where the two numbers of a challenge are read one after the
other; `NumbersReadInAgent` to the specification that the run checks. The bounds
on both operands are in the property, and any set of operands will do: from a
thousand on, "hundred" multiplies the thousands too.

**ProtocolProofs** - Three services of the protocol, then `MCProtocol` itself
(`...InProtocol`).

- *Snapshots*: `TypeCorrect` and `NumbersOrder`. The invariant speaks of all
  snapshots that exist anywhere - being signed, on their way, being written -
  and of the counters: none is newer than `version` or above `number`, and the
  numbers order the contents. A new snapshot gets a larger number and the
  present contents. Those on their way include the answers to admissions, and
  restarts in the middle of a write only forget some.
- *Heartbeat*: `HeartTypes` and `Detection` (`DetectedInTime`). The invariant
  bounds the age of pings from below by the time the primary is down, hence the
  silence of every guardian that accepts one; a silence above the threshold that
  was looked at has been acted on.
- *Fleet*: `KeepsThree` (`DeprovisionKeepsThree`): what is still to be taken
  down is the manager's own and leaves three; admissions only add.

In an instance, the invariant is that of every service at once; a step of one
leaves the variables of the others alone.

Only model-checked: everything about liveness and fairness (`QueuedSettles`,
`ClientSettles`, `SuccessionSettles`, `SomeoneTakesOver`, `AuctionsEnd`,
`CreationEnds`, `EveryTransferHandled`, `ReplicaCatchesUp`, `DeadBackupReset`,
`DeficitRepaired`), which is out of the prover's reach. Every other property of
a passing run is a theorem.

## 6. Plan

Done: `FundLedger`, `Fund` and `Holdings`; `Membership` and `Admission`;
`Succession`; `Auction`, `Payments`, `TransferMonitor`, `Posting`,
`Verification`; `Replication`, `Heartbeat`, `Fleet`; and the theorems of section
5.

Left, in this order:

1. The order of confirmations at one backup: `Succession` would have to record
   the age of the database a confirmation brings.
2. The nonce cache with its eviction, and the accounting of x402 spending.

## 7. Not modelled, and why

Market data, swaps, indicators: network calls and float arithmetic without
state. Chain and registry clients: encoders around external calls, as are the
headers, terms and forms of the payment client. The tracker of x402 spending
only accounts. Persona and prompts: they read the state only. Digits, capitals
and punctuation in challenges. `restartGuardian` and the peer registry, which
nothing calls. `DEV_MODE`. Public page and cache: rendering;
the cache write is in `Fund` as the await it is. Quote parsing: string work.
Tests and containers. Cryptography is abstracted throughout to who holds which
key or session. `PROJECT.json` gives the reason for each component.
