------------------------------- MODULE Auction -------------------------------
(***************************************************************************)
(* The auctions of the agent: a scheduler that opens them after asking a   *)
(* language model, and a ticker that runs every minute.                    *)
(*                                                                         *)
(* All of them live in the one blob of the fund's state.  The ticker loads *)
(* and saves it in one go.  The scheduler, and the fund's own slow         *)
(* handlers (an offer, a trading cycle), load it, wait for an answer from  *)
(* outside, and save what they loaded with their own change: whatever      *)
(* happened in between is undone.  Nothing bounds the wait, so two checks  *)
(* of the scheduler may overlap.                                           *)
(*                                                                         *)
(* The market signals are a choice: a check may or may not find a reason.  *)
(* Nothing in index.ts calls placeBid or scheduleAuction; they are         *)
(* modelled as operations the classes offer.  Prices are in cents, times   *)
(* in minutes.  MaxAuction and MaxTime are bounds of the model.            *)
(***************************************************************************)
EXTENDS Integers, FiniteSets

CONSTANTS
  Writer,         \* the slow handlers that may be under way at a time
  Type,           \* "dutch", "english" and "flash"
  ScheduleAt,     \* the times asked for
  StartPrice,     \* what the language model may answer
  Duration,
  BidAmount,
  DropInterval,   \* DUTCH_DROP_INTERVAL_MS
  Extension,      \* ENGLISH_EXTENSION_MS
  MaxAuction, MaxTime

ASSUME AuctionAssumption ==
  /\ Type \subseteq {"dutch", "english", "flash"}
  /\ StartPrice \subseteq Nat /\ Duration \subseteq Nat /\ BidAmount \subseteq Nat
  /\ ScheduleAt \subseteq Nat /\ DropInterval \in Nat /\ Extension \in Nat
  /\ MaxAuction \in Nat /\ MaxTime \in Nat

VARIABLES
  auctions,  \* the auctions of the stored blob, a function of their numbers
  drawn,     \* the number of auctions created so far
  writer,    \* what each slow handler does, with the auctions it loaded
  now

vars == <<auctions, drawn, writer, now>>

Live(a)     == a.status \in {"scheduled", "active"}
AnyLive(as) == \E i \in DOMAIN as : Live(as[i])

NoAuctions == [i \in {} |-> i]
Idle       == [pc |-> "idle", at |-> 0, held |-> NoAuctions]

Init ==
  /\ auctions = NoAuctions /\ drawn = 0 /\ now = 0
  /\ writer = [w \in Writer |-> Idle]

-----------------------------------------------------------------------------
\* The engine: operations on one auction.

\* Number(x).toFixed of a percentage of a price, half a cent up.
Percent(p, c) == (p * c + 50) \div 100

\* createAuction.  The first drop of a Dutch auction counts from its
\* creation, also when the auction opens later.
NewAuction(type, price, duration, by, at) ==
  LET opens == IF at > now THEN at ELSE now
  IN  [type |-> type, by |-> by, opens |-> opens,
       status |-> IF at > now THEN "scheduled" ELSE "active",
       start |-> price, price |-> price, bids |-> {},
       drops |-> IF type = "dutch" THEN now + DropInterval ELSE 0,
       ends |-> opens + duration]

Activate(a, t) ==
  IF a.status = "scheduled" /\ a.opens <= t THEN [a EXCEPT !.status = "active"] ELSE a

\* tickDutchAuction, and the ticker that keeps its result, with the time of
\* the next drop, only when the price has changed.
Drop(a, t) ==
  LET floor   == Percent(50, a.start)
      dropped == Percent(95, a.price)
      price   == IF dropped > floor THEN dropped ELSE floor
  IN  IF a.status = "active" /\ a.type = "dutch" /\ t >= a.drops /\ price # a.price
      THEN [a EXCEPT !.price = price, !.drops = @ + DropInterval]
      ELSE a

\* Mutant: an auction without bids is left as it is.
CloseSold(a, t) ==
  IF a.status = "active" /\ t > a.ends /\ a.bids # {}
  THEN [a EXCEPT !.status = "settled"] ELSE a

Close(a, t) ==
  IF a.status = "active" /\ t > a.ends
  THEN [a EXCEPT !.status = IF a.bids = {} THEN "cancelled" ELSE "settled"] ELSE a

-----------------------------------------------------------------------------
\* A minute passes and the ticker runs.  The last minute lasts.
Tick ==
  LET t == IF now < MaxTime THEN now + 1 ELSE now
  IN  /\ now' = t
      /\ auctions' = [i \in DOMAIN auctions |->
                        Close(Drop(Activate(auctions[i], t), t), t)]
      /\ UNCHANGED <<drawn, writer>>

PlaceBid(i, amount) ==
  LET a == auctions[i]
      ends == IF a.ends - now < Extension THEN now + Extension ELSE a.ends
  IN  /\ a.type = "english" /\ a.status = "active" /\ amount > a.price
      /\ ends < MaxTime
      /\ auctions' = [auctions EXCEPT ![i].bids = @ \cup {amount},
                                      ![i].price = amount, ![i].ends = ends]
      /\ UNCHANGED <<drawn, writer, now>>

\* A slow handler loads the blob ...
Load(w, pc, at) ==
  /\ writer[w] = Idle
  /\ writer' = [writer EXCEPT ![w] = [pc |-> pc, at |-> at, held |-> auctions]]
  /\ UNCHANGED <<auctions, drawn, now>>

\* Mutant: the check does not look for an auction that is under way.
CheckAlways(w) == Load(w, "check", 0)

CheckOpportunistic(w) == ~AnyLive(auctions) /\ Load(w, "check", 0)

\* No look at the auctions under way.
ScheduleAuction(w, at) == Load(w, "schedule", at)

\* handleOffer, or a trading cycle.
LoadOther(w) == Load(w, "other", 0)

\* ... and saves it with the auction the language model has decided on,
Decided(w, type, price, duration) ==
  LET s  == writer[w]
      by == IF s.pc = "check" THEN "opportunistic" ELSE "scheduled"
      a  == NewAuction(type, price, duration, by, s.at)
  IN  /\ s.pc \in {"check", "schedule"}
      /\ drawn < MaxAuction /\ a.ends < MaxTime
      /\ drawn' = drawn + 1
      /\ auctions' = [i \in DOMAIN s.held \cup {drawn'} |->
                        IF i = drawn' THEN a ELSE s.held[i]]
      /\ writer' = [writer EXCEPT ![w] = Idle]
      /\ UNCHANGED now

\* with a change elsewhere in the state,
SaveOther(w) ==
  /\ writer[w].pc = "other"
  /\ auctions' = writer[w].held
  /\ writer' = [writer EXCEPT ![w] = Idle]
  /\ UNCHANGED <<drawn, now>>

\* or not at all: the language model fails, or there is nothing to change.
GiveUp(w) ==
  /\ writer[w] # Idle
  /\ writer' = [writer EXCEPT ![w] = Idle]
  /\ UNCHANGED <<auctions, drawn, now>>

Handler(w) ==
  \/ CheckOpportunistic(w)
  \/ \E at \in ScheduleAt : ScheduleAuction(w, at)
  \/ LoadOther(w)
  \/ \E type \in Type, price \in StartPrice, duration \in Duration :
       Decided(w, type, price, duration)
  \/ SaveOther(w)
  \/ GiveUp(w)

Next ==
  \/ Tick
  \/ \E i \in DOMAIN auctions, amount \in BidAmount : PlaceBid(i, amount)
  \/ \E w \in Writer : Handler(w)

Spec == Init /\ [][Next]_vars

\* The ticker is an interval timer whose errors are caught.  Nothing is
\* assumed of the language model.
Fairness == WF_vars(Tick)

FairSpec == Spec /\ Fairness

-----------------------------------------------------------------------------
AuctionRecord ==
  [type : Type, by : {"opportunistic", "scheduled"},
   status : {"scheduled", "active", "cancelled", "settled"}, opens : Nat,
   start : Nat, price : Nat, bids : SUBSET BidAmount, drops : Nat, ends : Nat]

\* TLC cannot enumerate this set: the types are proved, not checked.
Auctions == UNION {[S -> AuctionRecord] : S \in SUBSET (1..MaxAuction)}

Slow == [pc : {"idle", "check", "schedule", "other"}, at : Nat, held : Auctions]

TypeOK ==
  /\ auctions \in Auctions
  /\ drawn \in 0..MaxAuction
  /\ writer \in [Writer -> Slow]
  /\ now \in Nat

LiveOpportunistic(as) == {i \in DOMAIN as : as[i].by = "opportunistic" /\ Live(as[i])}

\* There is never more than one auction under way that the agent opened on
\* impulse, although checks overlap, wait for the language model, and save
\* what they loaded before.
OneOpportunistic ==
  \A i, j \in LiveOpportunistic(auctions) : i = j

\* An auction that is announced or open is some time later over, also when
\* a slow handler puts an old state of it back.
AuctionsEnd ==
  \A i \in 1..MaxAuction :
    (i \in DOMAIN auctions /\ Live(auctions[i]))
      ~> ~(i \in DOMAIN auctions /\ Live(auctions[i]))
=============================================================================
