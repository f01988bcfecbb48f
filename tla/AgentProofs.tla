----------------------------- MODULE AgentProofs -----------------------------
(***************************************************************************)
(* Proofs about Auction, Payments, TransferMonitor and Posting, in this    *)
(* order, and about the instance MCAgent that the run checks.  They share  *)
(* no state; names of the last three carry the prefixes Pay!, Monitor! and *)
(* Posts! of their instances.                                              *)
(***************************************************************************)
EXTENDS MCAgent, SequenceTheorems, TLAPS

\* The challenges are read as VerificationProofs proves.
Read == INSTANCE VerificationProofs

-----------------------------------------------------------------------------
(***************************************************************************)
(* Auction: types, and that the agent never has two auctions under way     *)
(* that it opened on impulse.                                              *)
(*                                                                         *)
(* A check that waits for the language model holds the auctions it loaded, *)
(* and it went on only because none of them was live. What it saves is     *)
(* therefore those and its own: two checks that overlap undo each other's  *)
(* auction instead of opening two. The invariant says so of everything     *)
(* that is held, and needs of the ticker only that it wakes no auction.    *)
(***************************************************************************)

\* At most one live auction opened on impulse.
Single(as) == \A i, j \in LiveOpportunistic(as) : i = j

IInv ==
  /\ TypeOK
  /\ Single(auctions)
  /\ \A w \in Writer :
       /\ Single(writer[w].held)
       /\ writer[w].pc = "check" => ~AnyLive(writer[w].held)

Minute == IF now < MaxTime THEN now + 1 ELSE now

-----------------------------------------------------------------------------
\* What is in the set of auction functions, and how one gets there.
LEMMA AuctionsAre ==
  ASSUME NEW as \in Auctions
  PROVE  /\ DOMAIN as \subseteq 1..MaxAuction
         /\ as \in [DOMAIN as -> AuctionRecord]
         /\ \A i \in DOMAIN as : as[i] \in AuctionRecord
BY DEF Auctions

\* How one gets into it.
LEMMA AuctionsIntro ==
  ASSUME NEW S \in SUBSET (1..MaxAuction), NEW f \in [S -> AuctionRecord]
  PROVE  f \in Auctions
BY DEF Auctions

\* No auctions are some.
LEMMA NoneIsAuctions == NoAuctions \in Auctions
<1>1. NoAuctions \in [{} -> AuctionRecord]
  BY DEF NoAuctions
<1> QED BY <1>1, AuctionsIntro

-----------------------------------------------------------------------------
\* The operations of the engine keep the record, its origin, and wake nothing.
LEMMA PercentNat == ASSUME NEW c \in Nat PROVE Percent(50, c) \in Nat /\ Percent(95, c) \in Nat
BY DEF Percent

\* An auction that is announced, or opens.
LEMMA ActivateKeeps ==
  ASSUME NEW a \in AuctionRecord, NEW t \in Nat
  PROVE  /\ Activate(a, t) \in AuctionRecord
         /\ Activate(a, t).by = a.by
         /\ Live(Activate(a, t)) => Live(a)
BY DEF Activate, AuctionRecord, Live

\* The price drops.
LEMMA DropKeeps ==
  ASSUME NEW a \in AuctionRecord, NEW t \in Nat
  PROVE  /\ Drop(a, t) \in AuctionRecord
         /\ Drop(a, t).by = a.by
         /\ Live(Drop(a, t)) => Live(a)
<1>1. a.start \in Nat /\ a.price \in Nat /\ a.drops \in Nat
  BY DEF AuctionRecord
<1>2. Percent(50, a.start) \in Nat /\ Percent(95, a.price) \in Nat
  BY <1>1, PercentNat
<1>3. a.drops + DropInterval \in Nat
  BY <1>1, AuctionAssumption
<1> QED BY <1>2, <1>3 DEF Drop, AuctionRecord, Live

\* An auction ends.
LEMMA CloseKeeps ==
  ASSUME NEW a \in AuctionRecord, NEW t \in Nat
  PROVE  /\ Close(a, t) \in AuctionRecord
         /\ Close(a, t).by = a.by
         /\ Live(Close(a, t)) => Live(a)
BY DEF Close, AuctionRecord, Live

\* A new auction.
LEMMA NewAuctionIs ==
  ASSUME NEW type \in Type, NEW price \in StartPrice, NEW duration \in Duration,
         NEW by \in {"opportunistic", "scheduled"}, NEW at \in Nat, now \in Nat
  PROVE  /\ NewAuction(type, price, duration, by, at) \in AuctionRecord
         /\ NewAuction(type, price, duration, by, at).by = by
<1>1. price \in Nat /\ duration \in Nat /\ DropInterval \in Nat
  BY AuctionAssumption
<1>2. now + DropInterval \in Nat /\ at + duration \in Nat /\ now + duration \in Nat
  BY <1>1
<1> QED BY <1>1, <1>2 DEF NewAuction, AuctionRecord
-----------------------------------------------------------------------------
\* A set of auctions stays single when some are left out, or end.
LEMMA SingleShrinks ==
  ASSUME NEW as, NEW bs, Single(as), DOMAIN bs \subseteq DOMAIN as,
         \A i \in DOMAIN bs : bs[i].by = as[i].by /\ (Live(bs[i]) => Live(as[i]))
  PROVE  Single(bs)
<1>1. LiveOpportunistic(bs) \subseteq LiveOpportunistic(as)
  BY DEF LiveOpportunistic
<1> QED BY <1>1 DEF Single

\* One auction put into a set in which none is live leaves it single.
LEMMA SingleStarts ==
  ASSUME NEW as, NEW bs, NEW k, ~AnyLive(as), DOMAIN bs \subseteq DOMAIN as \cup {k},
         \A i \in DOMAIN bs : i # k => bs[i] = as[i]
  PROVE  Single(bs)
<1>1. \A i \in LiveOpportunistic(bs) : i = k
  BY DEF LiveOpportunistic, AnyLive
<1> QED BY <1>1 DEF Single

\* One that was scheduled does not count.
LEMMA SingleWithScheduled ==
  ASSUME NEW as, NEW bs, NEW k, Single(as), DOMAIN bs \subseteq DOMAIN as \cup {k},
         k \in DOMAIN bs => bs[k].by = "scheduled",
         \A i \in DOMAIN bs : i # k => bs[i] = as[i]
  PROVE  Single(bs)
<1>1. LiveOpportunistic(bs) \subseteq LiveOpportunistic(as)
  BY DEF LiveOpportunistic
<1> QED BY <1>1 DEF Single

-----------------------------------------------------------------------------
\* There are no auctions at the start, at whatever time that is.
LEMMA NoAuctionsInv ==
  ASSUME auctions = NoAuctions, drawn = 0, writer = [w \in Writer |-> Idle],
         now \in 0..MaxTime
  PROVE  IInv
<1>1. Single(NoAuctions)
  BY DEF Single, LiveOpportunistic, NoAuctions
<1>2. Idle \in Slow
  BY NoneIsAuctions DEF Idle, Slow
<1>3. TypeOK
  BY <1>2, NoneIsAuctions, AuctionAssumption DEF TypeOK
<1>4. \A w \in Writer : Single(writer[w].held) /\ writer[w].pc # "check"
  BY <1>1 DEF Idle
<1> QED BY <1>1, <1>3, <1>4 DEF IInv

\* The first state.
LEMMA InitInv == Init => IInv
<1>1. 0 \in 0..MaxTime
  BY AuctionAssumption
<1> QED BY <1>1, NoAuctionsInv DEF Init

\* The ticker goes through all auctions.
LEMMA TickInv == IInv /\ Tick => IInv'
<1> SUFFICES ASSUME IInv, Tick PROVE IInv'
  OBVIOUS
<1> USE DEF IInv
<1>1. Minute \in Nat /\ now' = Minute /\ UNCHANGED <<drawn, writer>>
  BY DEF TypeOK, Minute, Tick
<1>2. auctions' = [i \in DOMAIN auctions |->
                     Close(Drop(Activate(auctions[i], Minute), Minute), Minute)]
  BY DEF Tick, Minute
<1>3. DOMAIN auctions \subseteq 1..MaxAuction
      /\ \A i \in DOMAIN auctions : auctions[i] \in AuctionRecord
  BY AuctionsAre DEF TypeOK
<1>4. ASSUME NEW i \in DOMAIN auctions
      PROVE  /\ auctions'[i] \in AuctionRecord
             /\ auctions'[i].by = auctions[i].by
             /\ Live(auctions'[i]) => Live(auctions[i])
  <2> DEFINE a == Activate(auctions[i], Minute)
             d == Drop(a, Minute)
  <2>1. a \in AuctionRecord /\ a.by = auctions[i].by /\ (Live(a) => Live(auctions[i]))
    BY <1>1, <1>3, ActivateKeeps
  <2>2. d \in AuctionRecord /\ d.by = a.by /\ (Live(d) => Live(a))
    BY <1>1, <2>1, DropKeeps
  <2>3. auctions'[i] = Close(d, Minute)
    BY <1>2
  <2>4. Close(d, Minute) \in AuctionRecord /\ Close(d, Minute).by = d.by
        /\ (Live(Close(d, Minute)) => Live(d))
    BY <1>1, <2>2, CloseKeeps
  <2> HIDE DEF a, d
  <2> QED BY <2>1, <2>2, <2>3, <2>4
<1>5. DOMAIN auctions' = DOMAIN auctions
  BY <1>2
<1>6. auctions' \in [DOMAIN auctions -> AuctionRecord]
  BY <1>2, <1>4, <1>5
<1>7. TypeOK'
  BY <1>1, <1>3, <1>6, AuctionsIntro DEF TypeOK
<1>8. Single(auctions)'
  <2>1. \A i \in DOMAIN auctions' :
          auctions'[i].by = auctions[i].by /\ (Live(auctions'[i]) => Live(auctions[i]))
    BY <1>4, <1>5
  <2>2. Single(auctions')
    BY <2>1, <1>5, SingleShrinks
  <2> QED BY <2>2
<1> QED BY <1>1, <1>7, <1>8

\* A bid changes one auction.
LEMMA BidInv ==
  ASSUME IInv, NEW i \in DOMAIN auctions, NEW amount \in BidAmount, PlaceBid(i, amount)
  PROVE  IInv'
<1> USE DEF IInv
<1> DEFINE a == auctions[i]
           ends == IF a.ends - now < Extension THEN now + Extension ELSE a.ends
           b == [a EXCEPT !.bids = @ \cup {amount}, !.price = amount, !.ends = ends]
<1>1. DOMAIN auctions \subseteq 1..MaxAuction
      /\ auctions \in [DOMAIN auctions -> AuctionRecord] /\ a \in AuctionRecord
  BY AuctionsAre DEF TypeOK
<1>2. auctions' = [auctions EXCEPT ![i] = b] /\ UNCHANGED <<drawn, writer, now>>
  BY DEF PlaceBid
<1>3. ends \in Nat /\ amount \in Nat
  BY <1>1, AuctionAssumption DEF TypeOK, AuctionRecord
<1>4. b \in AuctionRecord /\ b.by = a.by /\ b.status = a.status
  BY <1>1, <1>3 DEF AuctionRecord
<1> HIDE DEF b, ends
<1>5. auctions' \in [DOMAIN auctions -> AuctionRecord] /\ DOMAIN auctions' = DOMAIN auctions
  BY <1>1, <1>2, <1>4
<1>6. TypeOK'
  BY <1>1, <1>2, <1>5, AuctionsIntro DEF TypeOK
<1>7. \A j \in DOMAIN auctions' :
        auctions'[j].by = auctions[j].by /\ (Live(auctions'[j]) => Live(auctions[j]))
  BY <1>1, <1>2, <1>4, <1>5 DEF Live
<1>8. Single(auctions')
  BY <1>5, <1>7, SingleShrinks
<1> QED BY <1>2, <1>6, <1>8

\* A slow handler holds the auctions it loaded.
LEMMA LoadInv ==
  ASSUME IInv, NEW w \in Writer, NEW pc \in {"check", "schedule", "other"}, NEW at \in Nat,
         pc = "check" => ~AnyLive(auctions), Load(w, pc, at)
  PROVE  IInv'
<1> USE DEF IInv
<1> DEFINE slow == [pc |-> pc, at |-> at, held |-> auctions]
<1>1. slow \in Slow
  BY DEF TypeOK, Slow
<1>2. writer' = [writer EXCEPT ![w] = slow] /\ UNCHANGED <<auctions, drawn, now>>
  BY DEF Load
<1>3. TypeOK'
  BY <1>1, <1>2 DEF TypeOK
<1>4. \A v \in Writer : writer'[v] = IF v = w THEN slow ELSE writer[v]
  BY <1>2 DEF TypeOK
<1>5. slow.held = auctions /\ slow.pc = pc
  OBVIOUS
<1> HIDE DEF slow
<1>6. \A v \in Writer : /\ Single(writer'[v].held)
                        /\ writer'[v].pc = "check" => ~AnyLive(writer'[v].held)
  BY <1>4, <1>5
<1> QED BY <1>2, <1>3, <1>6

\* A handler that is over holds nothing.
LEMMA EndsInv ==
  ASSUME TypeOK, NEW w \in Writer, writer' = [writer EXCEPT ![w] = Idle],
         \A v \in Writer : Single(writer[v].held)
                           /\ (writer[v].pc = "check" => ~AnyLive(writer[v].held))
  PROVE  /\ writer' \in [Writer -> Slow]
         /\ \A v \in Writer : Single(writer'[v].held)
                              /\ (writer'[v].pc = "check" => ~AnyLive(writer'[v].held))
<1>1. Idle \in Slow /\ Idle.held = NoAuctions /\ Idle.pc = "idle"
  BY NoneIsAuctions DEF Idle, Slow
<1>2. Single(NoAuctions)
  BY DEF Single, LiveOpportunistic, NoAuctions
<1>3. \A v \in Writer : writer'[v] = IF v = w THEN Idle ELSE writer[v]
  BY DEF TypeOK
<1> QED BY <1>1, <1>2, <1>3 DEF TypeOK

\* A slow handler puts back what it held, with an auction of its own.
LEMMA DecidedInv ==
  ASSUME IInv, NEW w \in Writer, NEW type \in Type, NEW price \in StartPrice,
         NEW duration \in Duration, Decided(w, type, price, duration)
  PROVE  IInv'
<1> USE DEF IInv
<1> DEFINE s  == writer[w]
           by == IF s.pc = "check" THEN "opportunistic" ELSE "scheduled"
           a  == NewAuction(type, price, duration, by, s.at)
<1>1. s \in Slow /\ s.at \in Nat /\ s.held \in Auctions /\ s.pc \in {"check", "schedule"}
  BY DEF Decided, TypeOK, Slow
<1>2. a \in AuctionRecord /\ a.by = by
  BY <1>1, NewAuctionIs DEF TypeOK
<1>3. /\ drawn' = drawn + 1 /\ drawn < MaxAuction
      /\ auctions' = [i \in DOMAIN s.held \cup {drawn'} |-> IF i = drawn' THEN a ELSE s.held[i]]
      /\ writer' = [writer EXCEPT ![w] = Idle] /\ now' = now
  BY DEF Decided
<1> HIDE DEF a, s
<1>4. DOMAIN s.held \subseteq 1..MaxAuction /\ \A i \in DOMAIN s.held : s.held[i] \in AuctionRecord
  BY <1>1, AuctionsAre
<1>5. drawn' \in 1..MaxAuction
  BY <1>3, AuctionAssumption DEF TypeOK
<1>6. DOMAIN auctions' = DOMAIN s.held \cup {drawn'}
      /\ \A i \in DOMAIN auctions' : auctions'[i] = IF i = drawn' THEN a ELSE s.held[i]
  BY <1>3
<1>7. auctions' \in Auctions
  <2>1. auctions' \in [DOMAIN s.held \cup {drawn'} -> AuctionRecord]
    BY <1>2, <1>3, <1>4
  <2> QED BY <1>4, <1>5, <2>1, AuctionsIntro
<1>8. Single(auctions')
  <2>1. CASE s.pc = "check"
    <3>1. ~AnyLive(s.held)
      BY <2>1 DEF s
    <3> QED BY <3>1, <1>6, SingleStarts
  <2>2. CASE s.pc = "schedule"
    <3>1. Single(s.held)
      BY DEF s
    <3>2. auctions'[drawn'].by = "scheduled"
      BY <1>2, <1>6, <2>2
    <3> QED BY <3>1, <3>2, <1>6, SingleWithScheduled
  <2> QED BY <1>1, <2>1, <2>2
<1>9. writer' \in [Writer -> Slow]
      /\ \A v \in Writer : Single(writer'[v].held)
                           /\ (writer'[v].pc = "check" => ~AnyLive(writer'[v].held))
  BY <1>3, EndsInv
<1>10. TypeOK'
  BY <1>3, <1>5, <1>7, <1>9 DEF TypeOK
<1> QED BY <1>8, <1>9, <1>10

\* A slow handler puts back what it held.
LEMMA SaveInv ==
  ASSUME IInv, NEW w \in Writer, SaveOther(w) PROVE IInv'
<1>1. writer[w].held \in Auctions /\ Single(writer[w].held)
  BY DEF IInv, TypeOK, Slow
<1>2. auctions' = writer[w].held /\ writer' = [writer EXCEPT ![w] = Idle]
      /\ UNCHANGED <<drawn, now>>
  BY DEF SaveOther
<1>3. writer' \in [Writer -> Slow]
      /\ \A v \in Writer : Single(writer'[v].held)
                           /\ (writer'[v].pc = "check" => ~AnyLive(writer'[v].held))
  BY <1>2, EndsInv DEF IInv
<1> QED BY <1>1, <1>2, <1>3 DEF IInv, TypeOK

\* A slow handler puts nothing back.
LEMMA GiveUpInv ==
  ASSUME IInv, NEW w \in Writer, GiveUp(w) PROVE IInv'
<1>1. writer' = [writer EXCEPT ![w] = Idle] /\ UNCHANGED <<auctions, drawn, now>>
  BY DEF GiveUp
<1>2. writer' \in [Writer -> Slow]
      /\ \A v \in Writer : Single(writer'[v].held)
                           /\ (writer'[v].pc = "check" => ~AnyLive(writer'[v].held))
  BY <1>1, EndsInv DEF IInv
<1> QED BY <1>1, <1>2 DEF IInv, TypeOK

\* Every step of the auctions preserves the invariant.
LEMMA StepInv == IInv /\ [Next]_vars => IInv'
<1> SUFFICES ASSUME IInv, [Next]_vars PROVE IInv'
  OBVIOUS
<1>1. CASE Tick
  BY <1>1, TickInv
<1>2. CASE \E i \in DOMAIN auctions, amount \in BidAmount : PlaceBid(i, amount)
  BY <1>2, BidInv
<1>3. ASSUME NEW w \in Writer, Handler(w) PROVE IInv'
  <2>1. CASE CheckOpportunistic(w)
    BY <2>1, LoadInv DEF CheckOpportunistic
  <2>2. CASE \E at \in ScheduleAt : ScheduleAuction(w, at)
    BY <2>2, LoadInv, AuctionAssumption DEF ScheduleAuction
  <2>3. CASE LoadOther(w)
    BY <2>3, LoadInv DEF LoadOther
  <2>4. CASE \E type \in Type, price \in StartPrice, duration \in Duration :
               Decided(w, type, price, duration)
    BY <2>4, DecidedInv
  <2>5. CASE SaveOther(w)
    BY <2>5, SaveInv
  <2>6. CASE GiveUp(w)
    BY <2>6, GiveUpInv
  <2> QED BY <1>3, <2>1, <2>2, <2>3, <2>4, <2>5, <2>6 DEF Handler
<1>4. CASE UNCHANGED vars
  BY <1>4 DEF vars, IInv, TypeOK
<1> QED BY <1>1, <1>2, <1>3, <1>4 DEF Next

\* The invariant.
THEOREM Invariance == Spec => []IInv
BY InitInv, StepInv, PTL DEF Spec

\* The auctions, the ones held by slow handlers included, keep their types.
THEOREM TypeCorrect == Spec => []TypeOK
<1>1. IInv => TypeOK
  BY DEF IInv
<1> QED BY <1>1, Invariance, PTL

\* There is never more than one auction under way that the agent opened on
\* impulse, for any number of handlers, whatever they put back.
THEOREM OneOpportunisticAuction == Spec => []OneOpportunistic
<1>1. IInv => OneOpportunistic
  BY DEF IInv, Single, OneOpportunistic
<1> QED BY <1>1, Invariance, PTL

-----------------------------------------------------------------------------
(***************************************************************************)
(* Payments: types, and that no call costs more than one payment.          *)
(*                                                                         *)
(* The authorizations that exist are the ones sellers have seen and the    *)
(* ones the agent's calls hold; what a seller may still execute is among   *)
(* them. Only signing adds one, and it carries a number no other has.      *)
(***************************************************************************)

Auths == sent \cup {Pay!NoAuth} \cup {proc[p].auth : p \in Pay!Proc}

Unique ==
  /\ \A a \in Auths : a.call <= calls
  /\ \A a, b \in Auths : a.call = b.call => a = b

PayInv == Pay!TypeOK /\ Unique

-----------------------------------------------------------------------------
\* No authorization is one, of no call.
LEMMA NoAuthIsAuth == Pay!NoAuth \in Pay!Auth /\ Pay!NoAuth.call = 0
BY DEF Pay!NoAuth, Pay!Auth

\* A process that is free holds none.
LEMMA IdleIsPlace ==
  /\ Pay!Idle \in [pc : Pay!Place, next : {"idle", "look", "post"}, auth : Pay!Auth]
  /\ Pay!Idle.auth = Pay!NoAuth
BY NoAuthIsAuth DEF Pay!Idle, Pay!Place

\* A step that signs nothing keeps the invariant if the types stay.
LEMMA NothingSigned ==
  ASSUME PayInv, Pay!TypeOK', calls' = calls, sent' \subseteq Auths,
         \A p \in Pay!Proc : proc'[p].auth \in Auths
  PROVE  PayInv'
<1>1. Auths' \subseteq Auths
  BY DEF Auths
<1> QED BY <1>1 DEF PayInv, Unique

\* A call begins or ends: it holds no authorization.
LEMMA Released ==
  ASSUME PayInv, NEW p \in Pay!Proc, NEW r,
         r \in [pc : Pay!Place, next : {"idle", "look", "post"}, auth : Pay!Auth],
         r.auth = Pay!NoAuth,
         proc' = [proc EXCEPT ![p] = r], UNCHANGED <<calls, sent, settled>>,
         started' \in Nat, credit' \in Nat \cup {NoAccount}
  PROVE  PayInv'
<1>1. Pay!TypeOK'
  BY DEF PayInv, Pay!TypeOK
<1>2. \A q \in Pay!Proc : proc'[q] = IF q = p THEN r ELSE proc[q]
  BY DEF PayInv, Pay!TypeOK
<1>3. sent' \subseteq Auths /\ \A q \in Pay!Proc : proc'[q].auth \in Auths
  BY <1>2 DEF Auths
<1> QED BY <1>1, <1>3, NothingSigned

\* A call goes on with the authorization it has.
LEMMA WentOn ==
  ASSUME PayInv, NEW p \in Pay!Proc, NEW pc \in Pay!Place, Pay!Go(p, pc),
         UNCHANGED <<calls, settled, credit>>, started' \in Nat,
         sent' \in {sent, sent \cup {proc[p].auth}}
  PROVE  PayInv'
<1>1. Pay!TypeOK'
  BY DEF PayInv, Pay!TypeOK, Pay!Go
<1>2. \A q \in Pay!Proc : proc'[q].auth = proc[q].auth
  BY DEF PayInv, Pay!TypeOK, Pay!Go
<1>3. sent' \subseteq Auths /\ \A q \in Pay!Proc : proc'[q].auth \in Auths
  BY <1>2 DEF Auths
<1> QED BY <1>1, <1>3, NothingSigned

-----------------------------------------------------------------------------
\* No payment is signed at the start.
LEMMA PayInit == ASSUME Pay!PaymentsAssumption PROVE Pay!Init => PayInv
<1> SUFFICES ASSUME Pay!Init PROVE PayInv
  OBVIOUS
<1>1. Pay!TypeOK
  BY IdleIsPlace DEF Pay!Init, Pay!TypeOK
<1>2. \A a \in Auths : a = Pay!NoAuth
  BY IdleIsPlace DEF Pay!Init, Auths
<1>3. Unique
  BY <1>2, NoAuthIsAuth DEF Unique, Pay!Init
<1> QED BY <1>1, <1>3 DEF PayInv

\* A new authorization is of a call that had none.
LEMMA SignInv == ASSUME PayInv, NEW p \in Pay!Proc, Pay!Sign(p) PROVE PayInv'
<1> DEFINE a == [by |-> p, call |-> calls', sign |-> 1]
<1>1. calls' = calls + 1 /\ calls \in Nat
  BY DEF Pay!Sign, PayInv, Pay!TypeOK
<1>2. a \in Pay!Auth /\ a.call = calls + 1
  BY <1>1 DEF Pay!Auth
<1>3. proc' = [proc EXCEPT ![p].pc = "pay", ![p].auth = a]
      /\ UNCHANGED <<started, sent, settled, credit>>
  BY DEF Pay!Sign
<1> HIDE DEF a
<1>4. Pay!TypeOK'
  <2> DEFINE r == [proc[p] EXCEPT !.pc = "pay", !.auth = a]
  <2>1. proc' = [proc EXCEPT ![p] = r]
    BY <1>3 DEF PayInv, Pay!TypeOK
  <2>2. r \in [pc : Pay!Place, next : {"idle", "look", "post"}, auth : Pay!Auth]
    BY <1>2 DEF PayInv, Pay!TypeOK, Pay!Place
  <2> HIDE DEF r
  <2>3. proc' \in [Pay!Proc -> [pc : Pay!Place, next : {"idle", "look", "post"}, auth : Pay!Auth]]
    BY <2>1, <2>2 DEF PayInv, Pay!TypeOK
  <2>4. calls' \in Nat /\ started' \in Nat /\ sent' = sent /\ settled' = settled
        /\ credit' = credit
    BY <1>1, <1>3 DEF PayInv, Pay!TypeOK
  <2> QED BY <2>3, <2>4 DEF PayInv, Pay!TypeOK
<1>5. \A q \in Pay!Proc : proc'[q].auth = IF q = p THEN a ELSE proc[q].auth
  BY <1>3 DEF PayInv, Pay!TypeOK
<1>6. Auths' \subseteq Auths \cup {a}
  BY <1>3, <1>5 DEF Auths
<1>7. \A b \in Auths : b.call \in Nat /\ b.call <= calls
  BY NoAuthIsAuth DEF PayInv, Unique, Pay!TypeOK, Auths, Pay!Auth
<1>8. Unique'
  BY <1>1, <1>2, <1>6, <1>7 DEF PayInv, Unique
<1> QED BY <1>4, <1>8 DEF PayInv

\* A seller settles an authorization it has seen.
LEMMA SettleInv == ASSUME PayInv, NEW a \in sent, Pay!Settle(a) PROVE PayInv'
<1>1. Pay!Funds \in Nat
  BY DEF Pay!Funds, PayInv, Pay!TypeOK
<1>2. Pay!TypeOK'
  BY <1>1 DEF Pay!Settle, PayInv, Pay!TypeOK
<1>3. calls' = calls /\ sent' \subseteq Auths /\ \A p \in Pay!Proc : proc'[p].auth \in Auths
  BY DEF Pay!Settle, Auths
<1> QED BY <1>2, <1>3, NothingSigned

\* The steps of one call.
LEMMA CallInv ==
  ASSUME Pay!PaymentsAssumption, PayInv, NEW p \in Pay!Proc, Pay!Step(p)
  PROVE  PayInv'
<1> DEFINE R == [pc : Pay!Place, next : {"idle", "look", "post"}, auth : Pay!Auth]
<1>1. /\ Pay!Funds \in Nat /\ Pay!Funds + 1 \in Nat
      /\ credit \in Nat \cup {NoAccount} /\ started \in Nat
  BY DEF Pay!Funds, PayInv, Pay!TypeOK
<1>2. /\ [Pay!Idle EXCEPT !.pc = proc[p].next] \in R
      /\ [Pay!Idle EXCEPT !.pc = proc[p].next].auth = Pay!NoAuth
  BY IdleIsPlace DEF PayInv, Pay!TypeOK, Pay!Idle, Pay!Place
<1>3. CASE Pay!Sign(p)
  BY <1>3, SignInv
<1>4. CASE Pay!Free(p)
  BY <1>1, <1>2, <1>4, Released DEF Pay!Free, Pay!Return
<1>5. CASE Pay!Send(p)
  <2>1. (IF proc[p].pc = "pay" THEN "paid" ELSE "paidAgain") \in Pay!Place
    BY DEF Pay!Place
  <2> QED BY <1>1, <1>5, <2>1, WentOn DEF Pay!Send
<1>6. CASE Pay!Succeed(p)
  BY <1>1, <1>2, <1>6, Released DEF Pay!Succeed, Pay!Return
<1>7. CASE Pay!RetryAfterLimit(p)
  <2>1. "payAgain" \in Pay!Place
    BY DEF Pay!Place
  <2> QED BY <1>1, <1>7, <2>1, WentOn DEF Pay!RetryAfterLimit
<1>8. CASE Pay!Fail(p)
  BY <1>1, <1>8, IdleIsPlace, Released DEF Pay!Fail, Pay!Throw
<1>9. CASE p = "check" /\ Pay!LookAgain
  <2>1. CASE Pay!Call("check", "idle")
    <3>1. [pc |-> "ask", next |-> "idle", auth |-> Pay!NoAuth] \in R
      BY NoAuthIsAuth DEF Pay!Place
    <3> QED BY <1>1, <1>9, <2>1, <3>1, Released DEF Pay!LookAgain, Pay!Call
  <2>2. CASE Pay!End("check")
    BY <1>1, <1>9, <2>2, IdleIsPlace, Released DEF Pay!LookAgain, Pay!End
  <2> QED BY <1>9, <2>1, <2>2 DEF Pay!LookAgain
<1>10. CASE p = "create" /\ Pay!PostCreate
  <2>1. CASE /\ Pay!End("create")
             /\ credit' = credit \/ (Pay!Funds >= VmCost /\ credit' = Pay!Funds - VmCost)
    <3>1. credit' \in Nat \cup {NoAccount}
      BY <1>1, <2>1 DEF Pay!PaymentsAssumption
    <3> QED BY <1>1, <1>10, <2>1, <3>1, IdleIsPlace, Released DEF Pay!PostCreate, Pay!End
  <2>2. CASE Pay!Call("create", "post") /\ UNCHANGED credit
    <3>1. [pc |-> "ask", next |-> "post", auth |-> Pay!NoAuth] \in R
      BY NoAuthIsAuth DEF Pay!Place
    <3> QED BY <1>1, <1>10, <2>2, <3>1, Released DEF Pay!PostCreate, Pay!Call
  <2> QED BY <1>10, <2>1, <2>2 DEF Pay!PostCreate
<1> QED BY <1>3, <1>4, <1>5, <1>6, <1>7, <1>8, <1>9, <1>10 DEF Pay!Step

\* The steps that begin a call.
LEMMA BeginInv ==
  ASSUME PayInv, Pay!CheckBalance \/ Pay!Create \/ Pay!FetchData
  PROVE  PayInv'
<1> DEFINE R == [pc : Pay!Place, next : {"idle", "look", "post"}, auth : Pay!Auth]
<1>1. credit \in Nat \cup {NoAccount} /\ started + 1 \in Nat
  BY DEF PayInv, Pay!TypeOK
<1>2. \A after \in {"idle", "look", "post"} :
        [pc |-> "ask", next |-> after, auth |-> Pay!NoAuth] \in R
  BY NoAuthIsAuth DEF Pay!Place
<1>3. CASE Pay!CheckBalance
  <2>1. (IF credit = NoAccount THEN "look" ELSE "idle") \in {"idle", "look", "post"}
    OBVIOUS
  <2>2. "check" \in Pay!Proc
    BY DEF Pay!Proc
  <2> DEFINE r == [pc |-> "ask", auth |-> Pay!NoAuth,
                   next |-> IF credit = NoAccount THEN "look" ELSE "idle"]
  <2>3. r \in R /\ r.auth = Pay!NoAuth
    BY <1>2, <2>1
  <2>4. proc' = [proc EXCEPT !["check"] = r]
    BY <1>3 DEF Pay!CheckBalance, Pay!Call
  <2>5. UNCHANGED <<calls, sent, settled, credit>> /\ started' = started + 1
    BY <1>3 DEF Pay!CheckBalance, Pay!Begin
  <2> HIDE DEF r
  <2> QED BY <1>1, <2>2, <2>3, <2>4, <2>5, Released
<1>4. CASE Pay!Create
  <2>1. "post" \in Pay!Place /\ "create" \in Pay!Proc
    BY DEF Pay!Place, Pay!Proc
  <2> QED BY <1>1, <1>4, <2>1, WentOn DEF Pay!Create, Pay!Begin
<1>5. CASE Pay!FetchData
  <2>1. "data" \in Pay!Proc
    BY DEF Pay!Proc
  <2> DEFINE r == [pc |-> "ask", next |-> "idle", auth |-> Pay!NoAuth]
  <2>2. r \in R /\ r.auth = Pay!NoAuth
    BY <1>2
  <2>3. proc' = [proc EXCEPT !["data"] = r]
    BY <1>5 DEF Pay!FetchData, Pay!Call
  <2>4. UNCHANGED <<calls, sent, settled, credit>> /\ started' = started + 1
    BY <1>5 DEF Pay!FetchData, Pay!Begin
  <2> HIDE DEF r
  <2> QED BY <1>1, <2>1, <2>2, <2>3, <2>4, Released
<1> QED BY <1>3, <1>4, <1>5

\* Every step of the payments preserves the invariant.
LEMMA PayStep == ASSUME Pay!PaymentsAssumption PROVE PayInv /\ [Pay!Next]_(Pay!vars) => PayInv'
<1> SUFFICES ASSUME PayInv, [Pay!Next]_(Pay!vars) PROVE PayInv'
  OBVIOUS
<1>1. CASE Pay!CheckBalance \/ Pay!Create \/ Pay!FetchData
  BY <1>1, BeginInv
<1>2. CASE \E p \in Pay!Proc : Pay!Step(p)
  BY <1>2, CallInv
<1>3. CASE \E a \in sent : Pay!Settle(a)
  BY <1>3, SettleInv
<1>4. CASE UNCHANGED Pay!vars
  BY <1>4 DEF Pay!vars, PayInv, Pay!TypeOK, Unique, Auths
<1> QED BY <1>1, <1>2, <1>3, <1>4 DEF Pay!Next

\* The invariant.
THEOREM PayInvariance == ASSUME Pay!PaymentsAssumption PROVE Pay!Spec => []PayInv
BY PayInit, PayStep, PTL DEF Pay!Spec

\* The calls, the authorizations and the account keep their types.
THEOREM PayTypes == ASSUME Pay!PaymentsAssumption PROVE Pay!Spec => []Pay!TypeOK
<1>1. PayInv => Pay!TypeOK
  BY DEF PayInv
<1> QED BY <1>1, PayInvariance, PTL

\* No call costs more than one payment, for any balance, price and number of
\* calls.
THEOREM OnePayment == ASSUME Pay!PaymentsAssumption PROVE Pay!Spec => []Pay!OnePaymentPerCall
<1>1. PayInv => Pay!OnePaymentPerCall
  BY DEF PayInv, Unique, Pay!TypeOK, Auths, Pay!OnePaymentPerCall
<1> QED BY <1>1, PayInvariance, PTL

-----------------------------------------------------------------------------
(***************************************************************************)
(* TransferMonitor: that no transfer is handed to the fund twice, unless   *)
(* the set of handled ones was trimmed while polls overlapped.             *)
(*                                                                         *)
(* A poll takes the transfers after the last block, which another poll may *)
(* have set meanwhile, to an older head as well.  What saves it is the     *)
(* set, and the set forgets.  The invariant names a block, the floor:      *)
(* nothing at or below it is in the hands of a poll, and above it what was *)
(* handled is still in the set, with every transfer before it.  A trim     *)
(* with no other poll under way may drop anything: the head of the poll    *)
(* that ends is the new floor.                                             *)
(***************************************************************************)
Seen == {processed[i] : i \in 1..Len(processed)}

Handling(s) == poll[s].pc = "handling"

\* Every transfer after block f, up to block n, is in S.
Between(f, n, S) == \A b \in (f + 1)..n : chain[b] => b \in S

PollOK(r) ==
  /\ r.head <= Len(chain) /\ r.todo \subseteq {b \in 1..r.head : chain[b]}
  /\ r.pc = "idle" => r = Monitor!Idle
  /\ r.todo # {} => r.pc = "handling"

MonitorTypes ==
  /\ chain \in Seq(BOOLEAN) /\ Len(chain) <= MaxBlock
  /\ lastBlock \in 0..Len(chain)
  /\ processed \in Seq(Nat) /\ Seen \subseteq 1..Len(chain)
  /\ handled \in [1..MaxBlock -> Nat] /\ crossed \in BOOLEAN
  /\ poll \in [Slot -> [pc : {"idle", "logs", "handling"}, head : Nat, todo : SUBSET Nat]]
  /\ \A s \in Slot : PollOK(poll[s])

\* What the polls have in common while the set is not trimmed under their feet.
Floor(f) ==
  /\ f <= lastBlock
  /\ \A s \in Slot : poll[s] # Monitor!Idle => poll[s].head > f
  /\ \A s \in Slot : \A b \in poll[s].todo : b > f
  /\ \A b \in 1..MaxBlock : handled[b] <= 1 /\ (handled[b] > 0 => b \in Seen \/ b <= f)
  /\ Between(f, lastBlock, Seen)
  /\ \A s \in Slot : Handling(s) => Between(f, poll[s].head, Seen \cup poll[s].todo)
  /\ \A d \in Seen : Between(f, d, Seen)
  /\ Len(processed) > MaxProcessed
       => \E s \in Slot : Handling(s) /\ \A d \in Seen : d <= poll[s].head

MInv == MonitorTypes /\ (crossed \/ \E f \in Nat : Floor(f))

Polls == [pc : {"idle", "logs", "handling"}, head : Nat, todo : SUBSET Nat]

-----------------------------------------------------------------------------
\* The set of handled transactions is asked.
LEMMA NewIsUnseen == ASSUME NEW b PROVE Monitor!IsNew(b) <=> b \notin Seen
BY DEF Monitor!IsNew, Monitor!Contains, Seen

\* One transaction more in the set.
LEMMA SeenAppended ==
  ASSUME processed \in Seq(Nat), NEW b \in Nat, processed' = Append(processed, b)
  PROVE  processed' \in Seq(Nat) /\ Len(processed') = Len(processed) + 1
         /\ Seen' = Seen \cup {b}
<1>1. /\ processed' \in Seq(Nat) /\ Len(processed') = Len(processed) + 1
      /\ \A i \in 1..Len(processed) : processed'[i] = processed[i]
      /\ processed'[Len(processed) + 1] = b /\ Len(processed) \in Nat
  BY AppendProperties
<1>2. ASSUME NEW i \in 1..Len(processed') PROVE processed'[i] \in Seen \cup {b}
  <2>1. i \in 1..Len(processed) \/ i = Len(processed) + 1
    BY <1>1
  <2> QED
    BY <1>1, <2>1 DEF Seen
<1>3. ASSUME NEW i \in 1..Len(processed) PROVE processed[i] \in Seen'
  <2>1. i \in 1..Len(processed') /\ processed'[i] = processed[i]
    BY <1>1
  <2> QED
    BY <2>1 DEF Seen
<1>4. b \in Seen'
  <2>1. Len(processed) + 1 \in 1..Len(processed')
    BY <1>1
  <2> QED
    BY <1>1, <2>1 DEF Seen
<1> QED
  BY <1>1, <1>2, <1>3, <1>4 DEF Seen

\* The set is trimmed to its last elements.
LEMMA SeenTrimmed ==
  ASSUME processed \in Seq(Nat), Len(processed) > MaxProcessed,
         processed' = SubSeq(processed, Len(processed) - Kept + 1, Len(processed))
  PROVE  processed' \in Seq(Nat) /\ Len(processed') <= MaxProcessed /\ Seen' \subseteq Seen
<1> DEFINE n == Len(processed)
           m == n - Kept + 1
<1>1. n \in Nat /\ Kept \in Nat /\ Kept <= MaxProcessed /\ MaxProcessed \in Nat /\ n > MaxProcessed
  BY InstanceAssumption DEF Monitor!MonitorAssumption
<1>2. m \in Int /\ m >= 1 /\ m <= n + 1 /\ n - m + 1 = Kept
  BY <1>1
<1>3. \A i \in m..n : i \in 1..n
  BY <1>1, <1>2
<1>4. processed' \in Seq(Nat) /\ Len(processed') = n - m + 1
      /\ \A i \in 1..(n - m + 1) : processed'[i] = processed[m + i - 1]
  <2>1. \A i \in m..n : processed[i] \in Nat
    BY <1>3
  <2> HIDE DEF m, n
  <2> QED
    BY <1>1, <1>2, <2>1, SubSeqProperties DEF m, n
<1>5. \A i \in 1..Kept : m + i - 1 \in 1..n
  BY <1>1, <1>2
<1> QED
  BY <1>1, <1>2, <1>4, <1>5 DEF Seen
-----------------------------------------------------------------------------
\* The fields of a poll.
LEMMA PollFields ==
  ASSUME MonitorTypes, NEW s \in Slot
  PROVE  /\ poll[s] \in Polls /\ PollOK(poll[s])
         /\ poll[s].head \in 0..Len(chain) /\ Len(chain) \in Nat
         /\ poll[s].todo \subseteq 1..poll[s].head /\ \A b \in poll[s].todo : chain[b]
         /\ poll[s] = [pc |-> poll[s].pc, head |-> poll[s].head, todo |-> poll[s].todo]
<1>1. Len(chain) \in Nat
  BY DEF MonitorTypes
<1>2. poll[s] \in Polls /\ PollOK(poll[s])
  BY DEF MonitorTypes, Polls
<1> QED
  BY <1>1, <1>2 DEF Polls, PollOK

\* One poll changes.
LEMMA PollChanges ==
  ASSUME MonitorTypes, NEW s \in Slot, NEW r, poll' = [poll EXCEPT ![s] = r]
  PROVE  \A q \in Slot : poll'[q] = IF q = s THEN r ELSE poll[q]
BY DEF MonitorTypes

\* The types survive a change of one poll that touches neither the chain nor
\* what is handled.
LEMMA PollTypes ==
  ASSUME MonitorTypes, NEW s \in Slot, NEW r \in Polls, PollOK(r),
         poll' = [poll EXCEPT ![s] = r], chain' = chain, processed' = processed,
         handled' = handled, crossed' \in BOOLEAN, lastBlock' \in 0..Len(chain)
  PROVE  MonitorTypes'
<1>1. \A q \in Slot : PollOK(poll'[q])
  BY PollChanges DEF MonitorTypes
<1>2. poll' \in [Slot -> Polls]
  BY DEF MonitorTypes, Polls
<1> QED
  BY <1>1, <1>2 DEF MonitorTypes, PollOK, Seen, Polls

\* The free slot is a poll.
LEMMA IdleIsPoll == ASSUME MonitorTypes PROVE Monitor!Idle \in Polls /\ PollOK(Monitor!Idle)
<1>1. Len(chain) \in Nat
  BY DEF MonitorTypes
<1> QED
  BY <1>1 DEF Monitor!Idle, Polls, PollOK

\* A process that has just started.
FreshProcess ==
  /\ chain \in Seq(BOOLEAN) /\ Len(chain) <= MaxBlock
  /\ lastBlock \in 0..Len(chain) /\ processed = <<>>
  /\ poll = [s \in Slot |-> Monitor!Idle]
  /\ handled = [b \in 1..MaxBlock |-> 0] /\ crossed = FALSE

\* It has handled nothing.
LEMMA Fresh == FreshProcess => MInv
<1> SUFFICES ASSUME FreshProcess PROVE MInv
  OBVIOUS
<1> USE InstanceAssumption DEF FreshProcess
<1>1. Len(chain) \in Nat /\ MaxProcessed \in Nat
  BY DEF Monitor!MonitorAssumption
<1>2. processed \in Seq(Nat) /\ Len(processed) = 0 /\ Seen = {}
  BY DEF Seen
<1>3. \A s \in Slot : poll[s] = Monitor!Idle
  OBVIOUS
<1>4. \A s \in Slot : PollOK(poll[s])
  BY <1>1, <1>3 DEF PollOK, Monitor!Idle
<1>5. poll \in [Slot -> [pc : {"idle", "logs", "handling"}, head : Nat, todo : SUBSET Nat]]
  BY DEF Monitor!Idle
<1>6. MonitorTypes
  BY <1>1, <1>2, <1>4, <1>5 DEF MonitorTypes
<1>7. lastBlock \in Nat
  BY <1>1
<1>8. Floor(lastBlock)
  <2>1. \A b \in (lastBlock + 1)..lastBlock : FALSE
    BY <1>7
  <2>2. \A s \in Slot : ~Handling(s) /\ poll[s].todo = {}
    BY <1>3 DEF Handling, Monitor!Idle
  <2> QED
    BY <1>1, <1>2, <1>3, <1>7, <2>1, <2>2 DEF Floor, Between
<1> QED
  BY <1>6, <1>7, <1>8 DEF MInv

\* So it is after a restart.
LEMMA FreshAgain == FreshProcess' => MInv'
BY Fresh, PTL

\* The monitor starts with no block.
LEMMA MonitorInit == Monitor!Init => MInv
<1> SUFFICES ASSUME Monitor!Init PROVE MInv
  OBVIOUS
<1>1. chain \in Seq(BOOLEAN) /\ Len(chain) = 0 /\ lastBlock \in 0..Len(chain)
  BY DEF Monitor!Init
<1>2. Len(chain) <= MaxBlock
  BY <1>1, InstanceAssumption DEF Monitor!MonitorAssumption
<1> QED
  BY <1>1, <1>2, Fresh DEF Monitor!Init, FreshProcess

\* A new process starts at the head, or at the first block.
LEMMA RestartInv == ASSUME MInv, Monitor!Restart PROVE MInv'
<1>1. /\ chain' \in Seq(BOOLEAN) /\ Len(chain') <= MaxBlock /\ Len(chain) \in Nat
      /\ chain' = chain
  BY DEF Monitor!Restart, MInv, MonitorTypes
<1>2. lastBlock' \in 0..Len(chain')
  BY <1>1 DEF Monitor!Restart
<1>3. FreshProcess'
  BY <1>1, <1>2 DEF Monitor!Restart, FreshProcess
<1> QED
  BY <1>3, FreshAgain

\* A new block is above every head.
LEMMA BlockInv == ASSUME MInv, NEW transfer \in BOOLEAN, Monitor!Block(transfer) PROVE MInv'
<1>1. /\ chain \in Seq(BOOLEAN) /\ Len(chain) < MaxBlock /\ chain' = Append(chain, transfer)
      /\ UNCHANGED <<poll, lastBlock, processed, handled, crossed>>
      /\ MaxBlock \in Nat /\ Len(chain) \in Nat
  BY InstanceAssumption DEF Monitor!Block, MInv, MonitorTypes, Monitor!MonitorAssumption
<1>2. /\ chain' \in Seq(BOOLEAN) /\ Len(chain') = Len(chain) + 1
      /\ \A b \in 1..Len(chain) : chain'[b] = chain[b]
  BY <1>1, AppendProperties
<1>3. Seen' = Seen /\ lastBlock \in 0..Len(chain) /\ Seen \subseteq 1..Len(chain)
  BY <1>1 DEF Seen, MInv, MonitorTypes
<1>4. \A s \in Slot : PollOK(poll[s])'
  <2> TAKE s \in Slot
  <2>1. /\ PollOK(poll[s]) /\ poll[s].head \in 0..Len(chain)
        /\ poll[s].todo \subseteq 1..poll[s].head /\ \A b \in poll[s].todo : chain[b]
    BY PollFields DEF MInv
  <2>2. \A b \in 1..poll[s].head : b \in 1..Len(chain)
    BY <1>1, <2>1
  <2>3. poll[s].head <= Len(chain') /\ \A b \in poll[s].todo : chain'[b]
    BY <1>1, <1>2, <2>1, <2>2
  <2> QED
    BY <1>1, <2>1, <2>3 DEF PollOK
<1>5. MonitorTypes'
  <2>1. Len(chain') <= MaxBlock /\ lastBlock' \in 0..Len(chain') /\ Seen' \subseteq 1..Len(chain')
    BY <1>1, <1>2, <1>3
  <2> QED
    BY <1>1, <1>2, <1>4, <2>1 DEF MInv, MonitorTypes
<1>6. ASSUME NEW f \in Nat, Floor(f) PROVE Floor(f)'
  <2>1. ASSUME NEW n, n \in 0..Len(chain), NEW S, Between(f, n, S)
        PROVE  \A b \in (f + 1)..n : chain'[b] => b \in S
    <3>1. \A b \in (f + 1)..n : b \in 1..Len(chain)
      BY <1>1, <2>1
    <3> QED
      BY <1>2, <2>1, <3>1 DEF Between
  <2>2. \A s \in Slot : poll[s].head \in 0..Len(chain)
    BY PollFields DEF MInv
  <2>3. Seen \subseteq 0..Len(chain)
    BY <1>1, <1>3
  <2> QED
    BY <1>1, <1>3, <1>6, <2>1, <2>2, <2>3 DEF Floor, Between, Handling
<1> QED
  BY <1>1, <1>5, <1>6 DEF MInv

\* A poll that starts is above the last block.
LEMMA StartInv == ASSUME MInv, NEW s \in Slot, Monitor!StartPoll(s) PROVE MInv'
<1> DEFINE r == [pc |-> "logs", head |-> Len(chain), todo |-> {}]
<1>1. /\ Len(chain) \in Nat /\ lastBlock \in 0..Len(chain) /\ crossed \in BOOLEAN
      /\ MonitorTypes
  BY DEF MInv, MonitorTypes
<1>2. /\ poll' = [poll EXCEPT ![s] = r] /\ poll[s] = Monitor!Idle /\ Len(chain) > lastBlock
      /\ UNCHANGED <<chain, lastBlock, processed, handled, crossed>>
  BY DEF Monitor!StartPoll, Monitor!Idle
<1>3. r \in Polls /\ PollOK(r)
  BY <1>1 DEF Polls, PollOK
<1> HIDE DEF r
<1>4. MonitorTypes'
  BY <1>1, <1>2, <1>3, PollTypes
<1>5. \A q \in Slot : poll'[q] = IF q = s THEN r ELSE poll[q]
  BY <1>1, <1>2, PollChanges
<1>6. ASSUME NEW f \in Nat, Floor(f) PROVE Floor(f)'
  <2>1. Seen' = Seen
    BY <1>2 DEF Seen
  <2>2. r.head > f /\ r.todo = {} /\ r.pc # "handling"
    BY <1>1, <1>2, <1>6 DEF r, Floor
  <2>3. \A q \in Slot : Handling(q)' => Handling(q) /\ poll'[q] = poll[q]
    BY <1>5, <2>2 DEF Handling
  <2>4. \A q \in Slot : Handling(q) => Handling(q)' /\ poll'[q] = poll[q]
    BY <1>2, <1>5 DEF Handling, Monitor!Idle
  <2>5. \A q \in Slot : /\ poll'[q] # Monitor!Idle => poll'[q].head > f
                        /\ \A b \in poll'[q].todo : b > f
    BY <1>5, <1>6, <2>2 DEF Floor
  <2> QED
    BY <1>2, <1>6, <2>1, <2>3, <2>4, <2>5 DEF Floor, Between
<1> QED
  BY <1>2, <1>4, <1>6 DEF MInv

\* A poll that fails had handled nothing.
LEMMA FailInv == ASSUME MInv, NEW s \in Slot, Monitor!FailPoll(s) PROVE MInv'
<1>1. /\ lastBlock \in 0..Len(chain) /\ crossed \in BOOLEAN /\ MonitorTypes
  BY DEF MInv, MonitorTypes
<1>2. /\ poll' = [poll EXCEPT ![s] = Monitor!Idle] /\ poll[s].pc = "logs"
      /\ UNCHANGED <<chain, lastBlock, processed, handled, crossed>>
  BY DEF Monitor!FailPoll
<1>3. MonitorTypes'
  BY <1>1, <1>2, IdleIsPoll, PollTypes
<1>4. \A q \in Slot : poll'[q] = IF q = s THEN Monitor!Idle ELSE poll[q]
  BY <1>1, <1>2, PollChanges
<1>5. ASSUME NEW f \in Nat, Floor(f) PROVE Floor(f)'
  <2>1. Seen' = Seen
    BY <1>2 DEF Seen
  <2>2. \A q \in Slot : (Handling(q)' <=> Handling(q)) /\ (Handling(q) => poll'[q] = poll[q])
    BY <1>2, <1>4 DEF Handling, Monitor!Idle
  <2>3. \A q \in Slot : /\ poll'[q] # Monitor!Idle => poll'[q].head > f
                        /\ \A b \in poll'[q].todo : b > f
    BY <1>4, <1>5 DEF Floor, Monitor!Idle
  <2> QED
    BY <1>2, <1>5, <2>1, <2>2, <2>3 DEF Floor, Between
<1> QED
  BY <1>2, <1>3, <1>5 DEF MInv

\* The transfers asked for begin after the last block, and all up to that one
\* are in the set.
LEMMA LogsInv == ASSUME MInv, NEW s \in Slot, Monitor!GetLogs(s) PROVE MInv'
<1> DEFINE todo == {b \in (lastBlock + 1)..poll[s].head : chain[b]}
           r    == [poll[s] EXCEPT !.pc = "handling", !.todo = todo]
<1>1. /\ Len(chain) \in Nat /\ lastBlock \in 0..Len(chain) /\ crossed \in BOOLEAN
      /\ MonitorTypes /\ poll[s] \in Polls /\ poll[s].head \in 0..Len(chain)
  BY PollFields DEF MInv, MonitorTypes
<1>2. /\ poll' = [poll EXCEPT ![s] = r] /\ poll[s].pc = "logs"
      /\ UNCHANGED <<chain, lastBlock, processed, handled, crossed>>
  <2>1. poll' = [poll EXCEPT ![s].pc = "handling", ![s].todo = todo]
    BY DEF Monitor!GetLogs
  <2> HIDE DEF todo
  <2> QED
    BY <1>1, <2>1 DEF Monitor!GetLogs, MonitorTypes
<1>3. \A b \in todo : b \in 1..poll[s].head /\ chain[b] /\ b > lastBlock /\ b \in Nat
  BY <1>1
<1>4. r \in Polls /\ r.pc = "handling" /\ r.head = poll[s].head /\ r.todo = todo
  <2> HIDE DEF todo
  <2> QED
    BY <1>1, <1>3 DEF Polls
<1>5. PollOK(r)
  BY <1>1, <1>3, <1>4 DEF PollOK
<1> HIDE DEF r
<1>6. MonitorTypes'
  BY <1>1, <1>2, <1>4, <1>5, PollTypes
<1>7. \A q \in Slot : poll'[q] = IF q = s THEN r ELSE poll[q]
  BY <1>1, <1>2, PollChanges
<1>8. ASSUME NEW f \in Nat, Floor(f) PROVE Floor(f)'
  <2>1. Seen' = Seen
    BY <1>2 DEF Seen
  <2>2. r.head > f /\ \A b \in r.todo : b > f
    <3>1. poll[s].head > f
      BY <1>2, <1>8 DEF Floor, Monitor!Idle
    <3>2. \A b \in todo : b > f
      <4>1. f <= lastBlock /\ lastBlock \in Nat
        BY <1>1, <1>8 DEF Floor
      <4> QED
        BY <1>3, <4>1
    <3> HIDE DEF todo
    <3> QED
      BY <1>4, <3>1, <3>2
  <2>3. Between(f, r.head, Seen \cup r.todo)
    <3> SUFFICES ASSUME NEW b \in (f + 1)..r.head, chain[b] PROVE b \in Seen \cup r.todo
      BY DEF Between
    <3>1. CASE b <= lastBlock
      <4>1. b \in (f + 1)..lastBlock
        BY <1>1, <3>1
      <4> QED
        BY <1>8, <4>1 DEF Floor, Between
    <3>2. CASE b > lastBlock
      <4>1. b \in (lastBlock + 1)..poll[s].head
        BY <1>1, <1>4, <3>2
      <4> QED
        BY <1>4, <4>1
    <3> QED
      BY <1>1, <3>1, <3>2
  <2>4. \A q \in Slot : Handling(q)' => Between(f, poll'[q].head, Seen \cup poll'[q].todo)
    BY <1>7, <1>8, <2>3 DEF Floor, Handling
  <2>5. \A q \in Slot : Handling(q) => Handling(q)' /\ poll'[q].head = poll[q].head
    BY <1>2, <1>7 DEF Handling
  <2>6. \A q \in Slot : /\ poll'[q] # Monitor!Idle => poll'[q].head > f
                        /\ \A b \in poll'[q].todo : b > f
    BY <1>7, <1>8, <2>2 DEF Floor
  <2> HIDE DEF todo
  <2> QED
    BY <1>2, <1>8, <2>1, <2>4, <2>5, <2>6 DEF Floor, Between
<1> QED
  BY <1>2, <1>6, <1>8 DEF MInv
\* A transfer is handed over only if it is not in the set; then it was not
\* handed over since the floor, and it joins the set in its order.
LEMMA HandleInv == ASSUME MInv, NEW s \in Slot, Monitor!HandleLog(s) PROVE MInv'
<1>1. PICK b \in poll[s].todo :
        /\ poll[s].pc = "handling" /\ \A c \in poll[s].todo : b <= c
        /\ IF Monitor!IsNew(b)
           THEN /\ processed' = Append(processed, b)
                /\ handled' = [handled EXCEPT ![b] = @ + 1]
           ELSE UNCHANGED <<processed, handled>>
        /\ poll' = [poll EXCEPT ![s].todo = @ \ {b}]
        /\ UNCHANGED <<chain, lastBlock, crossed>>
  BY DEF Monitor!HandleLog
<1> DEFINE r == [poll[s] EXCEPT !.todo = @ \ {b}]
<1>2. /\ Len(chain) \in Nat /\ lastBlock \in 0..Len(chain) /\ crossed \in BOOLEAN
      /\ MonitorTypes /\ poll[s] \in Polls /\ poll[s].head \in 0..Len(chain)
      /\ poll[s].todo \subseteq 1..poll[s].head /\ \A c \in poll[s].todo : chain[c]
      /\ processed \in Seq(Nat) /\ handled \in [1..MaxBlock -> Nat]
      /\ Seen \subseteq 1..Len(chain) /\ Len(chain) <= MaxBlock /\ MaxBlock \in Nat
  BY PollFields, InstanceAssumption DEF MInv, MonitorTypes, Monitor!MonitorAssumption
<1>3. b \in 1..poll[s].head /\ b \in 1..Len(chain) /\ b \in 1..MaxBlock /\ b \in Nat
  BY <1>2
<1>4. poll' = [poll EXCEPT ![s] = r]
  BY <1>1, <1>2 DEF MonitorTypes
<1>5. /\ r \in Polls /\ r.pc = "handling" /\ r.head = poll[s].head
      /\ r.todo = poll[s].todo \ {b}
  BY <1>1, <1>2 DEF Polls
<1>6. PollOK(r)
  BY <1>2, <1>5 DEF PollOK
<1> HIDE DEF r
<1>7. \A q \in Slot : poll'[q] = IF q = s THEN r ELSE poll[q]
  BY <1>2, <1>4, PollChanges
<1>8. /\ processed' \in Seq(Nat) /\ Seen' = Seen \cup {b}
      /\ handled' \in [1..MaxBlock -> Nat]
      /\ \A c \in 1..MaxBlock : c # b => handled'[c] = handled[c]
      /\ b \in Seen => handled'[b] = handled[b] /\ Len(processed') = Len(processed)
      /\ b \notin Seen => handled'[b] = handled[b] + 1
  <2>1. CASE Monitor!IsNew(b)
    <3>1. processed' = Append(processed, b) /\ b \notin Seen
      BY <1>1, <2>1, NewIsUnseen
    <3>2. processed' \in Seq(Nat) /\ Seen' = Seen \cup {b}
      BY <1>2, <1>3, <3>1, SeenAppended
    <3>3. handled' = [handled EXCEPT ![b] = @ + 1]
      BY <1>1, <2>1
    <3> QED
      BY <1>2, <1>3, <3>1, <3>2, <3>3
  <2>2. CASE ~Monitor!IsNew(b)
    <3>1. processed' = processed /\ handled' = handled /\ b \in Seen
      BY <1>1, <2>2, NewIsUnseen
    <3> QED
      BY <1>2, <3>1 DEF Seen
  <2> QED
    BY <2>1, <2>2
<1>9. MonitorTypes'
  <2>1. \A q \in Slot : PollOK(poll'[q])
    BY <1>2, <1>6, <1>7 DEF MonitorTypes
  <2>2. poll' \in [Slot -> Polls]
    BY <1>2, <1>4, <1>5 DEF MonitorTypes, Polls
  <2>3. Seen' \subseteq 1..Len(chain)
    BY <1>2, <1>3, <1>8
  <2> QED
    BY <1>1, <1>2, <1>8, <2>1, <2>2, <2>3 DEF MonitorTypes, PollOK, Polls
<1>10. ASSUME NEW f \in Nat, Floor(f) PROVE Floor(f)'
  <2>1. b > f /\ \A c \in r.todo : c > f
    BY <1>5, <1>10 DEF Floor
  <2>2. \A c \in 1..MaxBlock : handled'[c] <= 1 /\ (handled'[c] > 0 => c \in Seen' \/ c <= f)
    <3> TAKE c \in 1..MaxBlock
    <3>1. handled[c] \in Nat /\ handled[c] <= 1 /\ (handled[c] > 0 => c \in Seen \/ c <= f)
      BY <1>2, <1>10 DEF Floor
    <3>2. CASE c = b /\ b \notin Seen
      BY <1>3, <1>8, <2>1, <3>1, <3>2
    <3>3. CASE c # b \/ b \in Seen
      BY <1>8, <3>1, <3>3
    <3> QED
      BY <3>2, <3>3
  <2>3. Between(f, lastBlock, Seen')
    BY <1>8, <1>10 DEF Floor, Between
  <2>4. \A q \in Slot : Handling(q)' <=> Handling(q)
    BY <1>1, <1>5, <1>7 DEF Handling
  <2>5. \A q \in Slot : /\ poll'[q].head = poll[q].head
                        /\ poll[q].todo \subseteq poll'[q].todo \cup {b}
    BY <1>5, <1>7
  <2>6. \A q \in Slot : Handling(q) => Between(f, poll'[q].head, Seen' \cup poll'[q].todo)
    BY <1>8, <1>10, <2>5 DEF Floor, Between
  <2>7. \A d \in Seen' : Between(f, d, Seen')
    <3>1. Between(f, b, Seen')
      <4> SUFFICES ASSUME NEW c \in (f + 1)..b, chain[c], c # b PROVE c \in Seen
        BY <1>8 DEF Between
      <4>1. c \in (f + 1)..poll[s].head /\ c < b
        BY <1>2, <1>3
      <4>2. c \in Seen \cup poll[s].todo
        BY <1>1, <1>10, <4>1 DEF Floor, Handling, Between
      <4> QED
        BY <1>1, <1>2, <1>3, <4>1, <4>2
    <3>2. \A d \in Seen : Between(f, d, Seen')
      BY <1>8, <1>10 DEF Floor, Between
    <3> QED
      BY <1>8, <3>1, <3>2
  <2>8. Len(processed') > MaxProcessed
          => \E q \in Slot : Handling(q) /\ \A d \in Seen' : d <= poll'[q].head
    <3>1. CASE b \in Seen
      BY <1>8, <1>10, <2>5, <3>1 DEF Floor
    <3>2. CASE b \notin Seen
      <4> SUFFICES \A d \in Seen : d <= poll[s].head
        BY <1>1, <1>2, <1>3, <1>8, <2>5 DEF Handling
      <4> TAKE d \in Seen
      <4>1. d \in Nat /\ Between(f, d, Seen)
        BY <1>2, <1>10 DEF Floor
      <4>2. b \notin (f + 1)..d
        BY <1>2, <3>2, <4>1 DEF Between
      <4> QED
        BY <1>2, <1>3, <2>1, <4>1, <4>2
    <3> QED
      BY <3>1, <3>2
  <2>9. \A q \in Slot : /\ poll'[q] # Monitor!Idle => poll'[q].head > f
                        /\ \A c \in poll'[q].todo : c > f
    <3>1. poll[s] # Monitor!Idle /\ r.head > f
      BY <1>1, <1>5, <1>10 DEF Floor, Monitor!Idle
    <3> QED
      BY <1>7, <1>10, <2>1, <3>1 DEF Floor
  <2>10. /\ Between(f, lastBlock, Seen)'
         /\ \A q \in Slot : Handling(q)' => Between(f, poll[q].head, Seen \cup poll[q].todo)'
    BY <1>1, <2>3, <2>4, <2>6 DEF Between
  <2>11. \A d \in Seen' : Between(f, d, Seen)'
    BY <1>1, <2>7 DEF Between
  <2> QED
    BY <1>1, <1>10, <2>2, <2>4, <2>8, <2>9, <2>10, <2>11 DEF Floor, Between
<1> QED
  BY <1>1, <1>9, <1>10 DEF MInv
\* A poll that hands transfers over is not free.
LEMMA HandlingBusy == ASSUME NEW s \in Slot, Handling(s) PROVE poll[s] # Monitor!Idle
BY DEF Handling, Monitor!Idle

\* A poll that ends has every transfer up to its head in the set.  If the set
\* is trimmed then, no other poll is under way, its head is the new floor; or
\* one is, and this is noted.
LEMMA EndInv == ASSUME MInv, NEW s \in Slot, Monitor!EndPoll(s) PROVE MInv'
<1> DEFINE n == Len(processed)
           trim == n > MaxProcessed
<1>1. /\ poll[s].pc = "handling" /\ poll[s].todo = {} /\ lastBlock' = poll[s].head
      /\ processed' = IF trim THEN SubSeq(processed, n - Kept + 1, n) ELSE processed
      /\ crossed' = (crossed \/ (trim /\ \E q \in Slot \ {s} : poll[q] # Monitor!Idle))
      /\ poll' = [poll EXCEPT ![s] = Monitor!Idle]
      /\ UNCHANGED <<chain, handled>>
  BY DEF Monitor!EndPoll, Monitor!BlockSeen
<1>2. /\ Len(chain) \in Nat /\ lastBlock \in 0..Len(chain) /\ crossed \in BOOLEAN
      /\ MonitorTypes /\ poll[s].head \in 0..Len(chain)
      /\ processed \in Seq(Nat) /\ Seen \subseteq 1..Len(chain)
  BY PollFields DEF MInv, MonitorTypes
<1>3. trim => processed' \in Seq(Nat) /\ Len(processed') <= MaxProcessed /\ Seen' \subseteq Seen
  BY <1>1, <1>2, SeenTrimmed
<1>4. ~trim => processed' = processed /\ Seen' = Seen
  BY <1>1 DEF Seen
<1>5. crossed' \in BOOLEAN
  BY <1>1, <1>2
<1>6. \A q \in Slot : poll'[q] = IF q = s THEN Monitor!Idle ELSE poll[q]
  BY <1>1, <1>2, PollChanges
<1>7. MonitorTypes'
  <2>1. \A q \in Slot : PollOK(poll'[q])
    BY <1>2, <1>6, IdleIsPoll DEF MonitorTypes
  <2>2. poll' \in [Slot -> Polls]
    BY <1>1, <1>2, IdleIsPoll DEF MonitorTypes, Polls
  <2>3. processed' \in Seq(Nat) /\ Seen' \subseteq 1..Len(chain)
    BY <1>2, <1>3, <1>4
  <2> QED
    BY <1>1, <1>2, <1>5, <2>1, <2>2, <2>3 DEF MonitorTypes, PollOK, Polls
<1>8. ASSUME NEW f \in Nat, Floor(f), ~crossed'
      PROVE  \E g \in Nat : Floor(g)'
  <2>1. /\ poll[s].head > f /\ Handling(s) /\ Between(f, poll[s].head, Seen)
        /\ f \in Nat /\ poll[s].head \in Nat
    <3>1. Handling(s) /\ poll[s] # Monitor!Idle
      BY <1>1, HandlingBusy DEF Handling
    <3>2. Between(f, poll[s].head, Seen \cup poll[s].todo) /\ poll[s].head > f
      BY <1>8, <3>1 DEF Floor
    <3>3. Seen \cup poll[s].todo = Seen
      BY <1>1
    <3> QED
      BY <1>2, <1>8, <3>1, <3>2, <3>3 DEF Between
  <2>2. CASE ~trim
    <3>1. \A q \in Slot : (Handling(q)' => Handling(q)) /\ (Handling(q) /\ q # s => Handling(q)')
      BY <1>6 DEF Handling, Monitor!Idle
    <3>2. \A q \in Slot : Handling(q)' => poll'[q] = poll[q]
      BY <1>6 DEF Handling, Monitor!Idle
    <3>3. \A q \in Slot : /\ poll'[q] # Monitor!Idle => poll'[q].head > f
                          /\ \A b \in poll'[q].todo : b > f
      BY <1>6, <1>8 DEF Floor, Monitor!Idle
    <3>4. f <= lastBlock' /\ Between(f, lastBlock', Seen)
      BY <1>1, <2>1
    <3>5. ~(Len(processed') > MaxProcessed)
      BY <1>4, <2>2
    <3> HIDE DEF trim
    <3>6. Floor(f)'
      BY <1>1, <1>4, <1>8, <2>2, <3>1, <3>2, <3>3, <3>4, <3>5 DEF Floor, Between
    <3> QED
      BY <3>6
  <2>3. CASE trim
    <3>0. PICK g \in Nat : g = poll[s].head
      BY <2>1
    <3>1. \A q \in Slot : poll'[q] = Monitor!Idle
      BY <1>1, <1>6, <1>8, <2>3
    <3>2. g \in Nat /\ lastBlock' = g /\ \A b \in (g + 1)..g : FALSE
      BY <1>1, <2>1, <3>0
    <3>3. \A d \in Seen : d <= g
      <4>1. PICK q \in Slot : Handling(q) /\ \A d \in Seen : d <= poll[q].head
        BY <1>8, <2>3 DEF Floor
      <4>2. q = s
        BY <1>1, <1>8, <2>3, <4>1, HandlingBusy
      <4> QED
        BY <3>0, <4>1, <4>2
    <3>4. \A b \in 1..MaxBlock : handled[b] <= 1 /\ (handled[b] > 0 => b <= g)
      <4> TAKE b \in 1..MaxBlock
      <4>1. handled[b] <= 1 /\ (handled[b] > 0 => b \in Seen \/ b <= f)
        BY <1>8 DEF Floor
      <4> QED
        BY <2>1, <3>0, <3>3, <4>1
    <3>5. \A d \in Seen' : \A b \in (g + 1)..d : FALSE
      <4> TAKE d \in Seen'
      <4>1. d \in Seen
        BY <1>3, <2>3
      <4>2. d \in Nat /\ d <= g
        BY <1>2, <3>3, <4>1
      <4> QED
        BY <3>2, <4>2
    <3>6. ~(Len(processed') > MaxProcessed)
      <4>1. Len(processed') \in Nat /\ MaxProcessed \in Nat /\ Len(processed') <= MaxProcessed
        BY <1>3, <2>3, InstanceAssumption DEF Monitor!MonitorAssumption
      <4> QED
        BY <4>1
    <3>7. \A q \in Slot : ~Handling(q)' /\ poll'[q].todo = {}
      BY <3>1 DEF Handling, Monitor!Idle
    <3> HIDE DEF trim
    <3>8. Between(g, lastBlock, Seen)' /\ \A d \in Seen' : Between(g, d, Seen)'
      BY <3>2, <3>5 DEF Between
    <3>9. g <= lastBlock' /\ \A b \in 1..MaxBlock : handled'[b] = handled[b]
      BY <1>1, <3>2
    <3>10. Floor(g)'
      BY <3>1, <3>4, <3>6, <3>7, <3>8, <3>9 DEF Floor
    <3> QED
      BY <3>10
  <2> QED
    BY <2>2, <2>3
<1>9. ~crossed' => ~crossed
  BY <1>1
<1> QED
  BY <1>5, <1>7, <1>8, <1>9 DEF MInv

\* Every step of the monitor preserves the invariant.
LEMMA MonitorStep == MInv /\ [Monitor!Next]_(Monitor!vars) => MInv'
<1> SUFFICES ASSUME MInv, [Monitor!Next]_(Monitor!vars) PROVE MInv'
  OBVIOUS
<1>1. CASE UNCHANGED Monitor!vars
  BY <1>1 DEF Monitor!vars, MInv, MonitorTypes, Floor, Seen, PollOK, Handling, Between
<1>2. ASSUME NEW transfer \in BOOLEAN, Monitor!Block(transfer) PROVE MInv'
  BY <1>2, BlockInv
<1>3. ASSUME NEW s \in Slot, Monitor!Poll(s) \/ Monitor!FailPoll(s) PROVE MInv'
  BY <1>3, StartInv, LogsInv, HandleInv, EndInv, FailInv DEF Monitor!Poll
<1>4. CASE Monitor!Restart
  BY <1>4, RestartInv
<1> QED
  BY <1>1, <1>2, <1>3, <1>4 DEF Monitor!Next

\* No transfer was handed over twice, unless polls overlapped a trim.
LEMMA MonitorSafe == MInv => Monitor!HandledOnce
BY DEF MInv, MonitorTypes, Floor, Monitor!HandledOnce

\* So no behaviour of the monitor hands a transfer over twice.
THEOREM HandedOverOnce == Monitor!Spec => []Monitor!HandledOnce
<1>1. Monitor!Spec => []MInv
  BY MonitorInit, MonitorStep, PTL DEF Monitor!Spec
<1> QED
  BY <1>1, MonitorSafe, PTL

-----------------------------------------------------------------------------
(***************************************************************************)
(* Posting: that a post is repeated within its window only by events that  *)
(* overlap, or after a lost answer or a restart, and that an agent which   *)
(* was not verified before never posts on Moltbook.                        *)
(*                                                                         *)
(* The first follows from two facts about the noted times: an event began  *)
(* outside the window of the last one, and the last post the site took is  *)
(* noted at least as late, waits for its answer or does not count.  Both   *)
(* need that ages grow alike.  The second needs that nothing is under way  *)
(* on Moltbook, so that nothing there can be posted or solved.             *)
(***************************************************************************)
Events == [pc : {"none", "writing", "answering", "challenged"}, trigger : Trigger, age : Nat]

Ages == {a \in [Trigger -> Nat] : \A t \in Trigger : a[t] <= Window[t]}

PostTypes ==
  /\ last \in Ages /\ posted \in Ages /\ event \in [Slot -> Events]
  /\ \A s \in Slot : event[s].age <= Window[event[s].trigger]

\* Within the window an event writes only about a post noted since it began.
Overlap ==
  \A s \in Slot :
    event[s].pc = "writing" =>
      \/ last[event[s].trigger] >= Window[event[s].trigger]
      \/ last[event[s].trigger] <= event[s].age

Answering(t) == \E q \in Slot : event[q].pc = "answering" /\ event[q].trigger = t

\* A post that counts is noted, or will be.
Noted == \A t \in Trigger : posted[t] >= Window[t] \/ last[t] <= posted[t] \/ Answering(t)

\* Before an agent has solved a challenge it has nothing under way on Moltbook.
Quiet ==
  unclaimed => /\ ~verified
               /\ \A s \in Slot : event[s] # Posts!None => Posts!Site(event[s].trigger) # "moltbook"
               /\ \A t \in Trigger : Posts!Site(t) = "moltbook" => posted[t] = Window[t]

\* Only Moltbook answers with a challenge.
Challenged ==
  \A s \in Slot : event[s].pc = "challenged" => Posts!Site(event[s].trigger) = "moltbook"

PostInv == PostTypes /\ Overlap /\ Noted /\ Quiet /\ Challenged

-----------------------------------------------------------------------------
\* Windows are ages, and the longest ones.
LEMMA Windows0 ==
  /\ Window \in Ages /\ Posts!Change \in Trigger
  /\ \A t \in Trigger : Window[t] \in Nat
BY InstanceAssumption DEF Posts!PostingAssumption, Ages

\* Ages grow alike, up to the window of their trigger.
LEMMA OlderIsMonotone ==
  ASSUME NEW t \in Trigger
  PROVE  \A m, n \in 0..Window[t] :
           /\ Posts!Older(t, n) \in 0..Window[t] /\ n <= Posts!Older(t, n)
           /\ m <= n => Posts!Older(t, m) <= Posts!Older(t, n)
BY Windows0 DEF Posts!Older

\* A free slot, and an event that has just begun.
LEMMA NewEvents ==
  /\ Posts!None \in Events /\ Posts!None.pc = "none" /\ Posts!Site(Posts!Change) # "moltbook"
  /\ Posts!None.age = 0 /\ Posts!None.trigger \in Trigger
  /\ \A t \in Trigger : /\ Posts!Started(t) \in Events /\ Posts!Started(t).pc = "writing"
                        /\ Posts!Started(t).trigger = t /\ Posts!Started(t).age = 0
BY Windows0 DEF Posts!None, Posts!Started, Events, Posts!Site, Posts!Change

\* An event that waits for something is not a free slot.
LEMMA BusyIsNotNone ==
  \A e : e.pc \in {"writing", "answering", "challenged"} => e # Posts!None
BY DEF Posts!None

\* No event and no post that counts.
LEMMA PostBegins ==
  ASSUME last = Window, posted = Window, event = [s \in Slot |-> Posts!None]
  PROVE  PostTypes /\ Overlap /\ Noted /\ Challenged
<1>1. \A s \in Slot : event[s] = Posts!None
  OBVIOUS
<1>2. PostTypes
  BY <1>1, Windows0, NewEvents DEF PostTypes
<1>3. Noted
  BY Windows0 DEF Noted
<1> QED
  BY <1>1, <1>2, <1>3, NewEvents DEF Overlap, Challenged

\* So the model begins.
LEMMA PostInit == Posts!Init => PostInv
BY PostBegins DEF Posts!Init, PostInv, Quiet

\* So it is after a restart.
LEMMA PostRestart == ASSUME PostInv, Posts!Restart PROVE PostInv'
<1>1. PostTypes' /\ Overlap' /\ Noted' /\ Challenged'
  <2>1. /\ last' = Window /\ posted' = Window
        /\ event' = [s \in Slot |-> Posts!None]
    BY DEF Posts!Restart
  <2>2. \A s \in Slot : event'[s] = Posts!None
    BY <2>1
  <2>3. PostTypes'
    BY <2>1, <2>2, Windows0, NewEvents DEF PostTypes
  <2>4. Noted'
    BY <2>1, Windows0 DEF Noted
  <2> QED
    BY <2>2, <2>3, <2>4, NewEvents DEF Overlap, Challenged
<1>2. Quiet'
  BY DEF Posts!Restart, PostInv, Quiet
<1> QED
  BY <1>1, <1>2 DEF PostInv

\* The posts and the events grow older together.
LEMMA TimeInv == ASSUME PostInv, Posts!Time PROVE PostInv'
<1>1. /\ last \in Ages /\ posted \in Ages /\ event \in [Slot -> Events]
      /\ last' = [t \in Trigger |-> Posts!Older(t, last[t])]
      /\ posted' = [t \in Trigger |-> Posts!Older(t, posted[t])]
      /\ UNCHANGED <<verified, unclaimed>>
  BY DEF PostInv, PostTypes, Posts!Time
<1>a. \A t \in Trigger :
        /\ Window[t] \in Nat /\ last[t] \in 0..Window[t] /\ posted[t] \in 0..Window[t]
        /\ last'[t] = Posts!Older(t, last[t]) /\ posted'[t] = Posts!Older(t, posted[t])
  BY <1>1, Windows0 DEF Ages
<1>2. \A s \in Slot :
        /\ event[s].age \in 0..Window[event[s].trigger] /\ event[s].trigger \in Trigger
        /\ event'[s] \in Events /\ event'[s].age <= Window[event'[s].trigger]
        /\ event'[s].pc = event[s].pc /\ event'[s].trigger = event[s].trigger
        /\ event[s] = Posts!None => event'[s] = Posts!None
        /\ event[s] # Posts!None => event'[s].age = Posts!Older(event[s].trigger, event[s].age)
  <2> TAKE s \in Slot
  <2>1. /\ event[s] \in Events /\ event[s].trigger \in Trigger
        /\ event[s].age \in 0..Window[event[s].trigger]
    BY <1>1, <1>a DEF PostInv, PostTypes, Events
  <2>2. event'[s] = IF event[s] = Posts!None THEN Posts!None
                    ELSE [event[s] EXCEPT !.age = Posts!Older(event[s].trigger, event[s].age)]
    BY DEF Posts!Time
  <2>3. Posts!Older(event[s].trigger, event[s].age) \in 0..Window[event[s].trigger]
    BY <2>1, OlderIsMonotone
  <2>4. CASE event[s] = Posts!None
    BY <2>1, <2>2, <2>4, <1>a, NewEvents
  <2>5. CASE event[s] # Posts!None
    <3>1. event'[s] = [event[s] EXCEPT !.age = Posts!Older(event[s].trigger, event[s].age)]
      BY <2>2, <2>5
    <3> QED
      BY <2>1, <2>3, <2>5, <3>1, <1>a DEF Events
  <2> QED
    BY <2>4, <2>5
<1>3. event' = [s \in Slot |-> event'[s]]
  BY DEF Posts!Time
<1>4. PostTypes'
  <2>1. \A t \in Trigger : /\ Posts!Older(t, last[t]) \in 0..Window[t]
                           /\ Posts!Older(t, posted[t]) \in 0..Window[t]
    BY <1>a, OlderIsMonotone
  <2>2. last' \in Ages /\ posted' \in Ages
    BY <1>1, <1>a, <2>1 DEF Ages
  <2> QED
    BY <1>2, <1>3, <2>2 DEF PostTypes
<1>5. Overlap'
  <2> SUFFICES ASSUME NEW s \in Slot, event[s].pc = "writing"
               PROVE  \/ last'[event[s].trigger] >= Window[event[s].trigger]
                      \/ last'[event[s].trigger] <= event'[s].age
    BY <1>2 DEF Overlap
  <2>1. PICK t \in Trigger : t = event[s].trigger
    BY <1>2
  <2>2. last[t] >= Window[t] \/ last[t] <= event[s].age
    BY <2>1 DEF PostInv, Overlap
  <2>3. event'[s].age = Posts!Older(t, event[s].age) /\ event[s].age \in 0..Window[t]
    BY <1>2, <2>1, BusyIsNotNone
  <2> QED
    BY <1>a, <2>1, <2>2, <2>3, OlderIsMonotone
<1>6. Noted'
  <2> SUFFICES ASSUME NEW t \in Trigger
               PROVE  posted'[t] >= Window[t] \/ last'[t] <= posted'[t] \/ Answering(t)'
    BY DEF Noted
  <2>1. Answering(t) => Answering(t)'
    BY <1>2 DEF Answering
  <2>2. posted[t] >= Window[t] \/ last[t] <= posted[t] \/ Answering(t)
    BY DEF PostInv, Noted
  <2> QED
    BY <1>a, <2>1, <2>2, OlderIsMonotone
<1>7. Quiet'
  <2>1. \A t \in Trigger : Posts!Older(t, Window[t]) = Window[t]
    BY Windows0 DEF Posts!Older
  <2> QED
    BY <1>1, <1>a, <1>2, <2>1 DEF PostInv, Quiet
<1>8. Challenged'
  BY <1>2 DEF PostInv, Challenged
<1> QED
  BY <1>4, <1>5, <1>6, <1>7, <1>8 DEF PostInv

\* An event may begin: no noted post is within the window, and none begins on
\* Moltbook before the agent is verified.
LEMMA EventBegins ==
  ASSUME PostInv, NEW s \in Slot, NEW t \in Trigger, Posts!Due(t), event[s] = Posts!None,
         event' = [event EXCEPT ![s] = Posts!Started(t)],
         UNCHANGED <<last, posted, verified, unclaimed>>
  PROVE  PostInv'
<1>1. /\ \A q \in Slot : event'[q] = IF q = s THEN Posts!Started(t) ELSE event[q]
      /\ PostTypes'
  BY NewEvents, Windows0 DEF PostInv, PostTypes
<1>2. Overlap'
  <2>1. last'[t] >= Window[t]
    BY DEF Posts!Due
  <2> QED
    BY <1>1, <2>1, NewEvents DEF PostInv, Overlap
<1>3. Noted'
  BY <1>1, NewEvents DEF PostInv, Noted, Answering
<1>4. Quiet'
  <2>1. Posts!Site(t) = "moltbook" => verified
    BY DEF Posts!Due
  <2> QED
    BY <1>1, <2>1, NewEvents DEF PostInv, Quiet
<1>5. Challenged'
  BY <1>1, NewEvents DEF PostInv, Challenged
<1> QED
  BY <1>1, <1>2, <1>3, <1>4, <1>5 DEF PostInv

\* An event ends that waits for no answer, whatever it awaited.
LEMMA OverInv ==
  ASSUME PostInv, NEW s \in Slot, event[s].pc # "answering",
         event' = [event EXCEPT ![s] = Posts!None],
         UNCHANGED <<last, posted, unclaimed>>, unclaimed => verified' = verified
  PROVE  PostInv'
<1>1. /\ \A q \in Slot : event'[q] = IF q = s THEN Posts!None ELSE event[q]
      /\ PostTypes'
  BY NewEvents, Windows0 DEF PostInv, PostTypes
<1>2. Overlap' /\ Challenged'
  BY <1>1, NewEvents DEF PostInv, Overlap, Challenged
<1>3. Noted'
  BY <1>1 DEF PostInv, Noted, Answering
<1>4. Quiet'
  BY <1>1 DEF PostInv, Quiet
<1> QED
  BY <1>1, <1>2, <1>3, <1>4 DEF PostInv

\* Two events begin at once, the second about the new survival state.
LEMMA BothInv ==
  ASSUME PostInv, NEW s \in Slot, NEW q \in Slot, NEW t \in Trigger,
         Posts!OnEventAndChange(s, q, t)
  PROVE  PostInv'
<1> DEFINE ChangeEvent == IF Posts!Due(Posts!Change) THEN Posts!Started(Posts!Change)
                           ELSE Posts!None
<1>1. /\ s # q /\ event[s] = Posts!None /\ event[q] = Posts!None /\ Posts!Due(t)
      /\ Posts!Change \in Trigger /\ event \in [Slot -> Events]
      /\ event' = [event EXCEPT ![s] = Posts!Started(t), ![q] = ChangeEvent]
      /\ UNCHANGED <<last, posted, verified, unclaimed>>
  BY Windows0 DEF Posts!OnEventAndChange, PostInv, PostTypes
<1>2. /\ \A p \in Slot : event'[p] = IF p = q THEN ChangeEvent
                                     ELSE IF p = s THEN Posts!Started(t) ELSE event[p]
      /\ PostTypes'
  BY <1>1, NewEvents, Windows0 DEF PostInv, PostTypes
<1>3. Overlap'
  <2>1. /\ last'[t] >= Window[t]
        /\ Posts!Due(Posts!Change) => last'[Posts!Change] >= Window[Posts!Change]
    BY <1>1 DEF Posts!Due
  <2> QED
    BY <1>1, <1>2, <2>1, NewEvents DEF PostInv, Overlap
<1>4. Noted'
  BY <1>1, <1>2, NewEvents DEF PostInv, Noted, Answering
<1>5. Quiet'
  <2>1. Posts!Site(t) = "moltbook" => verified
    BY <1>1 DEF Posts!Due
  <2> QED
    BY <1>1, <1>2, <2>1, NewEvents DEF PostInv, Quiet
<1>6. Challenged'
  BY <1>1, <1>2, NewEvents DEF PostInv, Challenged
<1> QED
  BY <1>2, <1>3, <1>4, <1>5, <1>6 DEF PostInv

\* A post waits for its answer until it is noted.
LEMMA PostedInv == ASSUME PostInv, NEW s \in Slot, Posts!Post(s) PROVE PostInv'
<1>1. PICK t \in Trigger : t = event[s].trigger
  BY DEF PostInv, PostTypes, Events
<1>2. /\ event[s].pc = "writing" /\ event[s] # Posts!None /\ event[s] \in Events
      /\ posted' = [posted EXCEPT ![t] = 0] /\ UNCHANGED <<last, verified, unclaimed>>
      /\ posted \in Ages /\ event \in [Slot -> Events]
      /\ event' = [event EXCEPT ![s].pc = "answering"]
  BY <1>1, BusyIsNotNone DEF Posts!Post, PostInv, PostTypes
<1>3. /\ event'[s].pc = "answering" /\ event'[s].trigger = t /\ event'[s].age = event[s].age
      /\ event'[s] \in Events /\ \A q \in Slot \ {s} : event'[q] = event[q]
  BY <1>1, <1>2 DEF Events
<1>4. \A u \in Trigger : posted'[u] = IF u = t THEN 0 ELSE posted[u]
  BY <1>2 DEF Ages
<1>5. PostTypes'
  <2>1. posted' \in Ages
    BY <1>2, <1>4, Windows0 DEF Ages
  <2>2. event' = [q \in Slot |-> event'[q]]
    BY <1>2
  <2> QED
    BY <1>1, <1>2, <1>3, <2>1, <2>2 DEF PostInv, PostTypes
<1>6. Overlap'
  BY <1>2, <1>3 DEF PostInv, Overlap
<1>7. Noted'
  <2>1. \A u \in Trigger : Answering(u) => Answering(u)'
    BY <1>2, <1>3 DEF Answering
  <2>2. Answering(t)'
    BY <1>3 DEF Answering
  <2> QED
    BY <1>2, <1>4, <2>1, <2>2 DEF PostInv, Noted
<1>8. Quiet'
  BY <1>1, <1>2, <1>3, <1>4 DEF PostInv, Quiet
<1>9. Challenged'
  BY <1>2, <1>3 DEF PostInv, Challenged
<1> QED
  BY <1>5, <1>6, <1>7, <1>8, <1>9 DEF PostInv

\* Its answer makes the last one of its trigger younger than every event.
LEMMA AnsweredInv == ASSUME PostInv, NEW s \in Slot, Posts!Answered(s) PROVE PostInv'
<1>1. PICK t \in Trigger : t = event[s].trigger
  BY DEF PostInv, PostTypes, Events
<1>2. /\ event[s].pc = "answering" /\ event[s] # Posts!None /\ last' = [last EXCEPT ![t] = 0]
      /\ event[s] \in Events /\ UNCHANGED <<posted, verified, unclaimed>>
      /\ last \in Ages /\ posted \in Ages /\ event \in [Slot -> Events]
  BY <1>1, BusyIsNotNone DEF Posts!Answered, PostInv, PostTypes
<1>3. PICK e : /\ event' = [event EXCEPT ![s] = e]
               /\ \/ e = Posts!None
                  \/ Posts!Site(t) = "moltbook" /\ e = [event[s] EXCEPT !.pc = "challenged"]
  BY <1>1, <1>2 DEF Posts!Answered
<1>4. /\ e \in Events /\ e.pc \notin {"writing", "answering"}
      /\ e.pc = "challenged" => e # Posts!None
      /\ e # Posts!None => Posts!Site(t) = "moltbook" /\ e.trigger = t
      /\ e.age <= Window[e.trigger]
  BY <1>1, <1>2, <1>3, NewEvents, Windows0 DEF Events, PostInv, PostTypes
<1>5. /\ \A q \in Slot : event'[q] = IF q = s THEN e ELSE event[q]
      /\ \A u \in Trigger : last'[u] = IF u = t THEN 0 ELSE last[u]
  BY <1>2, <1>3 DEF Ages
<1>6. PostTypes'
  <2>1. last' \in Ages
    BY <1>2, <1>5, Windows0 DEF Ages
  <2> QED
    BY <1>2, <1>3, <1>4, <1>5, <2>1 DEF PostInv, PostTypes
<1>7. Overlap'
  <2> SUFFICES ASSUME NEW q \in Slot, q # s, event[q].pc = "writing"
               PROVE  \/ last'[event[q].trigger] >= Window[event[q].trigger]
                      \/ last'[event[q].trigger] <= event[q].age
    BY <1>4, <1>5 DEF Overlap
  <2>1. event[q].trigger \in Trigger /\ event[q].age \in Nat
    BY <1>2 DEF Events
  <2> QED
    BY <1>5, <2>1 DEF PostInv, Overlap
<1>8. Noted'
  <2> SUFFICES ASSUME NEW u \in Trigger
               PROVE  posted'[u] >= Window[u] \/ last'[u] <= posted'[u] \/ Answering(u)'
    BY DEF Noted
  <2>1. CASE u = t
    BY <1>2, <1>5, <2>1 DEF Ages
  <2>2. CASE u # t
    <3>1. Answering(u) => Answering(u)'
      BY <1>1, <1>5, <2>2 DEF Answering
    <3> QED
      BY <1>2, <1>5, <2>2, <3>1 DEF PostInv, Noted
  <2> QED
    BY <2>1, <2>2
<1>9. Quiet'
  BY <1>1, <1>2, <1>4, <1>5 DEF PostInv, Quiet
<1>10. Challenged'
  BY <1>4, <1>5 DEF PostInv, Challenged
<1> QED
  BY <1>6, <1>7, <1>8, <1>9, <1>10 DEF PostInv

\* Without its answer, no post of its trigger counts any more.
LEMMA LostInv == ASSUME PostInv, NEW s \in Slot, Posts!AnswerLost(s) PROVE PostInv'
<1>1. PICK t \in Trigger : t = event[s].trigger
  BY DEF PostInv, PostTypes, Events
<1>2. /\ event' = [event EXCEPT ![s] = Posts!None] /\ posted' = [posted EXCEPT ![t] = Window[t]]
      /\ UNCHANGED <<last, verified, unclaimed>> /\ posted \in Ages
  BY <1>1 DEF Posts!AnswerLost, PostInv, PostTypes
<1>3. /\ \A q \in Slot : event'[q] = IF q = s THEN Posts!None ELSE event[q]
      /\ \A u \in Trigger : posted'[u] = IF u = t THEN Window[t] ELSE posted[u]
  BY <1>2 DEF PostInv, PostTypes, Ages
<1>4. PostTypes'
  <2>1. posted' \in Ages
    BY <1>2, <1>3, Windows0 DEF Ages
  <2> QED
    BY <1>2, <1>3, <2>1, NewEvents, Windows0 DEF PostInv, PostTypes
<1>5. Overlap' /\ Challenged'
  BY <1>2, <1>3, NewEvents DEF PostInv, Overlap, Challenged
<1>6. Noted'
  <2> SUFFICES ASSUME NEW u \in Trigger
               PROVE  posted'[u] >= Window[u] \/ last'[u] <= posted'[u] \/ Answering(u)'
    BY DEF Noted
  <2>1. CASE u = t
    BY <1>3, <2>1, Windows0
  <2>2. CASE u # t
    <3>1. Answering(u) => Answering(u)'
      BY <1>1, <1>3, <2>2 DEF Answering
    <3> QED
      BY <1>2, <1>3, <2>2, <3>1 DEF PostInv, Noted
  <2> QED
    BY <2>1, <2>2
<1>7. Quiet'
  BY <1>2, <1>3 DEF PostInv, Quiet
<1> QED
  BY <1>4, <1>5, <1>6, <1>7 DEF PostInv

\* Only an event on Moltbook has a challenge to solve.
LEMMA SolvedInv == ASSUME PostInv, NEW s \in Slot, Posts!SolveVerification(s) PROVE PostInv'
<1>1. /\ event[s].pc = "challenged" /\ event[s].pc # "answering" /\ event[s] # Posts!None
      /\ Posts!Site(event[s].trigger) = "moltbook"
  BY BusyIsNotNone DEF Posts!SolveVerification, PostInv, Challenged
<1>2. ~unclaimed
  BY <1>1 DEF PostInv, Quiet
<1>3. event' = [event EXCEPT ![s] = Posts!None] /\ UNCHANGED <<last, posted, unclaimed>>
  BY DEF Posts!SolveVerification
<1> QED
  BY <1>1, <1>2, <1>3, OverInv

\* Every step of the posts preserves the invariant.
LEMMA PostStep == PostInv /\ [Posts!Next]_(Posts!vars) => PostInv'
<1> SUFFICES ASSUME PostInv, [Posts!Next]_(Posts!vars) PROVE PostInv'
  OBVIOUS
<1>1. CASE UNCHANGED <<last, posted, event, verified, unclaimed>>
  BY <1>1 DEF PostInv, PostTypes, Overlap, Noted, Answering, Quiet, Challenged
<1>2. CASE Posts!Time
  BY <1>2, TimeInv
<1>3. CASE Posts!Restart
  BY <1>3, PostRestart
<1>4. ASSUME NEW s \in Slot, NEW t \in Trigger, Posts!OnEvent(s, t) PROVE PostInv'
  BY <1>4, EventBegins DEF Posts!OnEvent
<1>5. ASSUME NEW s \in Slot, NEW q \in Slot, NEW t \in Trigger, Posts!OnEventAndChange(s, q, t)
      PROVE PostInv'
  BY <1>5, BothInv
<1>6. ASSUME NEW s \in Slot, Posts!Post(s) \/ Posts!Answered(s) \/ Posts!AnswerLost(s)
                              \/ Posts!SolveVerification(s)
      PROVE PostInv'
  BY <1>6, PostedInv, AnsweredInv, LostInv, SolvedInv
<1>7. ASSUME NEW s \in Slot, Posts!Fail(s) PROVE PostInv'
  BY <1>7, OverInv DEF Posts!Fail
<1>8. CASE Posts!SurvivalChanges
  BY <1>1, <1>8 DEF Posts!SurvivalChanges
<1>9. UNCHANGED Posts!vars => UNCHANGED <<last, posted, event, verified, unclaimed>>
  BY DEF Posts!vars
<1> QED
  BY <1>1, <1>2, <1>3, <1>4, <1>5, <1>6, <1>7, <1>8, <1>9 DEF Posts!Next

\* The invariant.
THEOREM PostInvariance == Posts!Spec => []PostInv
BY PostInit, PostStep, PTL DEF Posts!Spec

\* The noted time stands for the post: of a post that counts and is noted, the
\* last noted one is younger, and an event that may write began before it.
LEMMA PostSafe == PostInv => Posts!RepeatOnlyOverlapping
<1> SUFFICES ASSUME PostInv, NEW s \in Slot, event[s].pc = "writing"
             PROVE  LET t == event[s].trigger
                    IN  \/ posted[t] >= Window[t]
                        \/ last[t] <= event[s].age
                        \/ Answering(t)
  BY DEF Posts!RepeatOnlyOverlapping, Answering
<1>1. PICK t \in Trigger : t = event[s].trigger
  BY DEF PostInv, PostTypes, Events
<1>2. last[t] \in Nat /\ posted[t] \in Nat /\ Window[t] \in Nat
  BY Windows0 DEF PostInv, PostTypes, Ages
<1>3. last[t] >= Window[t] \/ last[t] <= event[s].age
  BY <1>1 DEF PostInv, Overlap
<1>4. posted[t] >= Window[t] \/ last[t] <= posted[t] \/ Answering(t)
  BY DEF PostInv, Noted
<1> QED
  BY <1>1, <1>2, <1>3, <1>4

\* Within the window of a post that counts, only events that overlap with it
\* post again, for any triggers and windows: a post whose answer was lost does
\* not count, nor one before a restart.
THEOREM RepeatsOverlap == Posts!Spec => []Posts!RepeatOnlyOverlapping
BY PostSafe, PostInvariance, PTL

\* An agent that was not verified before never posts on Moltbook.
THEOREM NeverPosts == Posts!Spec => []Posts!UnclaimedNeverPosts
<1>1. PostInv => Posts!UnclaimedNeverPosts
  BY DEF PostInv, Quiet, Posts!UnclaimedNeverPosts
<1> QED BY <1>1, PostInvariance, PTL

-----------------------------------------------------------------------------
(***************************************************************************)
(* The instance that the run checks: one service runs and the others stay  *)
(* where they begin, each with its invariant.                              *)
(***************************************************************************)
ReadingInv == IF part = "reading" THEN Read!ReadInv ELSE answer = <<>>

AgentInv == IInv /\ PayInv /\ MInv /\ PostInv /\ ReadingInv

\* Reading and Read are instances of the same definitions.
LEMMA SameReading ==
  /\ Reading!Init = Read!Init /\ Reading!Next = Read!Next
  /\ ReadsNumbersBelowThousand = Read!ReadsNumbersBelowThousand
BY DEF ReadsNumbersBelowThousand,
   Reading!ReadsNumbersBelowThousand, Reading!Recognisable, Reading!Right,
   Read!ReadsNumbersBelowThousand, Read!Recognisable, Read!Right,
   Reading!Init, Reading!Next, Reading!Solve, Reading!Parse, Reading!ExtractNumber,
   Read!Init, Read!Next, Read!Solve, Read!Parse, Read!ExtractNumber,
   Reading!ReadWord, Reading!NoNumber, Reading!Lookup, Reading!Magnitude, Reading!Scale,
   Read!ReadWord, Read!NoNumber, Read!Lookup, Read!Magnitude, Read!Scale,
   Reading!InWords, Reading!Below1000, Reading!Below100, Reading!Tokens, Reading!Token,
   Read!InWords, Read!Below1000, Read!Below100, Read!Tokens, Read!Token,
   Reading!Ones, Reading!Tens, Reading!Doubled, Reading!Contains,
   Read!Ones, Read!Tens, Read!Doubled, Read!Contains,
   Reading!FoldLeft, Reading!MapThenFoldSet, Reading!Max,
   Read!FoldLeft, Read!MapThenFoldSet, Read!Max

\* The numbers that are asked are natural.
LEMMA AskedInAgent == \A n \in Numbers \cup Second : n < 1000 => n \in Read!Readable
<1>1. Read!VerificationAssumption
  BY InstanceAssumption, PTL
     DEF InstanceAssumption, Reading!VerificationAssumption, Read!VerificationAssumption
<1> QED
  BY <1>1, Read!AskedReadable, Zenon

LEMMA ReadingStep ==
  ASSUME ReadingInv, part' = part,
         (part = "reading" /\ Reading!Next) \/ UNCHANGED readVars
  PROVE  ReadingInv'
<1>1. CASE part = "reading"
  <2>1. [Read!Next]_(Read!vars)
    BY SameReading, Zenon DEF readVars, Read!vars
  <2>2. Read!ReadInv => Read!ReadInv'
    BY <2>1, Read!ReadStep, Zenon
  <2> QED
    BY <1>1, <2>2, Zenon DEF ReadingInv
<1>2. CASE part # "reading"
  BY <1>2, Zenon DEF ReadingInv, readVars
<1> QED
  BY <1>1, <1>2

\* A service that stays where it is keeps its invariant.
LEMMA NothingMoves ==
  /\ UNCHANGED vars => (IInv => IInv')
  /\ UNCHANGED payVars => (PayInv => PayInv')
  /\ UNCHANGED monitorVars => (MInv => MInv')
  /\ UNCHANGED postVars => (PostInv => PostInv')
<1>1. UNCHANGED vars => (IInv => IInv')
  BY StepInv
<1>2. UNCHANGED payVars => (PayInv => PayInv')
  BY PayStep, InstanceAssumption DEF payVars, Pay!vars
<1>3. UNCHANGED monitorVars => (MInv => MInv')
  BY MonitorStep DEF monitorVars, Monitor!vars
<1>4. UNCHANGED postVars => (PostInv => PostInv')
  BY PostStep DEF postVars, Posts!vars
<1> QED
  BY <1>1, <1>2, <1>3, <1>4

\* Every service begins with its invariant, the ones that do not run included.
LEMMA AgentInitInv == AgentInit => AgentInv
<1> SUFFICES ASSUME AgentInit PROVE AgentInv
  OBVIOUS
<1>1. IInv
  <2>1. MaxTime \in 0..MaxTime
    BY AuctionAssumption
  <2> QED
    BY <2>1, InitInv, NoAuctionsInv DEF AgentInit
<1>2. PayInv
  BY PayInit, InstanceAssumption DEF AgentInit
<1>3. MInv /\ PostInv
  BY MonitorInit, PostInit DEF AgentInit
<1>4. ReadingInv
  <2>1. CASE part = "reading"
    BY <2>1, SameReading, Read!ReadInit, Zenon DEF AgentInit, ReadingInv
  <2>2. CASE part # "reading"
    BY <2>2, Zenon DEF AgentInit, ReadingInv
  <2> QED BY <2>1, <2>2
<1> QED
  BY <1>1, <1>2, <1>3, <1>4 DEF AgentInv

\* A step is one of the service that runs.
LEMMA AgentStepInv == AgentInv /\ [AgentNext]_agentVars => AgentInv'
<1> SUFFICES ASSUME AgentInv, [AgentNext]_agentVars PROVE AgentInv'
  OBVIOUS
<1>1. CASE Next /\ UNCHANGED <<part, payVars, monitorVars, postVars, readVars>>
  BY <1>1, StepInv, NothingMoves, ReadingStep DEF AgentInv
<1>2. CASE Pay!Next /\ UNCHANGED <<part, vars, monitorVars, postVars, readVars>>
  BY <1>2, PayStep, InstanceAssumption, NothingMoves, ReadingStep DEF AgentInv
<1>3. CASE Monitor!Next /\ UNCHANGED <<part, vars, payVars, postVars, readVars>>
  BY <1>3, MonitorStep, NothingMoves, ReadingStep DEF AgentInv
<1>4. CASE Posts!Next /\ UNCHANGED <<part, vars, payVars, monitorVars, readVars>>
  BY <1>4, PostStep, NothingMoves, ReadingStep DEF AgentInv
<1>5. CASE /\ part = "reading" /\ Reading!Next
          /\ UNCHANGED <<part, vars, payVars, monitorVars, postVars>>
  BY <1>5, NothingMoves, ReadingStep DEF AgentInv
<1>6. CASE UNCHANGED agentVars
  BY <1>6, NothingMoves, ReadingStep DEF AgentInv, agentVars
<1> QED
  BY <1>1, <1>2, <1>3, <1>4, <1>5, <1>6 DEF AgentNext

\* The invariant of the instance.
THEOREM AgentInvariance == AgentSpec => []AgentInv
BY AgentInitInv, AgentStepInv, PTL DEF AgentSpec

\* The auctions keep their types in the instance as well.
THEOREM AuctionTypesInAgent == AgentSpec => []TypeOK
<1>1. AgentInv => TypeOK
  BY DEF AgentInv, IInv
<1> QED BY <1>1, AgentInvariance, PTL

\* One auction opened on impulse at a time, in the instance as well.
THEOREM OneAuctionInAgent == AgentSpec => []OneOpportunistic
<1>1. AgentInv => OneOpportunistic
  BY DEF AgentInv, IInv, Single, OneOpportunistic
<1> QED BY <1>1, AgentInvariance, PTL

\* One payment per call, in the instance as well.
THEOREM OnePaymentInAgent == AgentSpec => []OnePaymentPerCall
<1>1. AgentInv => OnePaymentPerCall
  BY DEF AgentInv, PayInv, Unique, Pay!TypeOK, Auths, OnePaymentPerCall, Pay!OnePaymentPerCall
<1> QED BY <1>1, AgentInvariance, PTL

\* A transfer is handed over once, unless the set was trimmed while polls
\* overlapped, in the instance as well.
THEOREM HandledOnceInAgent == AgentSpec => []HandledOnce
<1>1. AgentInv => HandledOnce
  BY MonitorSafe DEF AgentInv, HandledOnce
<1> QED BY <1>1, AgentInvariance, PTL

\* Only events that overlap repeat a post that counts, in the instance as well.
THEOREM RepeatsOverlapInAgent == AgentSpec => []RepeatOnlyOverlapping
<1>1. AgentInv => RepeatOnlyOverlapping
  BY PostSafe DEF AgentInv, RepeatOnlyOverlapping
<1> QED BY <1>1, AgentInvariance, PTL

\* An agent that was not verified before never posts on Moltbook, in the
\* instance as well.
THEOREM NeverPostsInAgent == AgentSpec => []UnclaimedNeverPosts
<1>1. AgentInv => UnclaimedNeverPosts
  BY DEF AgentInv, PostInv, Quiet, UnclaimedNeverPosts, Posts!UnclaimedNeverPosts
<1> QED BY <1>1, AgentInvariance, PTL

\* Two numbers below a thousand are read as they were meant, in the instance
\* as well.
THEOREM NumbersReadInAgent == AgentSpec => []ReadsNumbersBelowThousand
<1>1. AgentInv => ReadsNumbersBelowThousand
  <2>1. CASE part = "reading"
    BY <2>1, AskedInAgent, Read!ReadSafe, SameReading, Zenon DEF AgentInv, ReadingInv
  <2>2. CASE part # "reading"
    BY <2>2, SameReading, Zenon DEF AgentInv, ReadingInv, Read!ReadsNumbersBelowThousand
  <2> QED BY <2>1, <2>2
<1> QED BY <1>1, AgentInvariance, PTL
=============================================================================
