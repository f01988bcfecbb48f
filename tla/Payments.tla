------------------------------ MODULE Payments ------------------------------
(***************************************************************************)
(* What the agent pays from its own wallet: SecretVM credit, added when    *)
(* the account is missing or low and when a machine is created, and market *)
(* data by x402.                                                           *)
(*                                                                         *)
(* A payment is a signed transfer authorization.  The agent signs it after *)
(* a 402 answer and sends it with the request again; the seller settles it *)
(* on chain when it likes, if at all, and the contract accepts each        *)
(* authorization once.  An answer may be lost, or be an error although the *)
(* payment settles.                                                        *)
(*                                                                         *)
(* One unit is the USDC that addFunds adds; credit below one unit is low.  *)
(* The seller is external.  It is assumed to report success for a payment  *)
(* only when it has settled it, to add the credit then, and to complain of *)
(* too little credit only when there is.  Bounds of the model: MaxStart    *)
(* calls begun, the wallet's Balance, MaxCredit.                           *)
(***************************************************************************)
EXTENDS Naturals, FiniteSets

CONSTANTS
  Balance,    \* USDC in the agent's wallet at the start
  VmCost,     \* credit a new machine takes
  NoAccount,  \* the SecretVM account does not exist: 404
  MaxStart, MaxCredit

PaymentsAssumption ==
  /\ Balance \in Nat /\ VmCost \in Nat /\ MaxStart \in Nat /\ MaxCredit \in Nat
  /\ NoAccount \notin Nat

VARIABLES
  proc,     \* where the balance check, the creation and the market data stand
  calls,    \* calls of addFunds and fetchWithPayment that came to a payment
  started,  \* checks, creations and fetches begun so far
  sent,     \* authorizations a seller has seen
  settled,  \* those that were executed on chain
  credit    \* the SecretVM account

vars == <<proc, calls, started, sent, settled, credit>>

\* index.ts runs one balance check at a time; the fleet manager creates one
\* machine at a time.
Proc  == {"check", "create", "data"}
NoAuth == [by |-> "none", call |-> 0, sign |-> 0]
Idle  == [pc |-> "idle", next |-> "idle", auth |-> NoAuth]

Init ==
  /\ proc = [p \in Proc |-> Idle]
  /\ calls = 0 /\ started = 0
  /\ sent = {} /\ settled = {}
  /\ credit \in {NoAccount, 0, 1}

Low     == credit = NoAccount \/ credit = 0
Funds   == IF credit = NoAccount THEN 0 ELSE credit
Go(p, pc) == proc' = [proc EXCEPT ![p].pc = pc]
Begin(p)  == proc[p] = Idle /\ started < MaxStart /\ started' = started + 1

\* A call that may pay, and what the caller does after it.
Call(p, after) ==
  proc' = [proc EXCEPT ![p] = [pc |-> "ask", next |-> after, auth |-> NoAuth]]

Return(p) == proc' = [proc EXCEPT ![p] = [Idle EXCEPT !.pc = proc[p].next]]

\* Mutant: a failed top-up is logged, and the caller goes on.
ThrowLogged(p) == Return(p)

\* An exception ends the caller: the check and the market data catch it,
\* createVm passes it on to the fleet manager.
Throw(p) == proc' = [proc EXCEPT ![p] = Idle]

End(p) == proc' = [proc EXCEPT ![p] = Idle]

-----------------------------------------------------------------------------
\* addFunds, and fetchWithPayment, which has no second attempt.

\* The seller wants a payment: it is signed.
Sign(p) ==
  /\ proc[p].pc = "ask"
  /\ calls' = calls + 1
  /\ proc' = [proc EXCEPT ![p].pc = "pay",
                          ![p].auth = [by |-> p, call |-> calls', sign |-> 1]]
  /\ UNCHANGED <<started, sent, settled, credit>>

\* It wants none, and has added the funds or sent the data.
Free(p) ==
  /\ proc[p].pc = "ask"
  /\ p # "data" => Funds < MaxCredit
  /\ credit' = IF p = "data" THEN credit ELSE Funds + 1
  /\ Return(p)
  /\ UNCHANGED <<calls, started, sent, settled>>

\* The request with the payment arrives.
Send(p) ==
  /\ proc[p].pc \in {"pay", "payAgain"}
  /\ sent' = sent \cup {proc[p].auth}
  /\ Go(p, IF proc[p].pc = "pay" THEN "paid" ELSE "paidAgain")
  /\ UNCHANGED <<calls, started, settled, credit>>

\* The seller has an authorization executed.
Settle(a) ==
  /\ a \in sent \ settled
  /\ Cardinality(settled) < Balance
  /\ settled' = settled \cup {a}
  /\ credit' = IF a.by = "data" THEN credit ELSE Funds + 1
  /\ UNCHANGED <<proc, calls, started, sent>>

Succeed(p) ==
  /\ proc[p].pc \in {"paid", "paidAgain"} /\ proc[p].auth \in settled
  /\ Return(p)
  /\ UNCHANGED <<calls, started, sent, settled, credit>>

\* Mutant: a new authorization is signed for the second attempt.
RetryWithNewPayment(p) ==
  /\ proc[p].pc = "paid" /\ p # "data"
  /\ proc' = [proc EXCEPT ![p].pc = "payAgain", ![p].auth.sign = 2]
  /\ UNCHANGED <<calls, started, sent, settled, credit>>

\* 429: the same payment is sent once more.
RetryAfterLimit(p) ==
  /\ proc[p].pc = "paid" /\ p # "data"
  /\ Go(p, "payAgain")
  /\ UNCHANGED <<calls, started, sent, settled, credit>>

\* No answer or any other status.
Fail(p) ==
  /\ proc[p].pc \in {"ask", "pay", "paid", "payAgain", "paidAgain"}
  /\ Throw(p)
  /\ UNCHANGED <<calls, started, sent, settled, credit>>

-----------------------------------------------------------------------------
\* The callers.

\* The balance check, at the start and every half hour.  After it has made
\* the account it looks at the balance again, and tops up if that is low.
CheckBalance ==
  /\ Begin("check") /\ Low
  /\ Call("check", IF credit = NoAccount THEN "look" ELSE "idle")
  /\ UNCHANGED <<calls, sent, settled, credit>>

\* At the start the check ends here, whatever the balance.
LookAgain ==
  /\ proc["check"].pc = "look"
  /\ \/ Low /\ Call("check", "idle")
     \/ End("check")
  /\ UNCHANGED <<calls, started, sent, settled, credit>>

Create ==
  /\ Begin("create")
  /\ Go("create", "post")
  /\ UNCHANGED <<calls, sent, settled, credit>>

\* The machine is created, or the account lacks credit.
PostCreate ==
  /\ proc["create"].pc = "post"
  /\ \/ Funds >= VmCost /\ credit' = Funds - VmCost /\ End("create")
     \/ Funds < VmCost /\ Call("create", "post") /\ UNCHANGED credit
     \/ End("create") /\ UNCHANGED credit
  /\ UNCHANGED <<calls, started, sent, settled>>

FetchData ==
  /\ Begin("data")
  /\ Call("data", "idle")
  /\ UNCHANGED <<calls, sent, settled, credit>>

Step(p) ==
  \/ Sign(p) \/ Free(p) \/ Send(p) \/ Succeed(p) \/ RetryAfterLimit(p) \/ Fail(p)
  \/ p = "check" /\ LookAgain
  \/ p = "create" /\ PostCreate

Next ==
  \/ CheckBalance \/ Create \/ FetchData
  \/ \E p \in Proc : Step(p)
  \/ \E a \in sent : Settle(a)

Spec == Init /\ [][Next]_vars

\* A request is answered or times out.  The seller owes nothing.
Fairness == \A p \in Proc : WF_vars(Step(p))

FairSpec == Spec /\ Fairness

-----------------------------------------------------------------------------
Auth == [by : Proc \cup {"none"}, call : Nat, sign : 0..1]

Place == {"idle", "ask", "pay", "paid", "payAgain", "paidAgain", "post", "look"}

TypeOK ==
  /\ proc \in [Proc -> [pc : Place, next : {"idle", "look", "post"}, auth : Auth]]
  /\ calls \in Nat /\ started \in Nat
  /\ sent \subseteq Auth /\ settled \subseteq sent
  /\ credit \in Nat \cup {NoAccount}

\* No call costs more than one payment, also when an answer is lost, or the
\* seller settles a payment it has refused for coming too often.
OnePaymentPerCall ==
  \A a, b \in settled : a.call = b.call => a = b

\* createVm calls itself after every top-up, without a limit.  It ends all
\* the same: a top-up that fails ends it, and the others add up.
CreationEnds == proc["create"] # Idle ~> proc["create"] = Idle
=============================================================================
