------------------------------- MODULE MCAgent -------------------------------
(***************************************************************************)
(* Small instances of the agent's services that share no state: auctions,  *)
(* payments, the transfer monitor, the posts and the reading of challenges. *)
(* A behaviour chooses one of them at the start and is a behaviour of that *)
(* one; the variables of the others stay where they begin, in a state in   *)
(* which their fairness asks for nothing.                                  *)
(***************************************************************************)
EXTENDS Auction, TLC

CONSTANTS
  Part,                                                      \* the services to run
  Balance, VmCost, NoAccount, MaxStart, MaxCredit,           \* Payments
  Slot, MaxProcessed, Kept, MaxBlock, MaxFail, MaxRestart,   \* TransferMonitor
  Trigger, Window, Alarm, Survival, Alarming,                \* Posting
  Numbers, Second, Operation                                 \* Verification

VARIABLES
  part,
  proc, calls, started, sent, settled, credit,
  chain, poll, lastBlock, processed, handled, from, crossed, fails, restarts,
  last, posted, event, verified, survival, announced, unclaimed,
  asked, words, answer

Pay     == INSTANCE Payments
Monitor == INSTANCE TransferMonitor
Posts   == INSTANCE Posting
Reading == INSTANCE Verification

ASSUME InstanceAssumption ==
  /\ Pay!PaymentsAssumption /\ Monitor!MonitorAssumption
  /\ Posts!PostingAssumption /\ Reading!VerificationAssumption

-----------------------------------------------------------------------------
Triggers == {<<"x", "survival_state_change">>, <<"x", "daily_survival">>,
             <<"moltbook", "market_update">>}
Windows  == [t \in Triggers |-> IF t[1] = "moltbook" THEN 1
                                ELSE IF t[2] = "daily_survival" THEN 3 ELSE 2]
Alarms   == {<<"x", "daily_survival">>}
BelowThousand == {n \in 0..999 : n % 100 \in (0..15) \cup {23, 30, 48, 99}}

payVars     == <<proc, calls, started, sent, settled, credit>>
monitorVars == <<chain, poll, lastBlock, processed, handled, from, crossed, fails, restarts>>
postVars    == <<last, posted, event, verified, survival, announced, unclaimed>>
readVars    == <<asked, words, answer>>

agentVars == <<part, vars, payVars, monitorVars, postVars, readVars>>

AgentInit ==
  /\ part \in Part
  /\ IF part = "auctions" THEN Init
     ELSE auctions = NoAuctions /\ drawn = 0 /\ writer = [w \in Writer |-> Idle]
          /\ now = MaxTime
  /\ Pay!Init /\ (part # "payments" => credit = 0)
  /\ Monitor!Init
  /\ Posts!Init /\ (part # "posts" => ~verified /\ survival \in Alarming)
  /\ IF part = "reading" THEN Reading!Init
     ELSE asked = <<>> /\ words = <<>> /\ answer = <<>>

AgentNext ==
  \/ /\ part = "auctions" /\ Next
     /\ UNCHANGED <<part, payVars, monitorVars, postVars, readVars>>
  \/ /\ part = "payments" /\ Pay!Next
     /\ UNCHANGED <<part, vars, monitorVars, postVars, readVars>>
  \/ /\ part = "transfers" /\ Monitor!Next
     /\ UNCHANGED <<part, vars, payVars, postVars, readVars>>
  \/ /\ part = "posts" /\ Posts!Next
     /\ UNCHANGED <<part, vars, payVars, monitorVars, readVars>>
  \/ /\ part = "reading" /\ Reading!Next
     /\ UNCHANGED <<part, vars, payVars, monitorVars, postVars>>

AgentSpec == AgentInit /\ [][AgentNext]_agentVars

AgentFairSpec == AgentSpec /\ Fairness /\ Pay!Fairness /\ Monitor!Fairness

-----------------------------------------------------------------------------
\* Payments: no call costs more than one payment, also when an answer is
\* lost or a payment that was refused is settled.
OnePaymentPerCall == Pay!OnePaymentPerCall

\* Payments: createVm, which calls itself after every top-up, ends.
CreationEnds == Pay!CreationEnds

\* TransferMonitor: polls that overlap hand a transfer over once, unless the
\* set of handled ones was trimmed meanwhile.
HandledOnce == Monitor!HandledOnce

\* TransferMonitor: a transfer that is mined while the agent runs reaches the
\* fund.
EveryTransferHandled == Monitor!EveryTransferHandled

\* Posting: a post is repeated within the window only when events overlap, an
\* answer is lost or the process restarts.
RepeatOnlyOverlapping == Posts!RepeatOnlyOverlapping

\* Posting: an agent that was not verified before never posts on Moltbook.
UnclaimedNeverPosts == Posts!UnclaimedNeverPosts

\* Verification: numbers below a thousand are read as they were meant, if no
\* stretched word has a double letter.
ReadsNumbersBelowThousand == Reading!ReadsNumbersBelowThousand
=============================================================================
