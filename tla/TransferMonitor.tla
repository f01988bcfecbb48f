--------------------------- MODULE TransferMonitor ---------------------------
(***************************************************************************)
(* The monitor of USDC transfers to the agent's wallet: a poll every ten   *)
(* seconds asks for the chain's head, then for the transfers since the     *)
(* last block it remembers, and hands them one by one to the fund.         *)
(*                                                                         *)
(* Every request and every handler is awaited, and the next poll does not  *)
(* wait for the one before it: polls overlap, and the one that ends last   *)
(* sets the last block.  A set of the transactions handled keeps two polls *)
(* from handling the same one; it is trimmed, and lost with the process.   *)
(*                                                                         *)
(* A block holds one transfer or none.  The node is external: it may fail, *)
(* and otherwise tells the truth.  MaxBlock, MaxFail and MaxRestart are    *)
(* bounds of the model.                                                    *)
(***************************************************************************)
EXTENDS Naturals, Sequences, SequencesExt

CONSTANTS
  Slot,          \* polls that may be under way at a time
  MaxProcessed,  \* 1000
  Kept,          \* 500
  MaxBlock, MaxFail, MaxRestart

MonitorAssumption ==
  /\ MaxProcessed \in Nat /\ Kept \in 0..MaxProcessed
  /\ MaxBlock \in Nat /\ MaxFail \in Nat /\ MaxRestart \in Nat

VARIABLES
  chain,      \* for each block, whether it has a transfer to the agent
  poll,       \* what each poll does: its head, and the transfers to go
  lastBlock,
  processed,  \* processedTxs, in the order of insertion
  handled,    \* how often this process has handed over the transfer of a block
  from,       \* the head this process started at
  crossed,    \* the set was trimmed while polls overlapped
  fails, restarts

vars == <<chain, poll, lastBlock, processed, handled, from, crossed, fails, restarts>>

Idle  == [pc |-> "idle", head |-> 0, todo |-> {}]

Init ==
  /\ chain = <<>> /\ lastBlock = 0 /\ processed = <<>>
  /\ poll = [s \in Slot |-> Idle]
  /\ handled = [b \in 1..MaxBlock |-> 0]
  /\ from = 0 /\ crossed = FALSE /\ fails = 0 /\ restarts = 0

Block(transfer) ==
  /\ Len(chain) < MaxBlock
  /\ chain' = Append(chain, transfer)
  /\ UNCHANGED <<poll, lastBlock, processed, handled, from, crossed, fails, restarts>>

-----------------------------------------------------------------------------
\* The interval timer starts a poll: the head is asked for.
StartPoll(s) ==
  /\ poll[s] = Idle
  /\ Len(chain) > lastBlock
  /\ poll' = [poll EXCEPT ![s] = [pc |-> "logs", head |-> Len(chain), todo |-> {}]]
  /\ UNCHANGED <<chain, lastBlock, processed, handled, from, crossed, fails, restarts>>

\* The transfers from the last block, as it is now, to that head.
GetLogs(s) ==
  /\ poll[s].pc = "logs"
  /\ poll' = [poll EXCEPT
       ![s].pc = "handling",
       ![s].todo = {b \in (lastBlock + 1)..poll[s].head : chain[b]}]
  /\ UNCHANGED <<chain, lastBlock, processed, handled, from, crossed, fails, restarts>>

\* Mutant: the set is not asked.
AlwaysNew(b) == TRUE

IsNew(b) == ~Contains(processed, b)

\* One transfer, the earliest; the handler is awaited before the next.
HandleLog(s) ==
  \E b \in poll[s].todo :
    /\ poll[s].pc = "handling" /\ \A c \in poll[s].todo : b <= c
    /\ IF IsNew(b)
       THEN /\ processed' = Append(processed, b)
            /\ handled' = [handled EXCEPT ![b] = @ + 1]
       ELSE UNCHANGED <<processed, handled>>
    /\ poll' = [poll EXCEPT ![s].todo = @ \ {b}]
    /\ UNCHANGED <<chain, lastBlock, from, crossed, fails, restarts>>

\* Mutant: the last block is the head of the moment the poll ends.
BlockNow(s) == Len(chain)

BlockSeen(s) == poll[s].head

\* The poll is over: its head becomes the last block, and the set is trimmed.
EndPoll(s) ==
  LET n == Len(processed)
      trim == n > MaxProcessed
  IN  /\ poll[s].pc = "handling" /\ poll[s].todo = {}
      /\ lastBlock' = BlockSeen(s)
      /\ processed' = IF trim THEN SubSeq(processed, n - Kept + 1, n) ELSE processed
      /\ crossed' = (crossed \/ (trim /\ \E q \in Slot \ {s} : poll[q] # Idle))
      /\ poll' = [poll EXCEPT ![s] = Idle]
      /\ UNCHANGED <<chain, handled, from, fails, restarts>>

\* A request to the node fails: the poll ends, the last block stays.
FailPoll(s) ==
  /\ poll[s].pc = "logs"
  /\ fails < MaxFail /\ fails' = fails + 1
  /\ poll' = [poll EXCEPT ![s] = Idle]
  /\ UNCHANGED <<chain, lastBlock, processed, handled, from, crossed, restarts>>

\* The process starts again, at the head, or from the first block when the
\* head cannot be read.
Restart ==
  /\ restarts < MaxRestart /\ restarts' = restarts + 1
  /\ lastBlock' \in {Len(chain), 0}
  /\ from' = lastBlock'
  /\ processed' = <<>> /\ poll' = [s \in Slot |-> Idle]
  /\ handled' = [b \in 1..MaxBlock |-> 0] /\ crossed' = FALSE
  /\ UNCHANGED <<chain, fails>>

Poll(s) == StartPoll(s) \/ GetLogs(s) \/ HandleLog(s) \/ EndPoll(s)

Next ==
  \/ \E transfer \in BOOLEAN : Block(transfer)
  \/ \E s \in Slot : Poll(s) \/ FailPoll(s)
  \/ Restart

Spec == Init /\ [][Next]_vars

\* The interval timer starts polls, and requests are answered or time out.
Fairness == \A s \in Slot : WF_vars(Poll(s))

FairSpec == Spec /\ Fairness

-----------------------------------------------------------------------------
\* A running process hands a transfer to the fund once, however its polls
\* overlap, unless the set was trimmed while they did.
HandledOnce ==
  \A b \in 1..MaxBlock : handled[b] > 1 => crossed

\* A transfer that is mined while the agent runs reaches the fund, or the
\* agent starts again.
EveryTransferHandled ==
  \A b \in 1..MaxBlock, r \in 0..MaxRestart :
    (b \in DOMAIN chain /\ chain[b] /\ b > from /\ restarts = r)
      ~> (handled[b] > 0 \/ restarts # r)
=============================================================================
