---------------------------- MODULE ProtocolProofs ----------------------------
(***************************************************************************)
(* Proofs about Replication, Heartbeat and Fleet, in this order, and about *)
(* the instance MCProtocol that the run checks.  The three share no state; *)
(* names of the last two carry the prefixes Heart! and Fleet! of their     *)
(* instances.                                                              *)
(***************************************************************************)
EXTENDS MCProtocol, TLAPS

-----------------------------------------------------------------------------
(***************************************************************************)
(* Replication: types, and that the numbers of snapshots order their       *)
(* contents.                                                               *)
(*                                                                         *)
(* The contents and the number are taken in one go, before the signer is   *)
(* asked, and both only grow. So no snapshot in the system has a higher    *)
(* number, or newer contents, than the primary's database: the invariant   *)
(* adds this bound, which a new snapshot is compared with.                 *)
(***************************************************************************)

Bounded == \A x \in Snapshots : x.number <= number /\ x.version <= version

IInv == TypeOK /\ Bounded /\ NumbersOrderContents

Pushing == [pc : {"idle", "signing", "sending", "waiting"},
            snapshot : Snapshot, todo : SUBSET Guardian]

-----------------------------------------------------------------------------
\* A slot that is free is a push.
LEMMA IdleIsPush == Idle \in Pushing
BY ReplicationAssumption DEF Idle, First, Snapshot, Pushing, Key

\* What is pushed, on its way or stored is a snapshot.
LEMMA SnapshotsTyped == ASSUME TypeOK PROVE Snapshots \subseteq Snapshot
BY DEF TypeOK, Snapshots

\* The fields of a snapshot.
LEMMA SnapshotFields ==
  ASSUME NEW x \in Snapshot
  PROVE  x.number \in Nat /\ x.version \in Nat /\ x.number <= MaxNumber
BY ReplicationAssumption DEF Snapshot

\* A step that makes no snapshot keeps the invariant if the types stay.
LEMMA NothingMade ==
  ASSUME IInv, TypeOK', Snapshots' \subseteq Snapshots, number' = number,
         version' >= version
  PROVE  IInv'
<1>1. version \in Nat /\ version' \in Nat
  BY ReplicationAssumption DEF IInv, TypeOK
<1>2. \A x \in Snapshots : x.version \in Nat
  BY SnapshotsTyped, SnapshotFields DEF IInv
<1>3. Bounded'
  BY <1>1, <1>2 DEF IInv, Bounded
<1> QED BY <1>3 DEF IInv, NumbersOrderContents

\* A push goes on with the snapshot it has, or ends.
LEMMA PushGoesOn ==
  ASSUME IInv, NEW s \in Slot, NEW r \in Pushing, push' = [push EXCEPT ![s] = r],
         push[s] # Idle, r # Idle => r.snapshot = push[s].snapshot,
         UNCHANGED <<version, number, key, guardian>>, losses' \in 0..MaxLoss,
         inbox' \in [Guardian -> SUBSET Snapshot],
         \A g \in Guardian : inbox'[g] \subseteq inbox[g] \cup {push[s].snapshot}
  PROVE  IInv'
<1>1. TypeOK'
  BY DEF IInv, TypeOK, Pushing, guardian
<1>2. \A q \in Slot : push'[q] = IF q = s THEN r ELSE push[q]
  BY DEF IInv, TypeOK
<1>3. Snapshots' \subseteq Snapshots
  BY <1>2 DEF Snapshots, guardian
<1>4. version' >= version
  BY ReplicationAssumption DEF IInv, TypeOK
<1> QED BY <1>1, <1>3, <1>4, NothingMade

\* A guardian's requests and files change.
LEMMA ReceiptsChange ==
  ASSUME IInv, UNCHANGED <<version, number, key, push, limit>>, losses' \in 0..MaxLoss,
         inbox' \in [Guardian -> SUBSET Snapshot], answer' \in [Guardian -> SUBSET Snapshot],
         applying' \in [Guardian -> SUBSET Snapshot],
         held' \in [Guardian -> Key \cup {"none", "over"}], crossed' \subseteq Guardian,
         replica' \in [Guardian -> 0..MaxVersion \cup {Torn}],
         \A g \in Guardian :
           inbox'[g] \cup answer'[g] \cup applying'[g]
             \subseteq inbox[g] \cup answer[g] \cup applying[g]
  PROVE  IInv'
<1>1. TypeOK'
  BY DEF IInv, TypeOK
<1>2. Snapshots' \subseteq Snapshots
  BY DEF Snapshots
<1>3. version' >= version
  BY ReplicationAssumption DEF IInv, TypeOK
<1> QED BY <1>1, <1>2, <1>3, NothingMade

-----------------------------------------------------------------------------
\* There is no snapshot at the start.
LEMMA InitInv == Init => IInv
<1> SUFFICES ASSUME Init PROVE IInv
  OBVIOUS
<1>1. TypeOK
  <2>1. push \in [Slot -> Pushing]
    BY IdleIsPush DEF Init
  <2>2. 0 \in 0..MaxVersion /\ 0 \in 0..MaxNumber /\ 0 \in 0..MaxLoss
    BY ReplicationAssumption
  <2>3. inbox \in [Guardian -> SUBSET Snapshot] /\ applying \in [Guardian -> SUBSET Snapshot]
        /\ answer \in [Guardian -> SUBSET Snapshot]
    BY DEF Init
  <2> QED BY <2>1, <2>2, <2>3 DEF Init, TypeOK, Pushing, Key
<1>2. Snapshots = {}
  BY DEF Init, Snapshots
<1> QED BY <1>1, <1>2 DEF IInv, Bounded, NumbersOrderContents

\* A write makes the contents newer, and no snapshot.
LEMMA WriteInv == ASSUME IInv, Write PROVE IInv'
<1>1. TypeOK' /\ version' >= version /\ number' = number
  BY ReplicationAssumption DEF Write, IInv, TypeOK, guardian
<1>2. Snapshots' = Snapshots
  BY DEF Write, Snapshots, guardian
<1> QED BY <1>1, <1>2, NothingMade

\* A rotation of the key makes no snapshot.
LEMMA RotateInv == ASSUME IInv, Rotate PROVE IInv'
<1>1. TypeOK' /\ version' >= version /\ number' = number
  BY ReplicationAssumption DEF Rotate, IInv, TypeOK, guardian, Key
<1>2. Snapshots' = Snapshots
  BY DEF Rotate, Snapshots, guardian
<1> QED BY <1>1, <1>2, NothingMade

\* The number and the contents of a new snapshot.
LEMMA NewSnapshot ==
  ASSUME IInv
  PROVE  /\ NextNumber \in 1..MaxNumber /\ NextNumber >= number
         /\ Serialized \in Snapshot /\ Serialized.number = NextNumber
         /\ Serialized.version = version
         /\ number < MaxNumber => NextNumber > number
         /\ NextNumber < MaxNumber => number < MaxNumber
<1>1. /\ number \in 0..MaxNumber /\ version \in 0..MaxVersion /\ key \in Key
      /\ MaxNumber \in Nat \ {0} /\ MaxVersion \in Nat
  BY ReplicationAssumption DEF IInv, TypeOK
<1>2. /\ NextNumber \in 1..MaxNumber /\ NextNumber >= number
      /\ number < MaxNumber => NextNumber > number
      /\ NextNumber < MaxNumber => number < MaxNumber
  BY <1>1 DEF NextNumber
<1> QED BY <1>1, <1>2 DEF Serialized, Snapshot

\* It has the highest number, and contents no other surpasses.
LEMMA SnapshotMade ==
  ASSUME IInv, TypeOK', number' = NextNumber, version' = version,
         Snapshots' \subseteq Snapshots \cup {Serialized}
  PROVE  IInv'
<1>1. /\ number \in 0..MaxNumber /\ version \in 0..MaxVersion
      /\ MaxNumber \in Nat \ {0} /\ MaxVersion \in Nat
  BY ReplicationAssumption DEF IInv, TypeOK
<1>2. \A x \in Snapshots : /\ x.number \in Nat /\ x.version \in Nat
                           /\ x.number <= number /\ x.version <= version
  BY SnapshotsTyped, SnapshotFields DEF IInv, Bounded
<1>3. /\ NextNumber \in 1..MaxNumber /\ NextNumber >= number
      /\ Serialized.number = NextNumber /\ Serialized.version = version
      /\ number < MaxNumber => NextNumber > number
      /\ NextNumber < MaxNumber => number < MaxNumber
  BY NewSnapshot
<1>4. Bounded'
  BY <1>1, <1>2, <1>3 DEF Bounded
<1>5. NumbersOrderContents'
  <2> SUFFICES ASSUME NEW x \in Snapshots', NEW y \in Snapshots'
               PROVE  /\ x.number < y.number => x.version <= y.version
                      /\ x.number = y.number /\ x.number < MaxNumber => x = y
    BY DEF NumbersOrderContents
  <2>1. CASE x \in Snapshots /\ y \in Snapshots
    BY <2>1 DEF IInv, NumbersOrderContents
  <2>2. CASE x \in Snapshots /\ y = Serialized
    BY <1>1, <1>2, <1>3, <2>2
  <2>3. CASE x = Serialized /\ y \in Snapshots
    BY <1>1, <1>2, <1>3, <2>3
  <2>4. CASE x = Serialized /\ y = Serialized
    BY <1>1, <1>3, <2>4
  <2> QED BY <2>1, <2>2, <2>3, <2>4
<1> QED BY <1>4, <1>5 DEF IInv

\* The timer makes one.
LEMMA CreateInv == ASSUME IInv, NEW s \in Slot, CreateSnapshot(s) PROVE IInv'
<1> DEFINE r == [pc |-> "signing", snapshot |-> Serialized, todo |-> Guardian]
<1>1. /\ number' = NextNumber /\ push' = [push EXCEPT ![s] = r]
      /\ UNCHANGED <<version, key, inbox, losses, guardian>>
  BY DEF CreateSnapshot
<1>2. r \in Pushing /\ r.snapshot = Serialized /\ NextNumber \in 0..MaxNumber
  BY NewSnapshot, ReplicationAssumption DEF Pushing
<1> HIDE DEF r
<1>3. TypeOK'
  BY <1>1, <1>2 DEF IInv, TypeOK, Pushing, guardian
<1>4. \A q \in Slot : push'[q] = IF q = s THEN r ELSE push[q]
  BY <1>1 DEF IInv, TypeOK
<1>5. Snapshots' \subseteq Snapshots \cup {Serialized}
  BY <1>1, <1>2, <1>4 DEF Snapshots, guardian
<1> QED BY <1>1, <1>3, <1>5, SnapshotMade

\* An admission makes one.
LEMMA AdmitInv == ASSUME IInv, NEW g \in Guardian, Admit(g) PROVE IInv'
<1>1. /\ number' = NextNumber /\ answer' = [answer EXCEPT ![g] = {Serialized}]
      /\ UNCHANGED <<version, key, push, inbox, held, applying, replica, crossed, limit, losses>>
  BY DEF Admit
<1>2. TypeOK'
  <2>1. NextNumber \in 0..MaxNumber /\ Serialized \in Snapshot
    BY NewSnapshot, ReplicationAssumption
  <2> QED BY <1>1, <2>1 DEF IInv, TypeOK
<1>3. Snapshots' \subseteq Snapshots \cup {Serialized}
  <2>1. \A h \in Guardian : answer'[h] \subseteq answer[h] \cup {Serialized}
    BY <1>1 DEF IInv, TypeOK
  <2> QED BY <1>1, <2>1 DEF Snapshots
<1> QED BY <1>1, <1>2, <1>3, SnapshotMade

\* The push's own steps.
LEMMA PushInv ==
  ASSUME IInv, NEW s \in Slot, Signed(s) \/ Answered(s) \/ TimesOut(s) \/ EndPush(s)
  PROVE  IInv'
<1>1. push[s] \in Pushing /\ inbox \in [Guardian -> SUBSET Snapshot] /\ losses \in 0..MaxLoss
      /\ push \in [Slot -> Pushing]
  BY DEF IInv, TypeOK, Pushing
<1>2. push[s] # Idle
  BY DEF Signed, Answered, TimesOut, EndPush, Idle
<1>3. CASE EndPush(s)
  BY <1>1, <1>2, <1>3, IdleIsPush, PushGoesOn DEF EndPush
<1>4. CASE Signed(s) \/ Answered(s) \/ TimesOut(s)
  <2> DEFINE r == [push[s] EXCEPT !.pc = "sending"]
  <2>1. push' = [push EXCEPT ![s] = r]
    BY <1>1, <1>4 DEF Signed, Answered, TimesOut
  <2>2. r \in Pushing /\ r.snapshot = push[s].snapshot
    BY <1>1 DEF Pushing
  <2>3. UNCHANGED <<version, number, key, inbox, guardian>>
    BY <1>4 DEF Signed, Answered, TimesOut
  <2>4. losses' \in 0..MaxLoss
    BY <1>1, <1>4, ReplicationAssumption DEF Signed, Answered, TimesOut
  <2> HIDE DEF r
  <2> QED BY <1>1, <1>2, <2>1, <2>2, <2>3, <2>4, PushGoesOn
<1> QED BY <1>3, <1>4

\* A push goes out to one guardian.
LEMMA SendInv ==
  ASSUME IInv, NEW s \in Slot, NEW g \in Guardian, Send(s, g)
  PROVE  IInv'
<1> DEFINE r == [push[s] EXCEPT !.pc = "waiting", !.todo = @ \ {g}]
<1>1. push[s] \in Pushing /\ inbox \in [Guardian -> SUBSET Snapshot] /\ losses \in 0..MaxLoss
      /\ push \in [Slot -> Pushing] /\ push[s].snapshot \in Snapshot
  BY DEF IInv, TypeOK, Pushing
<1>2. push[s] # Idle
  BY DEF Send, Idle
<1>3. push' = [push EXCEPT ![s] = r]
  BY <1>1 DEF Send, Pushing
<1>4. r \in Pushing /\ r.snapshot = push[s].snapshot
  BY <1>1 DEF Pushing
<1>5. inbox' = [inbox EXCEPT ![g] = @ \cup {push[s].snapshot}]
      /\ UNCHANGED <<version, number, key, guardian, losses>>
  BY DEF Send
<1>6. inbox' \in [Guardian -> SUBSET Snapshot]
      /\ \A h \in Guardian : inbox'[h] \subseteq inbox[h] \cup {push[s].snapshot}
  BY <1>1, <1>5
<1> HIDE DEF r
<1> QED BY <1>1, <1>2, <1>3, <1>4, <1>5, <1>6, PushGoesOn

\* A guardian is admitted, applies a snapshot or starts again, or a request is
\* lost.
LEMMA ReceiptInv ==
  ASSUME IInv, NEW g \in Guardian, NEW x,
         \/ ApplySnapshot(g, x) \/ Written(g, x) \/ Admitted(g, x) \/ Lose(g, x)
         \/ AnswerLost(g) \/ Restart(g)
  PROVE  IInv'
<1>1. /\ inbox \in [Guardian -> SUBSET Snapshot] /\ applying \in [Guardian -> SUBSET Snapshot]
      /\ answer \in [Guardian -> SUBSET Snapshot] /\ crossed \subseteq Guardian
      /\ held \in [Guardian -> Key \cup {"none", "over"}]
      /\ replica \in [Guardian -> 0..MaxVersion \cup {Torn}] /\ losses \in 0..MaxLoss
      /\ MaxLoss \in Nat
  BY ReplicationAssumption DEF IInv, TypeOK
<1>2. CASE ApplySnapshot(g, x)
  <2>1. /\ UNCHANGED <<version, number, key, push, answer, held, replica, limit, losses>>
        /\ x \in inbox[g] /\ inbox' = [inbox EXCEPT ![g] = @ \ {x}]
        /\ applying' \in {applying, [applying EXCEPT ![g] = @ \cup {x}]}
        /\ crossed' \in {crossed, crossed \cup {g}}
    BY <1>2 DEF ApplySnapshot
  <2> QED BY <1>1, <2>1, ReceiptsChange
<1>3. CASE Written(g, x)
  <2>1. /\ UNCHANGED <<version, number, key, push, inbox, answer, held, crossed, limit, losses>>
        /\ x \in applying[g] /\ applying' = [applying EXCEPT ![g] = @ \ {x}]
        /\ replica' \in {[replica EXCEPT ![g] = x.version], [replica EXCEPT ![g] = Torn]}
    BY <1>3 DEF Written
  <2>2. x.version \in 0..MaxVersion
    BY <1>1, <2>1 DEF Snapshot
  <2>3. replica' \in [Guardian -> 0..MaxVersion \cup {Torn}]
    BY <1>1, <2>1, <2>2
  <2> QED BY <1>1, <2>1, <2>3, ReceiptsChange
<1>4. CASE Admitted(g, x)
  <2>1. /\ UNCHANGED <<version, number, key, push, inbox, replica, crossed, limit, losses>>
        /\ x \in answer[g] /\ answer' = [answer EXCEPT ![g] = {}]
        /\ applying' \in {applying, [applying EXCEPT ![g] = {x}]}
        /\ held' \in {[held EXCEPT ![g] = x.key], [held EXCEPT ![g] = "over"]}
    BY <1>4 DEF Admitted
  <2>2. x.key \in Key
    BY <1>1, <2>1 DEF Snapshot
  <2>3. held' \in [Guardian -> Key \cup {"none", "over"}]
    BY <1>1, <2>1, <2>2
  <2> QED BY <1>1, <2>1, <2>3, ReceiptsChange
<1>5. CASE Lose(g, x)
  <2>1. /\ UNCHANGED <<version, number, key, push, guardian>> /\ losses' \in 0..MaxLoss
        /\ inbox' = [inbox EXCEPT ![g] = @ \ {x}]
    BY <1>1, <1>5 DEF Lose
  <2> QED BY <1>1, <2>1, ReceiptsChange DEF guardian
<1>6. CASE AnswerLost(g)
  <2>1. /\ UNCHANGED <<version, number, key, push, inbox, applying, replica, crossed, limit,
                       losses>>
        /\ answer' = [answer EXCEPT ![g] = {}]
        /\ held' \in {held, [held EXCEPT ![g] = "over"]}
    BY <1>6 DEF AnswerLost
  <2> QED BY <1>1, <2>1, ReceiptsChange
<1>7. CASE Restart(g)
  <2>1. /\ UNCHANGED <<version, number, key, push, limit>> /\ losses' \in 0..MaxLoss
        /\ inbox' = [inbox EXCEPT ![g] = {}] /\ answer' = [answer EXCEPT ![g] = {}]
        /\ applying' = [applying EXCEPT ![g] = {}] /\ crossed' = crossed \ {g}
        /\ held' = [held EXCEPT ![g] = "none"]
    BY <1>1, <1>7 DEF Restart
  <2>2. replica' \in [Guardian -> 0..MaxVersion \cup {Torn}]
    <3>1. \A y \in applying[g] : y.version \in 0..MaxVersion
      BY <1>1 DEF Snapshot
    <3> QED BY <1>1, <1>7, <3>1 DEF Restart
  <2> QED BY <1>1, <2>1, <2>2, ReceiptsChange
<1> QED BY <1>2, <1>3, <1>4, <1>5, <1>6, <1>7

\* The invariant is kept.
LEMMA StepInv == IInv /\ [Next]_vars => IInv'
<1> SUFFICES ASSUME IInv, [Next]_vars PROVE IInv'
  OBVIOUS
<1>1. CASE Write
  BY <1>1, WriteInv
<1>2. CASE Rotate
  BY <1>2, RotateInv
<1>3. ASSUME NEW s \in Slot, Pushes(s) \/ TimesOut(s) PROVE IInv'
  <2>1. CASE PeriodicPush(s)
    BY <2>1, CreateInv DEF PeriodicPush
  <2>2. CASE Signed(s) \/ Answered(s) \/ TimesOut(s) \/ EndPush(s)
    BY <2>2, PushInv
  <2>3. CASE \E g \in Guardian : Send(s, g)
    BY <2>3, SendInv
  <2> QED BY <1>3, <2>1, <2>2, <2>3 DEF Pushes
<1>4. ASSUME NEW g \in Guardian,
             \/ Receipts(g) \/ Admit(g) \/ AnswerLost(g) \/ Restart(g)
             \/ \E snapshot \in Snapshot : Lose(g, snapshot)
      PROVE  IInv'
  BY <1>4, ReceiptInv, AdmitInv DEF Receipts
<1>5. CASE UNCHANGED vars
  BY <1>5 DEF vars, guardian, IInv, TypeOK, Bounded, NumbersOrderContents, Snapshots
<1> QED BY <1>1, <1>2, <1>3, <1>4, <1>5 DEF Next

\* The invariant.
THEOREM Invariance == Spec => []IInv
BY InitInv, StepInv, PTL DEF Spec

\* The primary's database, its pushes and the copies keep their types.
THEOREM TypeCorrect == Spec => []TypeOK
<1>1. IInv => TypeOK
  BY DEF IInv
<1> QED BY <1>1, Invariance, PTL

\* Of two snapshots the one with the lower number has no newer contents, for
\* any number of guardians, pushes under way, losses and restarts.
THEOREM NumbersOrder == Spec => []NumbersOrderContents
<1>1. IInv => NumbersOrderContents
  BY DEF IInv
<1> QED BY <1>1, Invariance, PTL

-----------------------------------------------------------------------------
(***************************************************************************)
(* Heartbeat: types, and that a primary that is down is noticed in time.   *)
(*                                                                         *)
(* A ping is as old as the primary is down, nearly, or too old to count.   *)
(* So the last one that counted came early enough for the silence of a     *)
(* guardian to follow the time the primary is down: that is the part of    *)
(* the invariant the look at the clock rests on.                           *)
(***************************************************************************)

\* What is on the wire was sent before the primary stopped.
WireAges == down > 0 => \A p \in wire : p.age > MaxDrift \/ p.age + 1 >= down

\* Nobody was silent for much shorter than the primary is down.
SilenceFollows ==
  down > 0 => \A g \in Guardian :
    silence[g] # Heart!None => silence[g] > Threshold \/ silence[g] + MaxDrift + 1 >= down

HeartInv == Heart!TypeOK /\ WireAges /\ SilenceFollows /\ Heart!DetectedInTime

Primary == up \subseteq Backup /\ streak \in [Backup -> 0..2]
           /\ round \in [Round -> Heart!Rounding] /\ pinged \in BOOLEAN
           /\ stops \in Nat /\ restarts \in Nat

Guard == /\ down \in 0..Heart!Latest /\ wire \subseteq Heart!Ping
         /\ silence \in [Guardian -> 0..Heart!None]
         /\ looked \subseteq Guardian /\ tried \in [Guardian -> BOOLEAN]

-----------------------------------------------------------------------------
\* The types of the primary and those of the guardians.
LEMMA TypeParts == Heart!TypeOK <=> Primary /\ Guard
BY DEF Heart!TypeOK, Primary, Guard

\* A counter that stops.
LEMMA AtMostIs ==
  ASSUME NEW n \in Nat, NEW max \in Nat
  PROVE  Heart!AtMost(n, max) \in 0..max /\ (Heart!AtMost(n, max) = n \/ Heart!AtMost(n, max) = max)
         /\ Heart!AtMost(n, max) <= n
BY DEF Heart!AtMost

\* The counters have bounds.
LEMMA HeartBounds ==
  ASSUME Heart!HeartbeatAssumption
  PROVE  /\ Threshold \in Nat /\ MaxDrift \in Nat
         /\ Heart!None = Threshold + 2 /\ Heart!Latest = MaxDrift + Threshold + 2
BY DEF Heart!HeartbeatAssumption, Heart!None, Heart!Latest

\* The primary runs at the start, and nobody has heard it yet.
LEMMA HeartInit == ASSUME Heart!HeartbeatAssumption PROVE Heart!Init => HeartInv
<1> SUFFICES ASSUME Heart!Init PROVE HeartInv
  OBVIOUS
<1>1. Primary
  <2>1. round \in [Round -> Heart!Rounding]
    BY DEF Heart!Init, Heart!Rounding
  <2>2. stops \in Nat /\ restarts \in Nat /\ streak \in [Backup -> 0..2]
    BY DEF Heart!Init
  <2> QED BY <2>1, <2>2 DEF Heart!Init, Primary
<1>2. Guard /\ down = 0
  BY HeartBounds DEF Heart!Init, Guard
<1> QED BY <1>1, <1>2, TypeParts, HeartBounds DEF HeartInv, WireAges, SilenceFollows,
   Heart!DetectedInTime

-----------------------------------------------------------------------------
\* The primary and its backups.
LEMMA PrimaryTypes ==
  ASSUME Heart!HeartbeatAssumption, Heart!TypeOK, Heart!Next PROVE Primary'
<1> USE DEF Primary, Heart!TypeOK
<1>1. CASE Heart!Interval
  BY <1>1 DEF Heart!Interval
<1>2. ASSUME NEW r \in Round, Heart!PingAll(r) PROVE Primary'
  <2>1. Heart!Waiting \in Heart!Rounding
    BY DEF Heart!Waiting, Heart!Rounding
  <2> QED BY <1>2, <2>1 DEF Heart!PingAll
<1>3. ASSUME NEW r \in Round, Heart!EndRound(r) PROVE Primary'
  <2>2. ASSUME NEW b \in Backup PROVE Heart!Noted(b, round[r].result[b]) \in 0..2
    <3>1. streak[b] + 1 \in Nat
      OBVIOUS
    <3>2. Heart!AtMost(streak[b] + 1, 2) \in 0..2
      BY <3>1 DEF Heart!AtMost
    <3> QED BY <3>2 DEF Heart!Noted
  <2>3. Heart!Idle \in Heart!Rounding
    BY DEF Heart!Rounding
  <2> QED BY <1>3, <2>2, <2>3 DEF Heart!EndRound
<1>4. ASSUME NEW g \in Guardian, Heart!Look(g) \/ Heart!GuardianRestarts(g) PROVE Primary'
  BY <1>4 DEF Heart!Look, Heart!GuardianRestarts, Heart!primary
<1>5. ASSUME NEW r \in Round, NEW b \in Backup, Heart!Answers(r, b) PROVE Primary'
  <2>1. PICK result \in {"ok", "failed"} : Heart!Answer(r, b, result)
    BY <1>5 DEF Heart!Answers
  <2> DEFINE x == [round[r] EXCEPT !.result[b] = result]
  <2>2. round[r] \in [pc : {"sent"}, result : [Backup -> {"none", "ok", "failed"}]]
    BY <2>1 DEF Heart!Answer, Heart!Rounding
  <2>3. x \in [pc : {"sent"}, result : [Backup -> {"none", "ok", "failed"}]]
    BY <2>2
  <2>4. round' = [round EXCEPT ![r] = x]
    BY <2>1 DEF Heart!Answer
  <2>5. x \in Heart!Rounding
    BY <2>3 DEF Heart!Rounding
  <2> HIDE DEF x
  <2>6. round' \in [Round -> Heart!Rounding]
    BY <2>4, <2>5
  <2> QED BY <2>1, <2>6 DEF Heart!Answer
<1>6. ASSUME NEW p \in wire, Heart!OnPingReceived(p) \/ Heart!Lose(p) PROVE Primary'
  BY <1>6 DEF Heart!OnPingReceived, Heart!Lose, Heart!primary
<1>7. ASSUME NEW b \in Backup, Heart!BackupStops(b) \/ Heart!BackupStarts(b) PROVE Primary'
  BY <1>7 DEF Heart!BackupStops, Heart!BackupStarts, Heart!primary
<1>8. CASE Heart!PrimaryStops
  <2>1. Heart!Idle \in Heart!Rounding
    BY DEF Heart!Rounding
  <2> QED BY <1>8, <2>1 DEF Heart!PrimaryStops
<1>9. CASE Heart!PrimaryStarts
  <2>1. restarts' \in Nat
    BY <1>9 DEF Heart!PrimaryStarts
  <2>2. pinged' \in BOOLEAN
    BY <1>9, Zenon DEF Heart!PrimaryStarts
  <2> QED BY <1>9, <2>1, <2>2 DEF Heart!PrimaryStarts
<1> QED BY <1>1, <1>2, <1>3, <1>4, <1>5, <1>6, <1>7, <1>8, <1>9 DEF Heart!Next, Heart!Rounds

-----------------------------------------------------------------------------
\* The guardians, the wire and the clock.  A step that changes none of them,
\* or restarts or stops the primary, or loses a ping:
Watching == Guard /\ WireAges /\ SilenceFollows /\ Heart!DetectedInTime

\* Such a step keeps what is known of the silences.
LEMMA NothingWatched ==
  ASSUME Heart!HeartbeatAssumption, Watching, wire' \subseteq wire, UNCHANGED Heart!guardian,
         down' \in {down, 0} \/ (down = 0 /\ down' = 1)
  PROVE  Watching'
<1>1. Guard'
  BY HeartBounds DEF Watching, Guard, Heart!guardian
<1>2. \A p \in wire : p.age \in Nat
  BY HeartBounds DEF Watching, Guard, Heart!Ping
<1>3. \A g \in Guardian : silence[g] \in Nat
  BY HeartBounds DEF Watching, Guard
<1>4. WireAges'
  BY <1>2, HeartBounds DEF Watching, WireAges
<1>5. SilenceFollows'
  BY <1>3, HeartBounds DEF Watching, SilenceFollows, Heart!guardian, Heart!None
<1>6. Heart!DetectedInTime'
  BY HeartBounds DEF Watching, Heart!DetectedInTime, Heart!guardian, Heart!None
<1> QED BY <1>1, <1>4, <1>5, <1>6 DEF Watching

\* An interval passes: pings and silences age together with the time the primary is down.
LEMMA IntervalWatched ==
  ASSUME Heart!HeartbeatAssumption, Watching, Heart!Interval PROVE Watching'
<1>1. /\ down' = IF down = 0 THEN 0 ELSE Heart!AtMost(down + 1, Heart!Latest)
      /\ wire' = {[p EXCEPT !.age = Heart!AtMost(p.age + 1, MaxDrift + 1)] : p \in wire}
      /\ silence' = [g \in Guardian |->
           IF silence[g] = Heart!None THEN Heart!None
           ELSE Heart!AtMost(silence[g] + 1, Threshold + 1)]
      /\ looked' = {} /\ tried' = tried
  BY DEF Heart!Interval
<1>2. down \in Nat /\ Heart!Latest \in Nat /\ MaxDrift + 1 \in Nat /\ Threshold + 1 \in Nat
  BY HeartBounds DEF Watching, Guard
<1>3. down' \in 0..Heart!Latest /\ (down' > 0 => down > 0 /\ down' <= down + 1)
  BY <1>1, <1>2, AtMostIs
<1>4. ASSUME NEW q \in wire'
      PROVE  q \in Heart!Ping /\ (down' > 0 => q.age > MaxDrift \/ q.age + 1 >= down')
  <2>1. PICK p \in wire : q = [p EXCEPT !.age = Heart!AtMost(p.age + 1, MaxDrift + 1)]
    BY <1>1
  <2>2. p \in Heart!Ping /\ p.age \in Nat /\ p.age <= MaxDrift + 1
    BY HeartBounds DEF Watching, Guard, Heart!Ping
  <2> DEFINE n == Heart!AtMost(p.age + 1, MaxDrift + 1)
  <2>3. n \in 0..(MaxDrift + 1) /\ (n = p.age + 1 \/ n = MaxDrift + 1)
    <3>1. p.age + 1 \in Nat
      BY <2>2
    <3> QED BY <1>2, <3>1 DEF Heart!AtMost
  <2>4. q \in Heart!Ping /\ q.age = n
    BY <2>1, <2>2, <2>3 DEF Heart!Ping
  <2>5. down > 0 => p.age > MaxDrift \/ p.age + 1 >= down
    BY DEF Watching, WireAges
  <2> HIDE DEF n
  <2> QED BY <1>2, <1>3, <2>2, <2>3, <2>4, <2>5, HeartBounds
<1>5. ASSUME NEW g \in Guardian
      PROVE  /\ silence'[g] \in 0..Heart!None
             /\ (down' > 0 /\ silence'[g] # Heart!None)
                  => silence'[g] > Threshold \/ silence'[g] + MaxDrift + 1 >= down'
  <2> DEFINE n == Heart!AtMost(silence[g] + 1, Threshold + 1)
  <2>1. silence[g] \in Nat /\ silence'[g] = IF silence[g] = Heart!None THEN Heart!None ELSE n
    BY <1>1, HeartBounds DEF Watching, Guard
  <2>2. n \in 0..(Threshold + 1) /\ (n = silence[g] + 1 \/ n = Threshold + 1)
    <3>1. silence[g] + 1 \in Nat
      BY <2>1
    <3> QED BY <1>2, <3>1 DEF Heart!AtMost
  <2>3. (down > 0 /\ silence[g] # Heart!None)
          => silence[g] > Threshold \/ silence[g] + MaxDrift + 1 >= down
    BY DEF Watching, SilenceFollows
  <2> HIDE DEF n
  <2> QED BY <1>2, <1>3, <2>1, <2>2, <2>3, HeartBounds
<1>6. silence' \in [Guardian -> 0..Heart!None]
  BY <1>1, <1>5
<1>7. Guard'
  BY <1>1, <1>3, <1>4, <1>6 DEF Watching, Guard, Heart!Latest, Heart!None, Heart!Ping
<1>8. WireAges' /\ SilenceFollows'
  BY <1>4, <1>5 DEF WireAges, SilenceFollows, Heart!None
<1>9. Heart!DetectedInTime'
  BY <1>1 DEF Heart!DetectedInTime
<1> QED BY <1>7, <1>8, <1>9 DEF Watching

\* New pings are sent while the primary runs.
LEMMA PingWatched ==
  ASSUME Heart!HeartbeatAssumption, Watching, NEW r \in Round, Heart!PingAll(r) PROVE Watching'
<1>1. down = 0 /\ UNCHANGED <<down, Heart!guardian>>
      /\ wire' = wire \cup {[to |-> g, age |-> 0, new |-> TRUE] : g \in Guardian}
  BY DEF Heart!PingAll
<1>2. \A g \in Guardian : [to |-> g, age |-> 0, new |-> TRUE] \in Heart!Ping
  BY HeartBounds DEF Heart!Ping
<1>3. Guard'
  BY <1>1, <1>2 DEF Watching, Guard, Heart!guardian, Heart!Latest, Heart!None, Heart!Ping
<1> QED BY <1>1, <1>3, HeartBounds DEF Watching, WireAges, SilenceFollows, Heart!DetectedInTime

\* A ping that counts was sent when the primary was up, or nearly: the silence
\* it ends was not yet due.
LEMMA ReceiptWatched ==
  ASSUME Heart!HeartbeatAssumption, Watching, NEW p \in wire, Heart!OnPingReceived(p)
  PROVE  Watching'
<1> DEFINE q == [p EXCEPT !.new = FALSE]
<1>1. wire' = (wire \ {p}) \cup {q} /\ UNCHANGED <<down, looked>>
  BY DEF Heart!OnPingReceived
<1>2. p \in Heart!Ping /\ p.to \in Guardian /\ p.age \in Nat
  BY HeartBounds DEF Watching, Guard, Heart!Ping
<1>3. q \in Heart!Ping /\ q.age = p.age
  BY <1>2 DEF Heart!Ping
<1> HIDE DEF q
<1>4. wire' \subseteq Heart!Ping
  BY <1>1, <1>3 DEF Watching, Guard
<1>5. WireAges'
  BY <1>1, <1>3 DEF Watching, WireAges
<1>6. CASE Heart!InTime(p)
  <2>1. silence' = [silence EXCEPT ![p.to] = 0] /\ tried' = [tried EXCEPT ![p.to] = FALSE]
    BY <1>6 DEF Heart!OnPingReceived
  <2>2. 0 \in 0..Heart!None
    BY HeartBounds
  <2>3. Guard'
    BY <1>1, <1>2, <1>4, <2>1, <2>2 DEF Watching, Guard, Heart!Latest, Heart!None, Heart!Ping
  <2>4. down \in Nat /\ down <= MaxDrift + 1
    BY <1>2, <1>6, HeartBounds DEF Watching, Guard, WireAges, Heart!InTime
  <2>5. \A g \in Guardian : silence'[g] \in Nat /\ (silence'[g] = 0 \/ silence'[g] = silence[g])
    BY <1>2, <2>1, HeartBounds DEF Watching, Guard
  <2>6. SilenceFollows'
    BY <1>1, <2>4, <2>5, HeartBounds DEF SilenceFollows, Heart!None
  <2>7. Heart!DetectedInTime'
    BY <1>1, <2>4, HeartBounds DEF Heart!DetectedInTime
  <2> QED BY <1>5, <2>3, <2>6, <2>7 DEF Watching
<1>7. CASE ~Heart!InTime(p)
  <2>1. UNCHANGED <<silence, tried>>
    BY <1>7 DEF Heart!OnPingReceived
  <2> QED BY <1>1, <1>4, <1>5, <2>1
          DEF Watching, Guard, Heart!Latest, Heart!None, SilenceFollows, Heart!DetectedInTime,
             Heart!Ping
<1> QED BY <1>6, <1>7

\* A look at the clock finds a silence as long as the primary is down, nearly.
LEMMA LookWatched ==
  ASSUME Heart!HeartbeatAssumption, Watching, NEW g \in Guardian, Heart!Look(g) PROVE Watching'
<1>1. /\ looked' = looked \cup {g} /\ UNCHANGED <<down, wire, silence>>
      /\ tried' = [tried EXCEPT ![g] = @ \/ Heart!LivenessFailure(g)]
  BY DEF Heart!Look
<1>2. tried' \in [Guardian -> BOOLEAN]
      /\ \A h \in Guardian : tried[h] => tried'[h]
  BY <1>1, Zenon DEF Watching, Guard
<1>3. tried'[g] = (tried[g] \/ Heart!LivenessFailure(g))
  BY <1>1, Zenon DEF Watching, Guard
<1>4. Guard'
  BY <1>1, <1>2 DEF Watching, Guard, Heart!Latest, Heart!None, Heart!Ping
<1>5. down \in Nat /\ silence[g] \in Nat
  BY HeartBounds DEF Watching, Guard
<1>6. (down > MaxDrift + Threshold + 1 /\ silence[g] # Heart!None) => Heart!LivenessFailure(g)
  BY <1>5, HeartBounds DEF Watching, SilenceFollows, Heart!LivenessFailure
<1>7. Heart!DetectedInTime'
  <2> SUFFICES ASSUME NEW h \in Guardian, down > MaxDrift + Threshold + 1,
                      h \in looked', silence[h] # Heart!None
               PROVE  tried'[h]
    BY <1>1 DEF Heart!DetectedInTime, Heart!None
  <2>1. CASE h = g
    BY <1>3, <1>6, <2>1
  <2>2. CASE h \in looked
    BY <1>2, <2>2 DEF Watching, Heart!DetectedInTime
  <2> QED BY <1>1, <2>1, <2>2
<1> QED BY <1>1, <1>4, <1>7 DEF Watching, WireAges, SilenceFollows, Heart!None

\* A guardian that restarts has heard nobody.
LEMMA RestartWatched ==
  ASSUME Heart!HeartbeatAssumption, Watching, NEW g \in Guardian, Heart!GuardianRestarts(g)
  PROVE  Watching'
<1>1. /\ silence' = [silence EXCEPT ![g] = Heart!None] /\ tried' = [tried EXCEPT ![g] = FALSE]
      /\ UNCHANGED <<down, wire, looked>>
  BY DEF Heart!GuardianRestarts
<1>2. Heart!None \in 0..Heart!None
  BY HeartBounds
<1>3. Guard'
  BY <1>1, <1>2 DEF Watching, Guard, Heart!Latest, Heart!None, Heart!Ping
<1>4. \A h \in Guardian :
        silence'[h] # Heart!None => silence'[h] = silence[h] /\ tried'[h] = tried[h]
  BY <1>1 DEF Watching, Guard
<1>5. SilenceFollows' /\ Heart!DetectedInTime'
  BY <1>1, <1>4 DEF Watching, SilenceFollows, Heart!DetectedInTime, Heart!None
<1> QED BY <1>1, <1>3, <1>5 DEF Watching, WireAges

\* Every step keeps what is known of the silences.
LEMMA WatchedStep ==
  ASSUME Heart!HeartbeatAssumption, Watching, Heart!Next PROVE Watching'
<1>1. CASE Heart!Interval
  BY <1>1, IntervalWatched
<1>2. ASSUME NEW r \in Round, Heart!PingAll(r) \/ Heart!EndRound(r) PROVE Watching'
  BY <1>2, PingWatched, NothingWatched DEF Heart!EndRound
<1>3. ASSUME NEW g \in Guardian, Heart!Look(g) \/ Heart!GuardianRestarts(g) PROVE Watching'
  BY <1>3, LookWatched, RestartWatched
<1>4. ASSUME NEW r \in Round, NEW b \in Backup, Heart!Answers(r, b) PROVE Watching'
  BY <1>4, NothingWatched DEF Heart!Answers, Heart!Answer
<1>5. ASSUME NEW p \in wire, Heart!OnPingReceived(p) \/ Heart!Lose(p) PROVE Watching'
  BY <1>5, ReceiptWatched, NothingWatched DEF Heart!Lose
<1>6. ASSUME NEW b \in Backup, Heart!BackupStops(b) \/ Heart!BackupStarts(b) PROVE Watching'
  BY <1>6, NothingWatched DEF Heart!BackupStops, Heart!BackupStarts
<1>7. CASE Heart!PrimaryStops
  BY <1>7, NothingWatched DEF Heart!PrimaryStops
<1>8. CASE Heart!PrimaryStarts
  BY <1>8, NothingWatched DEF Heart!PrimaryStarts
<1> QED BY <1>1, <1>2, <1>3, <1>4, <1>5, <1>6, <1>7, <1>8 DEF Heart!Next, Heart!Rounds

\* The invariant is kept.
LEMMA HeartStep ==
  ASSUME Heart!HeartbeatAssumption PROVE HeartInv /\ [Heart!Next]_(Heart!vars) => HeartInv'
<1> SUFFICES ASSUME HeartInv, [Heart!Next]_(Heart!vars) PROVE HeartInv'
  OBVIOUS
<1>1. Watching /\ Primary /\ Heart!TypeOK
  BY TypeParts DEF HeartInv, Watching
<1>2. CASE Heart!Next
  BY <1>1, <1>2, PrimaryTypes, WatchedStep DEF HeartInv, Watching, Heart!TypeOK, Primary, Guard
<1>3. CASE UNCHANGED Heart!vars
  BY <1>3 DEF Heart!vars, HeartInv, Heart!TypeOK, WireAges, SilenceFollows, Heart!DetectedInTime,
     Heart!Latest, Heart!None,
              Heart!Ping, Heart!Rounding, Heart!Idle
<1> QED BY <1>2, <1>3

\* The invariant.
THEOREM HeartInvariance == ASSUME Heart!HeartbeatAssumption PROVE Heart!Spec => []HeartInv
BY HeartInit, HeartStep, PTL DEF Heart!Spec

\* The rounds, the pings and the guardians' clocks keep their types.
THEOREM HeartTypes == ASSUME Heart!HeartbeatAssumption PROVE Heart!Spec => []Heart!TypeOK
<1>1. HeartInv => Heart!TypeOK
  BY DEF HeartInv
<1> QED BY <1>1, HeartInvariance, PTL

\* A guardian that has heard the primary initiates a succession in time, for
\* any threshold and drift, whatever the network delays, loses or repeats.
THEOREM Detection == ASSUME Heart!HeartbeatAssumption PROVE Heart!Spec => []Heart!DetectedInTime
<1>1. HeartInv => Heart!DetectedInTime
  BY DEF HeartInv
<1> QED BY <1>1, HeartInvariance, PTL

-----------------------------------------------------------------------------
(***************************************************************************)
(* Fleet: the manager takes guardians down only while three stay active.   *)
(*                                                                         *)
(* It counts once and then stops machines one by one, while others are     *)
(* admitted. The invariant says that what it has still to stop is its own  *)
(* and leaves three; admissions only add to that.                          *)
(***************************************************************************)

\* The counts, and the work of an evaluation.
Counts ==
  /\ own \in Nat /\ external \in 0..MaxExternal
  /\ work \in [pc : {"idle", "provision", "deprovision", "backups", "provisionBackup"},
               left : Nat]

LeavesThree ==
  work.pc = "deprovision" => work.left <= own /\ own + external >= work.left + 3

FleetInv == Counts /\ LeavesThree

-----------------------------------------------------------------------------
\* A stage of the evaluation.
LEMMA WorkTyped ==
  ASSUME NEW n \in Nat,
         NEW pc \in {"idle", "provision", "deprovision", "backups", "provisionBackup"}
  PROVE  [pc |-> pc, left |-> n] \in
           [pc : {"idle", "provision", "deprovision", "backups", "provisionBackup"}, left : Nat]
OBVIOUS

\* A step after which nothing is being taken down.
LEMMA NothingToStop ==
  ASSUME FleetInv, own' \in Nat, external' \in 0..MaxExternal,
         NEW n \in Nat, NEW pc \in {"idle", "provision", "backups", "provisionBackup"},
         work' = [pc |-> pc, left |-> n]
  PROVE  FleetInv'
BY DEF FleetInv, Counts, LeavesThree

\* A step that leaves the work alone, and at most adds guardians.
LEMMA WorkStays ==
  ASSUME Fleet!FleetAssumption, FleetInv, work' = work, own' = own,
         external' \in {external, external + 1}, external' \in 0..MaxExternal
  PROVE  FleetInv'
BY DEF FleetInv, Counts, LeavesThree, Fleet!FleetAssumption

\* Nothing is being taken down at the start.
LEMMA FleetInit == ASSUME Fleet!FleetAssumption PROVE Fleet!Init => FleetInv
BY DEF Fleet!Init, Fleet!Idle, FleetInv, Counts, LeavesThree, Fleet!FleetAssumption

\* The evaluation counts what it may take down: its own, down to three.
LEMMA EvaluateInv == ASSUME Fleet!FleetAssumption, FleetInv, Fleet!Evaluate PROVE FleetInv'
<1>1. own \in Nat /\ external \in Nat /\ own' = own /\ external' = external
      /\ external' \in 0..MaxExternal
  BY DEF Fleet!Evaluate, FleetInv, Counts, Fleet!FleetAssumption
<1>2. CASE Fleet!Total < 2 /\ (Fleet!At("backups", 0) \/ Fleet!At("provision", Fleet!Needed))
  <2>1. Fleet!Needed \in Nat
    BY <1>1, <1>2 DEF Fleet!Needed, Fleet!Total
  <2> QED BY <1>1, <1>2, <2>1, NothingToStop DEF Fleet!At
<1>3. CASE Fleet!Total >= 2 /\ Fleet!At("backups", 0)
  BY <1>1, <1>3, NothingToStop DEF Fleet!At
<1>4. CASE Fleet!Total > 3 /\ Fleet!At("deprovision", Fleet!Smaller(Fleet!Excess, own))
  <2>1. /\ Fleet!Smaller(Fleet!Excess, own) \in Nat /\ Fleet!Smaller(Fleet!Excess, own) <= own
        /\ own + external >= Fleet!Smaller(Fleet!Excess, own) + 3
    BY <1>1, <1>4 DEF Fleet!Smaller, Fleet!Excess, Fleet!Total
  <2> QED BY <1>1, <1>4, <2>1 DEF Fleet!At, FleetInv, Counts, LeavesThree
<1> QED BY <1>2, <1>3, <1>4 DEF Fleet!Evaluate

\* A stop that was counted leaves one less to stop.
LEMMA DeprovisionInv ==
  ASSUME Fleet!FleetAssumption, FleetInv, Fleet!DeprovisionGuardian PROVE FleetInv'
<1>1. /\ own \in Nat /\ external \in Nat /\ external' = external /\ external \in 0..MaxExternal
      /\ work.left \in Nat /\ work.left <= own /\ own + external >= work.left + 3
  BY DEF Fleet!DeprovisionGuardian, FleetInv, Counts, LeavesThree, Fleet!FleetAssumption
<1>2. CASE work.left > 0
  <2>1. own' = own - 1 /\ work' = [pc |-> "deprovision", left |-> work.left - 1]
    BY <1>2 DEF Fleet!DeprovisionGuardian, Fleet!At
  <2>2. own' \in Nat /\ work.left - 1 \in Nat
    BY <1>1, <1>2, <2>1
  <2> QED BY <1>1, <1>2, <2>1, <2>2 DEF FleetInv, Counts, LeavesThree
<1>3. CASE ~(work.left > 0)
  BY <1>1, <1>3, NothingToStop DEF Fleet!DeprovisionGuardian, Fleet!At
<1> QED BY <1>2, <1>3

\* The invariant is kept.
LEMMA FleetStep ==
  ASSUME Fleet!FleetAssumption PROVE FleetInv /\ [Fleet!Next]_(Fleet!vars) => FleetInv'
<1> SUFFICES ASSUME FleetInv, [Fleet!Next]_(Fleet!vars) PROVE FleetInv'
  OBVIOUS
<1>1. own \in Nat /\ own + 1 \in Nat /\ external \in 0..MaxExternal /\ MaxExternal \in Nat
      /\ work.left \in Nat
  BY DEF FleetInv, Counts, Fleet!FleetAssumption
<1>2. CASE Fleet!Evaluate
  BY <1>2, EvaluateInv
<1>3. CASE Fleet!ProvisionGuardian
  <2>1. work.left - 1 \in Nat
    BY <1>1, <1>3 DEF Fleet!ProvisionGuardian
  <2> QED BY <1>1, <1>3, <2>1, NothingToStop DEF Fleet!ProvisionGuardian, Fleet!At
<1>4. CASE Fleet!Provisioned
  BY <1>1, <1>4, NothingToStop DEF Fleet!Provisioned, Fleet!At
<1>5. CASE Fleet!DeprovisionGuardian
  BY <1>5, DeprovisionInv
<1>6. CASE Fleet!LookAtBackups
  <2>1. own' = own /\ external' = external
    BY <1>6 DEF Fleet!LookAtBackups, Fleet!guardians
  <2>2. work' = Fleet!Idle \/ Fleet!At("provisionBackup", 1)
    BY <1>6 DEF Fleet!LookAtBackups
  <2> QED BY <1>1, <2>1, <2>2, NothingToStop DEF Fleet!Idle, Fleet!At
<1>7. CASE Fleet!ProvisionBackup \/ Fleet!RequestFails
  BY <1>1, <1>7, NothingToStop DEF Fleet!ProvisionBackup, Fleet!RequestFails, Fleet!guardians,
     Fleet!Idle
<1>8. CASE Fleet!Ready \/ Fleet!Delay \/ Fleet!AdmitGuardian \/ Fleet!StableChanges
           \/ Fleet!BackupsChange
  BY <1>1, <1>8, WorkStays
     DEF Fleet!Ready, Fleet!Delay, Fleet!AdmitGuardian, Fleet!StableChanges, Fleet!BackupsChange,
        Fleet!guardians
<1>9. CASE UNCHANGED Fleet!vars
  BY <1>1, <1>9, WorkStays DEF Fleet!vars, Fleet!guardians
<1> QED BY <1>2, <1>3, <1>4, <1>5, <1>6, <1>7, <1>8, <1>9 DEF Fleet!Next, Fleet!Working

\* Only the stop of a machine lowers the count, and the invariant bounds it.
LEMMA StepKeepsThree ==
  ASSUME Fleet!FleetAssumption
  PROVE  FleetInv /\ [Fleet!Next]_(Fleet!vars)
           => [own' < own => own' + external >= 3]_(Fleet!vars)
<1> SUFFICES ASSUME FleetInv, Fleet!Next, own' < own PROVE own' + external >= 3
  OBVIOUS
<1>1. own \in Nat /\ external \in Nat /\ work.left \in Nat
  BY DEF FleetInv, Counts, Fleet!FleetAssumption
<1>2. own' = own \/ own' = own + 1 \/ Fleet!DeprovisionGuardian
  BY DEF Fleet!Next, Fleet!Working, Fleet!Evaluate, Fleet!ProvisionGuardian, Fleet!Provisioned,
     Fleet!LookAtBackups,
         Fleet!ProvisionBackup, Fleet!RequestFails, Fleet!Ready, Fleet!Delay,
         Fleet!AdmitGuardian, Fleet!StableChanges,
         Fleet!BackupsChange, Fleet!guardians
<1>3. Fleet!DeprovisionGuardian /\ work.left > 0 /\ own' = own - 1
  BY <1>1, <1>2 DEF Fleet!DeprovisionGuardian
<1>4. own + external >= work.left + 3
  BY <1>3 DEF Fleet!DeprovisionGuardian, FleetInv, LeavesThree
<1> QED BY <1>1, <1>3, <1>4

\* The manager takes a guardian down only when three stay active, for any
\* number of external guardians, however many are admitted meanwhile.
THEOREM KeepsThree == ASSUME Fleet!FleetAssumption PROVE Fleet!Spec => Fleet!DeprovisionKeepsThree
<1>1. Fleet!Spec => []FleetInv
  BY FleetInit, FleetStep, PTL DEF Fleet!Spec
<1> QED BY <1>1, StepKeepsThree, PTL DEF Fleet!Spec, Fleet!DeprovisionKeepsThree
-----------------------------------------------------------------------------
(***************************************************************************)
(* The instance that the run checks: one of the three services runs, with  *)
(* its invariant, and the others stay off.                                 *)
(***************************************************************************)
ProtocolInv ==
  /\ IF part = "replication" THEN IInv ELSE ReplicationOff
  /\ IF part = "heartbeat" THEN HeartInv ELSE HeartOff
  /\ IF part = "fleet" THEN FleetInv ELSE FleetOff

\* A service that is off stays off, and an invariant stutters.
LEMMA NothingMoves ==
  /\ UNCHANGED vars => (IInv => IInv') /\ (ReplicationOff => ReplicationOff')
  /\ UNCHANGED heartVars => (HeartInv => HeartInv') /\ (HeartOff => HeartOff')
  /\ UNCHANGED fleetVars => (FleetInv => FleetInv') /\ (FleetOff => FleetOff')
<1>1. UNCHANGED vars => (IInv => IInv') /\ (ReplicationOff => ReplicationOff')
  BY StepInv DEF vars, guardian, ReplicationOff, Idle
<1>2. UNCHANGED heartVars => (HeartInv => HeartInv') /\ (HeartOff => HeartOff')
  BY HeartStep, InstanceAssumption DEF heartVars, Heart!vars, HeartOff, Heart!Idle, Heart!None
<1>3. UNCHANGED fleetVars => (FleetInv => FleetInv') /\ (FleetOff => FleetOff')
  BY FleetStep, InstanceAssumption DEF fleetVars, Fleet!vars, Fleet!guardians, Fleet!standby,
     FleetOff
<1> QED
  BY <1>1, <1>2, <1>3

\* The chosen service starts with its invariant.
LEMMA ProtocolInitInv == ProtocolInit => ProtocolInv
BY InitInv, HeartInit, FleetInit, InstanceAssumption DEF ProtocolInit, ProtocolInv

\* A step is one of the chosen service.
LEMMA ProtocolStepInv == ProtocolInv /\ [ProtocolNext]_protocolVars => ProtocolInv'
<1> SUFFICES ASSUME ProtocolInv, [ProtocolNext]_protocolVars PROVE ProtocolInv'
  OBVIOUS
<1>1. CASE part = "replication" /\ Next /\ UNCHANGED <<part, heartVars, fleetVars>>
  <2>1. IInv'
    BY <1>1, StepInv DEF ProtocolInv
  <2> QED
    BY <1>1, <2>1, NothingMoves DEF ProtocolInv
<1>2. CASE part = "heartbeat" /\ Heart!Next /\ UNCHANGED <<part, vars, fleetVars>>
  <2>1. HeartInv'
    BY <1>2, HeartStep, InstanceAssumption DEF ProtocolInv
  <2> QED
    BY <1>2, <2>1, NothingMoves DEF ProtocolInv
<1>3. CASE part = "fleet" /\ Fleet!Next /\ UNCHANGED <<part, vars, heartVars>>
  <2>1. FleetInv'
    BY <1>3, FleetStep, InstanceAssumption DEF ProtocolInv
  <2> QED
    BY <1>3, <2>1, NothingMoves DEF ProtocolInv
<1>4. CASE UNCHANGED protocolVars
  BY <1>4, NothingMoves DEF protocolVars, ProtocolInv
<1> QED
  BY <1>1, <1>2, <1>3, <1>4 DEF ProtocolNext

\* The invariant of the instance.
THEOREM ProtocolInvariance == ProtocolSpec => []ProtocolInv
BY ProtocolInitInv, ProtocolStepInv, PTL DEF ProtocolSpec

\* The numbers of snapshots order their contents in the instance as well.
THEOREM NumbersOrderInProtocol == ProtocolSpec => []NumbersOrderContents
<1>1. IInv => NumbersOrderContents
  BY DEF IInv
<1>2. ReplicationOff => NumbersOrderContents
  <2> SUFFICES ASSUME ReplicationOff, NEW x \in Snapshots, NEW y \in Snapshots
               PROVE  x = y /\ ~(x.number < y.number)
    BY DEF NumbersOrderContents
  <2>1. \A s \in Slot : push[s].snapshot = First
    BY DEF ReplicationOff, Idle
  <2>2. x = First /\ y = First
    BY <2>1 DEF ReplicationOff, Snapshots
  <2> QED
    BY <2>2 DEF First
<1>3. ProtocolInv => NumbersOrderContents
  BY <1>1, <1>2 DEF ProtocolInv
<1> QED
  BY <1>3, ProtocolInvariance, PTL

\* A guardian that has heard the primary initiates a succession in time, in
\* the instance as well.
THEOREM DetectionInProtocol == ProtocolSpec => []DetectedInTime
<1>1. HeartInv => DetectedInTime
  BY DEF HeartInv, DetectedInTime
<1>2. HeartOff => DetectedInTime
  BY DEF HeartOff, DetectedInTime, Heart!DetectedInTime, Heart!None
<1>3. ProtocolInv => DetectedInTime
  BY <1>1, <1>2 DEF ProtocolInv
<1> QED
  BY <1>3, ProtocolInvariance, PTL

\* Guardians are taken down only while three stay active, in the instance as
\* well.
THEOREM KeepsThreeInProtocol == ProtocolSpec => DeprovisionKeepsThree
<1>1. ASSUME ProtocolInv, [ProtocolNext]_protocolVars
      PROVE  [own' < own => own' + external >= 3]_(Fleet!vars)
  <2> SUFFICES ASSUME ~ UNCHANGED Fleet!vars PROVE own' < own => own' + external >= 3
    OBVIOUS
  <2>1. part = "fleet" /\ Fleet!Next
    BY <1>1 DEF ProtocolNext, protocolVars, fleetVars, Fleet!vars, Fleet!guardians, Fleet!standby
  <2> QED
    BY <1>1, <2>1, StepKeepsThree, InstanceAssumption DEF ProtocolInv
<1> QED
  BY <1>1, ProtocolInvariance, PTL DEF ProtocolSpec, DeprovisionKeepsThree,
     Fleet!DeprovisionKeepsThree
=============================================================================
