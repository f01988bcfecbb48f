----------------------------- MODULE Replication -----------------------------
(***************************************************************************)
(* The guardians' copies of the protocol database.                         *)
(*                                                                         *)
(* The primary makes a snapshot, numbered and signed, when it admits a     *)
(* guardian and every five minutes.  The first goes out with the answer,   *)
(* the others to one guardian after the other.  Nothing bounds a request   *)
(* below those five minutes, so pushes overlap.  A guardian decrypts what  *)
(* it receives and writes it over its database file; it compares no        *)
(* numbers, and two of its handlers may write the file at the same time.   *)
(*                                                                         *)
(* A guardian that starts ignores pushes until it is admitted.  It asks    *)
(* ten times and then gives up, and it stops on a file that it cannot      *)
(* open.  Its server refuses a push with a body above 100 kB; an answer    *)
(* may have any size.                                                      *)
(*                                                                         *)
(* After a succession the snapshots are made with another key, which the   *)
(* guardians admitted before do not have and are not told.                 *)
(*                                                                         *)
(* The contents are the number of writes before them, the snapshot number  *)
(* aside.  MaxVersion, MaxNumber and MaxLoss are bounds of the model; the  *)
(* number stops at MaxNumber.                                              *)
(***************************************************************************)
EXTENDS Naturals

CONSTANTS
  Guardian, Slot,  \* Slot: pushes the primary may have under way
  Torn,            \* a database file that two handlers, or a crash, left
  MaxVersion, MaxNumber, MaxLoss

ASSUME ReplicationAssumption ==
  /\ Torn \notin Nat /\ Slot \subseteq Nat
  /\ MaxVersion \in Nat /\ MaxNumber \in Nat \ {0} /\ MaxLoss \in Nat

VARIABLES
  version,   \* writes to the primary's database so far
  number,    \* snapshot_sequence_num in it
  key,       \* what its snapshots are encrypted with
  push,      \* what each push does, its snapshot, the guardians to go
  inbox,     \* pushes on their way to a guardian
  answer,    \* snapshots in answers to a guardian's request for admission
  held,      \* the key of a guardian, "none" while it asks, "over" if in vain
  applying,  \* snapshots a guardian is writing to its file
  replica,   \* the version in that file
  crossed,   \* history: guardians that wrote two at once since they started
  limit,     \* versions up to here fit into the body of a push
  losses

guardian == <<answer, held, applying, replica, crossed, limit>>
vars == <<version, number, key, push, inbox, losses, guardian>>

Key == {"first", "rotated"}
Snapshot == [version : 0..MaxVersion, number : 1..MaxNumber, key : Key]

First == [version |-> 0, number |-> 1, key |-> "first"]
Idle  == [pc |-> "idle", snapshot |-> First, todo |-> {}]

Init ==
  /\ version = 0 /\ number = 0 /\ key = "first"
  /\ push = [s \in Slot |-> Idle]
  /\ inbox = [g \in Guardian |-> {}] /\ answer = [g \in Guardian |-> {}]
  /\ held = [g \in Guardian |-> "none"] /\ crossed = {}
  /\ applying = [g \in Guardian |-> {}] /\ replica = [g \in Guardian |-> 0]
  /\ limit \in 0..MaxVersion /\ losses = 0

Write ==
  /\ version < MaxVersion /\ version' = version + 1
  /\ UNCHANGED <<number, key, push, inbox, losses, guardian>>

Rotate ==
  /\ key = "first" /\ key' = "rotated"
  /\ UNCHANGED <<version, number, push, inbox, losses, guardian>>

-----------------------------------------------------------------------------
NextNumber == IF number < MaxNumber THEN number + 1 ELSE number

Serialized == [version |-> version, number |-> NextNumber, key |-> key]

\* createSnapshot, up to the signer: the contents, then the number.
CreateSnapshot(s) ==
  /\ push[s] = Idle /\ \A q \in Slot : push[q] = Idle => s <= q
  /\ number' = NextNumber
  /\ push' = [push EXCEPT ![s] = [pc |-> "signing", snapshot |-> Serialized, todo |-> Guardian]]
  /\ UNCHANGED <<version, key, inbox, losses, guardian>>

\* Mutant: a push is made once after the admission, not periodically.
PushOnce(s) == number < 2 /\ CreateSnapshot(s)

\* The timer's push is for every active guardian, whether or not anything
\* has changed.
PeriodicPush(s) == CreateSnapshot(s)

\* An admission makes a snapshot for its answer, which also brings the key.
Admit(g) ==
  /\ held[g] = "none" /\ answer[g] = {}
  /\ number' = NextNumber
  /\ answer' = [answer EXCEPT ![g] = {Serialized}]
  /\ UNCHANGED <<version, key, push, inbox, held, applying, replica, crossed, limit,
                 losses>>

\* Mutant: the contents are those of the moment the signer answers.
SignedLate(s) ==
  /\ push[s].pc = "signing"
  /\ push' = [push EXCEPT ![s].pc = "sending", ![s].snapshot.version = version]
  /\ UNCHANGED <<version, number, key, inbox, guardian, losses>>

Signed(s) ==
  /\ push[s].pc = "signing"
  /\ push' = [push EXCEPT ![s].pc = "sending"]
  /\ UNCHANGED <<version, number, key, inbox, guardian, losses>>

\* The requests go out one by one, each when the one before it is over.
Send(s, g) ==
  /\ push[s].pc = "sending" /\ g \in push[s].todo
  /\ push' = [push EXCEPT ![s].pc = "waiting", ![s].todo = @ \ {g}]
  /\ inbox' = [inbox EXCEPT ![g] = @ \cup {push[s].snapshot}]
  /\ UNCHANGED <<version, number, key, guardian, losses>>

Answered(s) ==
  /\ push[s].pc = "waiting"
  /\ \A g \in Guardian : push[s].snapshot \notin inbox[g] \cup applying[g]
  /\ push' = [push EXCEPT ![s].pc = "sending"]
  /\ UNCHANGED <<version, number, key, inbox, guardian, losses>>

\* The request takes longer than five minutes, or the connection breaks.
TimesOut(s) ==
  /\ push[s].pc = "waiting"
  /\ losses < MaxLoss /\ losses' = losses + 1
  /\ push' = [push EXCEPT ![s].pc = "sending"]
  /\ UNCHANGED <<version, number, key, inbox, guardian>>

EndPush(s) ==
  /\ push[s].pc = "sending" /\ push[s].todo = {}
  /\ push' = [push EXCEPT ![s] = Idle]
  /\ UNCHANGED <<version, number, key, inbox, guardian, losses>>

-----------------------------------------------------------------------------
\* The answer arrives: the guardian opens its file, which may fail, and begins
\* to write the snapshot.
Admitted(g, snapshot) ==
  /\ snapshot \in answer[g]
  /\ answer' = [answer EXCEPT ![g] = {}]
  /\ \/ /\ held' = [held EXCEPT ![g] = snapshot.key]
        /\ applying' = [applying EXCEPT ![g] = {snapshot}]
     \/ replica[g] = Torn /\ held' = [held EXCEPT ![g] = "over"] /\ UNCHANGED applying
  /\ UNCHANGED <<version, number, key, push, inbox, replica, crossed, limit, losses>>

\* It does not arrive in time, and the guardian asks again or no more.
AnswerLost(g) ==
  /\ held[g] = "none" /\ answer' = [answer EXCEPT ![g] = {}]
  /\ held' \in {held, [held EXCEPT ![g] = "over"]}
  /\ UNCHANGED <<version, number, key, push, inbox, applying, replica, crossed, limit,
                 losses>>

\* What a guardian does not ignore, refuse for its size or fail to decrypt.
Accepted(g, snapshot) == held[g] = snapshot.key /\ snapshot.version <= limit

\* A push arrives.  The guardian closes its database and begins to write.
ApplySnapshot(g, snapshot) ==
  /\ snapshot \in inbox[g]
  /\ inbox' = [inbox EXCEPT ![g] = @ \ {snapshot}]
  /\ \/ /\ Accepted(g, snapshot)
        /\ applying' = [applying EXCEPT ![g] = @ \cup {snapshot}]
        /\ crossed' = IF applying[g] = {} THEN crossed ELSE crossed \cup {g}
     \/ ~Accepted(g, snapshot) /\ UNCHANGED <<applying, crossed>>
  /\ UNCHANGED <<version, number, key, push, answer, held, replica, limit, losses>>

\* The file is written, and opened if two handlers have not spoilt it.
Written(g, snapshot) ==
  /\ snapshot \in applying[g]
  /\ applying' = [applying EXCEPT ![g] = @ \ {snapshot}]
  /\ \/ replica' = [replica EXCEPT ![g] = snapshot.version]
     \/ g \in crossed /\ replica' = [replica EXCEPT ![g] = Torn]
  /\ UNCHANGED <<version, number, key, push, inbox, answer, held, crossed, limit, losses>>

\* A push is lost.
Lose(g, snapshot) ==
  /\ losses < MaxLoss /\ losses' = losses + 1
  /\ snapshot \in inbox[g]
  /\ inbox' = [inbox EXCEPT ![g] = @ \ {snapshot}]
  /\ UNCHANGED <<version, number, key, push, guardian>>

\* A guardian stops, perhaps while it writes, and starts without its key.  One
\* that stays down is one that starts and asks in vain.
Restart(g) ==
  /\ losses < MaxLoss /\ losses' = losses + 1
  /\ inbox' = [inbox EXCEPT ![g] = {}] /\ answer' = [answer EXCEPT ![g] = {}]
  /\ held' = [held EXCEPT ![g] = "none"] /\ crossed' = crossed \ {g}
  /\ applying' = [applying EXCEPT ![g] = {}]
  /\ \/ UNCHANGED replica
     \/ /\ applying[g] # {}
        /\ \E left \in {Torn} \cup {x.version : x \in applying[g]} :
             replica' = [replica EXCEPT ![g] = left]
  /\ UNCHANGED <<version, number, key, push, limit>>

Pushes(s) ==
  PeriodicPush(s) \/ Signed(s) \/ Answered(s) \/ EndPush(s) \/ \E g \in Guardian : Send(s, g)

Receipts(g) ==
  \E snapshot \in Snapshot :
    ApplySnapshot(g, snapshot) \/ Written(g, snapshot) \/ Admitted(g, snapshot)

Next ==
  \/ Write \/ Rotate
  \/ \E s \in Slot : Pushes(s) \/ TimesOut(s)
  \/ \E g \in Guardian :
       \/ Receipts(g) \/ Admit(g) \/ AnswerLost(g) \/ Restart(g)
       \/ \E snapshot \in Snapshot : Lose(g, snapshot)

Spec == Init /\ [][Next]_vars

\* The timer pushes, requests arrive or fail, and files are written.  Losses
\* and restarts for ever are excluded by MaxLoss only.  No guardian need ask for
\* admission, or be answered.
Fairness ==
  /\ \A s \in Slot : WF_vars(Pushes(s))
  /\ \A g \in Guardian : \A snapshot \in Snapshot :
       WF_vars(ApplySnapshot(g, snapshot)) /\ WF_vars(Written(g, snapshot))

FairSpec == Spec /\ Fairness

-----------------------------------------------------------------------------
TypeOK ==
  /\ version \in 0..MaxVersion /\ number \in 0..MaxNumber /\ key \in Key
  /\ push \in [Slot -> [pc : {"idle", "signing", "sending", "waiting"},
                       snapshot : Snapshot, todo : SUBSET Guardian]]
  /\ inbox \in [Guardian -> SUBSET Snapshot] /\ answer \in [Guardian -> SUBSET Snapshot]
  /\ applying \in [Guardian -> SUBSET Snapshot]
  /\ held \in [Guardian -> Key \cup {"none", "over"}] /\ crossed \subseteq Guardian
  /\ replica \in [Guardian -> 0..MaxVersion \cup {Torn}] /\ limit \in 0..MaxVersion
  /\ losses \in 0..MaxLoss

Snapshots ==
  {push[s].snapshot : s \in {q \in Slot : push[q] # Idle}}
    \cup UNION {inbox[g] \cup answer[g] \cup applying[g] : g \in Guardian}

\* Of two snapshots anywhere in the system the one with the lower number has
\* no newer contents, and two with the same number are the same, although
\* snapshots are made while others wait for the signer.
NumbersOrderContents ==
  \A x, y \in Snapshots :
    /\ x.number < y.number => x.version <= y.version
    /\ x.number = y.number /\ x.number < MaxNumber => x = y

\* A guardian that stays admitted with the key of the snapshots, and has not
\* written two at once since it started.
Follows(g) == held[g] = key /\ g \notin crossed

\* When the writes are over and the database fits into a push, the copy of every
\* guardian that from then on follows is in the end the primary's, for good:
\* though it has restarted while it wrote, and though older snapshots arrive
\* after newer ones, in the answer to an admission too, or are lost.
ReplicaCatchesUp ==
  <>[](version = MaxVersion /\ version <= limit)
    => \A g \in Guardian : <>[]Follows(g) => <>[](replica[g] = version)
=============================================================================
