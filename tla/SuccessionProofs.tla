-------------------------- MODULE SuccessionProofs --------------------------
(***************************************************************************)
(* Theorems about Succession, for every set of guardians and backups,      *)
(* every ranking, and any number of time-outs, restarts and stops.         *)
(*                                                                         *)
(* What a promoted backup has was obtained by some confirmation, maybe not *)
(* the one that promoted it.  The invariants therefore say what each await *)
(* of a confirmation already guarantees of the backup, whoever called.     *)
(***************************************************************************)
EXTENDS Succession, SequenceTheorems, TLAPS

\* A call at this backup waits there.
At(b, pc) == \E c \in calls : c.to = b /\ c.pc = pc

\* A guardian's plan and the calls it waits for agree.
Plan ==
  /\ OneCandidateAtATime
  /\ \A g \in Guardian :
       /\ guardian[g].pc = "waiting" => guardian[g].todo # << >>
       /\ g \in stopped => Waited(g) = {}

\* Of these backups nothing is promised: a restart loses a session, two writes
\* at once may leave anything, and a machine that stopped has no calls.
Lost == restarted \cup stopped \cup crossed

HasState(b) == backup[b].db \in {"state", "closed"}

\* A closed database is being written; a confirmation finds a session or the
\* state, and after applying the state.
StateOf(b) ==
  /\ backup[b].db \in {"own", "state", "closed"}
  /\ backup[b].db = "closed" => At(b, "writing")
  /\ At(b, "confirm") => backup[b].session # NoSession \/ HasState(b)
  /\ At(b, "recording") \/ At(b, "rotating") \/ At(b, "resealing") \/ b \in promoted
       => HasState(b)

\* While another key is in force, or sealed, a rotation is still to come.
BeforeRotation(b) ==
  \/ At(b, "sealing") \/ At(b, "applying") \/ At(b, "writing")
  \/ At(b, "recording") \/ At(b, "rotating")

RotationOf(b) ==
  /\ b \in promoted \/ At(b, "resealing") => backup[b].vault = "rotated" \/ BeforeRotation(b)
  /\ b \in promoted =>
       backup[b].sealed = "rotated" \/ BeforeRotation(b) \/ At(b, "resealing")

Ahead == \A b \in Backup \ Lost : StateOf(b) /\ RotationOf(b)

IInv == TypeOK /\ Plan /\ Ahead

-----------------------------------------------------------------------------
\* Where a guardian may stand.
LEMMA Places ==
  /\ [pc |-> "idle", todo |-> << >>] \in Place
  /\ [pc |-> "standing", todo |-> << >>] \in Place
  /\ \A todo \in Seq(Backup) : [pc |-> "waiting", todo |-> todo] \in Place
<1>1. << >> \in Seq(Backup)
  OBVIOUS
<1> QED
  BY <1>1 DEF Place

\* A backup starts as one, and stays one with another session, key or state.
LEMMA Machines ==
  /\ FreshBackup \in Machine
  /\ \A m \in Machine :
       /\ m.session \in {NoSession} \cup Session /\ m.vault \in Keys /\ m.sealed \in Keys
       /\ \A k \in {NoSession} \cup Session : [m EXCEPT !.session = k] \in Machine
       /\ \A k \in Keys : [m EXCEPT !.vault = k] \in Machine /\ [m EXCEPT !.sealed = k] \in Machine
       /\ m.db \in Databases
       /\ \A d \in Databases : /\ [m EXCEPT !.db = d] \in Machine
                              /\ [m EXCEPT !.db = d, !.session = NoSession] \in Machine
       /\ \A k \in Keys, d \in Databases :
            [session |-> NoSession, vault |-> k, sealed |-> k, db |-> d] \in Machine
  /\ Left \subseteq Databases /\ "closed" \in Databases /\ "state" \in Databases
BY DEF Machine, FreshBackup, Keys, Databases, Left

\* The initial state.
LEMMA InitInv == Init => IInv
<1> SUFFICES ASSUME Init PROVE IInv
  OBVIOUS
<1>1. TypeOK
  BY SuccessionAssumption, Places, Machines DEF Init, TypeOK
<1>2. Plan
  BY DEF Init, Plan, OneCandidateAtATime, Waited
<1>3. Ahead
  BY DEF Init, FreshBackup, Ahead, StateOf, RotationOf, BeforeRotation, At
<1> QED
  BY <1>1, <1>2, <1>3 DEF IInv

-----------------------------------------------------------------------------
\* A guardian that goes on asks the first of the candidates that are left.
LEMMA ContactType ==
  ASSUME TypeOK, NEW g \in Guardian, NEW todo \in Seq(Backup), NEW others,
         others \subseteq Call, Contact(g, todo, others)
  PROVE  /\ guardian' \in [Guardian -> Place]
         /\ calls' \subseteq Call
<1>1. CASE todo = << >>
  BY <1>1, Places DEF Contact, TypeOK
<1>2. CASE todo # << >>
  <2>1. Head(todo) \in Backup
    BY <1>2, HeadTailProperties
  <2>2. Ready(g, Head(todo)) \in Call
    BY <2>1 DEF Ready, Call
  <2> QED
    BY <1>2, <2>2, Places DEF Contact, TypeOK
<1> QED
  BY <1>1, <1>2

\* The rest of a plan is a plan.
LEMMA TailType ==
  ASSUME TypeOK, NEW g \in Guardian, guardian[g].todo # << >>
  PROVE  Tail(guardian[g].todo) \in Seq(Backup)
<1>1. guardian[g].todo \in Seq(Backup)
  BY DEF TypeOK, Place
<1> QED
  BY <1>1, HeadTailProperties

\* A call that goes on is still a call.
LEMMA CallMoves ==
  ASSUME NEW c \in Call,
         NEW pc \in {"ready", "confirm", "oversized", "sealing", "applying", "writing",
                    "recording", "rotating", "resealing"}
  PROVE  [c EXCEPT !.pc = pc] \in Call
BY DEF Call

\* A guardian that is refused waits for the next candidate.
LEMMA RefusedType ==
  ASSUME TypeOK, Plan, NEW c \in calls, Refused(c)
  PROVE  /\ guardian' \in [Guardian -> Place]
         /\ calls' \subseteq Call
<1>1. c \in Call /\ c.from \in Guardian
  BY DEF TypeOK, Call
<1>2. CASE c.waited
  <2>1. guardian[c.from].todo # << >>
    BY <1>1, <1>2 DEF Plan, OneCandidateAtATime, Waited
  <2>2. Tail(guardian[c.from].todo) \in Seq(Backup)
    BY <1>1, <2>1, TailType
  <2>3. calls \ {c} \subseteq Call
    BY DEF TypeOK
  <2>4. Contact(c.from, Tail(guardian[c.from].todo), calls \ {c})
    BY <1>2 DEF Refused
  <2> QED
    BY <1>1, <2>2, <2>3, <2>4, ContactType
<1>3. CASE ~c.waited
  BY <1>3 DEF Refused, TypeOK
<1> QED
  BY <1>2, <1>3

\* Every step keeps the type of every variable.
LEMMA StepType ==
  ASSUME TypeOK, Plan, [Next]_vars
  PROVE  TypeOK'
<1> USE SuccessionAssumption
<1>1. ASSUME NEW g \in Guardian, Initiate(g) PROVE TypeOK'
  <2>1. Ranking[g] \in Seq(Backup)
    OBVIOUS
  <2> QED
    BY <1>1, <2>1, ContactType DEF Initiate, TypeOK
<1>2. ASSUME NEW g \in Guardian, Timeout(g) PROVE TypeOK'
  <2>1. PICK c \in Waited(g) :
          Contact(g, Tail(guardian[g].todo), (calls \ {c}) \cup {[c EXCEPT !.waited = FALSE]})
    BY <1>2 DEF Timeout
  <2>2. c \in calls /\ c \in Call
    BY DEF Waited, TypeOK
  <2>3. [c EXCEPT !.waited = FALSE] \in Call
    BY <2>2 DEF Call
  <2>4. guardian[g].todo # << >>
    BY DEF Plan, OneCandidateAtATime
  <2>5. Tail(guardian[g].todo) \in Seq(Backup)
    BY <2>4, TailType
  <2>6. (calls \ {c}) \cup {[c EXCEPT !.waited = FALSE]} \subseteq Call
    BY <2>3 DEF TypeOK
  <2>7. guardian' \in [Guardian -> Place] /\ calls' \subseteq Call
    BY <2>1, <2>5, <2>6, ContactType
  <2>8. timeouts' \in Nat
    BY <1>2 DEF Timeout, TypeOK
  <2> QED
    BY <1>2, <2>7, <2>8 DEF Timeout, TypeOK
<1>3. ASSUME NEW g \in Guardian, ConnectionLost(g) PROVE TypeOK'
  BY <1>3, ContactType, TailType DEF ConnectionLost, TypeOK, Plan
<1>4. ASSUME NEW g \in Guardian, StandDown(g) PROVE TypeOK'
  BY <1>4, Places DEF StandDown, TypeOK
<1>5. ASSUME NEW c \in calls, HandlerStep(c) PROVE TypeOK'
  <2> c \in Call /\ c.to \in Backup /\ c.from \in Guardian
    BY DEF TypeOK, Call
  <2>1. ASSUME NEW k \in Session, HandleReady(c, k) PROVE TypeOK'
    <3>1. \A pc \in {"confirm", "oversized"} : [c EXCEPT !.key = k, !.pc = pc] \in Call
      BY DEF Call
    <3>2. backup' \in [Backup -> Machine]
      BY <2>1, Machines DEF HandleReady, TypeOK
    <3> QED
      BY <2>1, <3>1, <3>2 DEF HandleReady, TypeOK
  <2>2. CASE RefuseBody(c)
    BY <2>2, RefusedType DEF RefuseBody, TypeOK
  <2>3. CASE Unwrap(c)
    <3>1. backup' \in [Backup -> Machine]
      BY <2>3, Machines DEF Unwrap, TypeOK, Keys
    <3> QED
      BY <2>3, <3>1, CallMoves DEF Unwrap, MovesTo, TypeOK
  <2>4. CASE CannotUnwrap(c)
    BY <2>4, RefusedType DEF CannotUnwrap, TypeOK
  <2>5. CASE SkipPayload(c)
    BY <2>5, CallMoves, RefusedType DEF SkipPayload, MovesTo, TypeOK
  <2>6. CASE Seal(c)
    <3>1. backup' \in [Backup -> Machine]
      BY <2>6, Machines DEF Seal, TypeOK, Keys
    <3> QED
      BY <2>6, <3>1, CallMoves DEF Seal, MovesTo, TypeOK
  <2>7. CASE ApplySnapshot(c)
    <3>1. backup' \in [Backup -> Machine]
      BY <2>7, Machines DEF ApplySnapshot, TypeOK
    <3> QED
      BY <2>7, <3>1, CallMoves DEF ApplySnapshot, MovesTo, TypeOK
  <2>8. CASE Reinitialize(c)
    <3>1. PICK db \in Databases :
            IF db = "torn"
            THEN Refused(c) /\ backup' = [backup EXCEPT ![c.to].db = db]
            ELSE /\ MovesTo(c, "recording") /\ UNCHANGED guardian
                 /\ backup' = [backup EXCEPT ![c.to].db = db, ![c.to].session = NoSession]
      BY <2>8, Machines DEF Reinitialize
    <3>2. backup' \in [Backup -> Machine]
      <4>1. /\ [backup[c.to] EXCEPT !.db = db] \in Machine
            /\ [backup[c.to] EXCEPT !.db = db, !.session = NoSession] \in Machine
        BY Machines DEF TypeOK
      <4> QED
        BY <3>1, <4>1 DEF TypeOK
    <3>3. guardian' \in [Guardian -> Place] /\ calls' \subseteq Call
      <4>1. CASE db = "torn"
        BY <3>1, <4>1, RefusedType
      <4>2. CASE db # "torn"
        <5>1. [c EXCEPT !.pc = "recording"] \in Call
          BY CallMoves
        <5> QED
          BY <3>1, <4>2, <5>1 DEF MovesTo, TypeOK
      <4> QED
        BY <4>1, <4>2
    <3> QED
      BY <2>8, <3>2, <3>3 DEF Reinitialize, TypeOK
  <2>9. CASE RecordSuccession(c)
    BY <2>9, CallMoves, RefusedType DEF RecordSuccession, MovesTo, TypeOK
  <2>10. CASE RotateVaultKey(c)
    <3>1. backup' \in [Backup -> Machine]
      BY <2>10, Machines DEF RotateVaultKey, TypeOK, Keys
    <3> QED
      BY <2>10, <3>1, CallMoves DEF RotateVaultKey, MovesTo, TypeOK
  <2>11. CASE Promote(c)
    <3>1. backup' \in [Backup -> Machine]
      BY <2>11, Machines DEF Promote, TypeOK
    <3> QED
      BY <2>11, <3>1, Places DEF Promote, TypeOK
  <2> QED
    BY <1>5, <2>1, <2>2, <2>3, <2>4, <2>5, <2>6, <2>7, <2>8, <2>9, <2>10, <2>11 DEF HandlerStep
<1>6. ASSUME NEW g \in Guardian, GuardianStops(g) PROVE TypeOK'
  <2>1. calls' \subseteq Call
    BY <1>6 DEF GuardianStops, TypeOK, Call
  <2> QED
    BY <1>6, <2>1 DEF GuardianStops, TypeOK
<1>7. ASSUME NEW b \in Backup, BackupStops(b) PROVE TypeOK'
  BY <1>7 DEF BackupStops, TypeOK
<1>8. ASSUME NEW b \in Backup, BackupRestarts(b) PROVE TypeOK'
  <2>1. PICK db \in Databases :
          /\ backup' = [backup EXCEPT ![b] = [session |-> NoSession, vault |-> backup[b].sealed,
                                              sealed |-> backup[b].sealed, db |-> db]]
          /\ stopped' = stopped \cup (IF db = "torn" THEN {b} ELSE {})
    BY <1>8, Machines DEF BackupRestarts, TypeOK
  <2>2. backup' \in [Backup -> Machine]
    BY <2>1, Machines DEF TypeOK
  <2>3. stopped' \subseteq Guardian \cup Backup
    BY <2>1 DEF TypeOK
  <2> QED
    BY <1>8, <2>2, <2>3 DEF BackupRestarts, TypeOK
<1>9. CASE UNCHANGED vars
  BY <1>9 DEF TypeOK, vars
<1> QED
  BY <1>1, <1>2, <1>3, <1>4, <1>5, <1>6, <1>7, <1>8, <1>9 DEF Next, GuardianStep, Failure

-----------------------------------------------------------------------------
\* A step that leaves the backups and what is left of their confirmations alone.
LEMMA QuietStep ==
  ASSUME TypeOK, Ahead, TypeOK', promoted' = promoted, Lost \subseteq Lost',
         \A b \in Backup \ Lost' : backup'[b] = backup[b],
         \A c \in calls' : c.pc = "ready" \/ \E d \in calls : d.to = c.to /\ d.pc = c.pc,
         \A d \in calls : \/ d.pc \in {"ready", "confirm", "oversized"} \/ d.to \in Lost'
                          \/ \E c \in calls' : c.to = d.to /\ c.pc = d.pc
  PROVE  Ahead'
<1> SUFFICES ASSUME NEW b \in Backup \ Lost' PROVE StateOf(b)' /\ RotationOf(b)'
  BY DEF Ahead
<1>1. ASSUME NEW pc, pc # "ready", At(b, pc)' PROVE At(b, pc)
  BY <1>1 DEF At
<1>2. ASSUME NEW pc, pc \notin {"ready", "confirm", "oversized"}, At(b, pc) PROVE At(b, pc)'
  BY <1>2 DEF At
<1>3. /\ At(b, "confirm")' => At(b, "confirm")
      /\ At(b, "sealing")' <=> At(b, "sealing")
      /\ At(b, "applying")' <=> At(b, "applying")
      /\ At(b, "writing")' <=> At(b, "writing")
      /\ At(b, "recording")' <=> At(b, "recording")
      /\ At(b, "rotating")' <=> At(b, "rotating")
      /\ At(b, "resealing")' <=> At(b, "resealing")
  BY <1>1, <1>2
<1>4. StateOf(b) /\ RotationOf(b) /\ backup'[b] = backup[b]
  BY DEF Ahead
<1>5. StateOf(b)'
  BY <1>3, <1>4 DEF StateOf, HasState
<1>6. RotationOf(b)'
  BY <1>3, <1>4 DEF RotationOf, BeforeRotation
<1> QED
  BY <1>5, <1>6

\* What a guardian asks next changes no call that is already running.
LEMMA ContactCalls ==
  ASSUME NEW g, NEW todo, NEW others, Contact(g, todo, others)
  PROVE  /\ others \subseteq calls'
         /\ \A c \in calls' : c \in others \/ c.pc = "ready"
BY DEF Contact, Ready

\* A confirmation touches no other backup.
LEMMA Elsewhere ==
  ASSUME Ahead, NEW c \in calls, c.to \in Backup, UNCHANGED <<stopped, restarted>>,
         crossed \subseteq crossed', crossed' \subseteq crossed \cup {c.to},
         \A d : d.to # c.to /\ d.pc # "ready" => (d \in calls' <=> d \in calls),
         \A b \in Backup \ {c.to} : backup'[b] = backup[b],
         \A b \in Backup \ {c.to} : b \in promoted' <=> b \in promoted,
         c.to \notin Lost' => StateOf(c.to)' /\ RotationOf(c.to)'
  PROVE  Ahead'
<1> SUFFICES ASSUME NEW b \in Backup \ Lost', b # c.to PROVE StateOf(b)' /\ RotationOf(b)'
  BY DEF Ahead
<1>1. ASSUME NEW pc, pc # "ready" PROVE At(b, pc)' <=> At(b, pc)
  BY <1>1 DEF At
<1>2. /\ At(b, "confirm")' <=> At(b, "confirm")
      /\ At(b, "sealing")' <=> At(b, "sealing")
      /\ At(b, "applying")' <=> At(b, "applying")
      /\ At(b, "writing")' <=> At(b, "writing")
      /\ At(b, "recording")' <=> At(b, "recording")
      /\ At(b, "rotating")' <=> At(b, "rotating")
      /\ At(b, "resealing")' <=> At(b, "resealing")
  BY <1>1
<1>3. backup'[b] = backup[b] /\ (b \in promoted' <=> b \in promoted)
  OBVIOUS
<1>4. StateOf(b) /\ RotationOf(b)
  BY DEF Ahead, Lost
<1>5. StateOf(b)'
  BY <1>2, <1>3, <1>4 DEF StateOf, HasState
<1>6. RotationOf(b)'
  BY <1>2, <1>3, <1>4 DEF RotationOf, BeforeRotation
<1> QED
  BY <1>5, <1>6

\* The call that a confirmation moves on is the only one that moves.
LEMMA Moves ==
  ASSUME TypeOK, NEW c \in calls, NEW pc, MovesTo(c, pc)
  PROVE  /\ \A d : d.to # c.to => (d \in calls' <=> d \in calls)
         /\ At(c.to, pc)' /\ At(c.to, c.pc)
         /\ \A p : p # pc /\ At(c.to, p)' => At(c.to, p)
         /\ \A p : p # c.pc /\ At(c.to, p) => At(c.to, p)'
<1>1. c \in Call
  BY DEF TypeOK
<1>2. [c EXCEPT !.pc = pc].to = c.to /\ [c EXCEPT !.pc = pc].pc = pc
  BY <1>1 DEF Call
<1>3. \A d : d.to # c.to => (d \in calls' <=> d \in calls)
  BY <1>2 DEF MovesTo
<1> QED
  BY <1>2, <1>3 DEF At, MovesTo

\* The call that fails is the only one that ends.
LEMMA Ends ==
  ASSUME NEW c \in calls, c.pc # "ready", Refused(c) \/ calls' = calls \ {c}
  PROVE  /\ \A d : d.to # c.to /\ d.pc # "ready" => (d \in calls' <=> d \in calls)
         /\ \A p : p # "ready" /\ At(c.to, p)' => At(c.to, p)
         /\ \A p : p # c.pc /\ At(c.to, p) => At(c.to, p)'
<1>1. calls \ {c} \subseteq calls' /\ \A d \in calls' : d \in calls \ {c} \/ d.pc = "ready"
  BY ContactCalls DEF Refused
<1> QED
  BY <1>1 DEF At

\* A confirmation that fails early leaves everything to the others.
LEMMA RefusedEarly ==
  ASSUME TypeOK, Ahead, TypeOK', NEW c \in calls, c.pc \in {"confirm", "oversized"}, Refused(c),
         UNCHANGED <<stopped, backup, promoted, crossed, restarted>>
  PROVE  Ahead'
<1>1. calls \ {c} \subseteq calls' /\ \A d \in calls' : d \in calls \ {c} \/ d.pc = "ready"
  BY ContactCalls DEF Refused
<1> QED
  BY <1>1, QuietStep DEF Lost

\* Every await of every call leaves the next one what it needs.
LEMMA StepAhead ==
  ASSUME IInv, TypeOK', [Next]_vars
  PROVE  Ahead'
<1> USE DEF IInv
<1>1. ASSUME NEW g \in Guardian, Initiate(g) PROVE Ahead'
  <2>1. calls \subseteq calls' /\ \A c \in calls' : c \in calls \/ c.pc = "ready"
    BY <1>1, ContactCalls DEF Initiate
  <2> QED
    BY <1>1, <2>1, QuietStep DEF Initiate, Lost
<1>2. ASSUME NEW g \in Guardian, Timeout(g) PROVE Ahead'
  <2>1. PICK c \in Waited(g) :
          Contact(g, Tail(guardian[g].todo), (calls \ {c}) \cup {[c EXCEPT !.waited = FALSE]})
    BY <1>2 DEF Timeout
  <2> DEFINE left == [c EXCEPT !.waited = FALSE]
  <2>2. c \in calls /\ left.to = c.to /\ left.pc = c.pc
    BY DEF Waited, TypeOK, Call
  <2>3. /\ (calls \ {c}) \cup {left} \subseteq calls'
        /\ \A d \in calls' : d \in (calls \ {c}) \cup {left} \/ d.pc = "ready"
    BY <2>1, ContactCalls
  <2> HIDE DEF left
  <2> QED
    BY <1>2, <2>2, <2>3, QuietStep DEF Timeout, Lost
<1>3. ASSUME NEW g \in Guardian, ConnectionLost(g) PROVE Ahead'
  <2>1. calls \subseteq calls' /\ \A c \in calls' : c \in calls \/ c.pc = "ready"
    BY <1>3, ContactCalls DEF ConnectionLost
  <2> QED
    BY <1>3, <2>1, QuietStep DEF ConnectionLost, Lost
<1>4. ASSUME NEW g \in Guardian, StandDown(g) PROVE Ahead'
  BY <1>4, QuietStep DEF StandDown, Lost
<1>5. ASSUME NEW c \in calls, HandlerStep(c) PROVE Ahead'
  <2> DEFINE b == c.to
  <2>0. c \in Call /\ b \in Backup /\ backup[b] \in Machine
    BY DEF TypeOK, Call
  <2>a. b \notin Lost => StateOf(b) /\ RotationOf(b)
    BY <2>0 DEF Ahead
  <2>1. ASSUME NEW k \in Session, HandleReady(c, k) PROVE Ahead'
    <3>1. k # NoSession
      BY SuccessionAssumption DEF NoSession
    <3>2. backup'[b] = [backup[b] EXCEPT !.session = k]
      BY <2>0, <2>1 DEF HandleReady, TypeOK
    <3>3. /\ backup'[b].session # NoSession /\ backup'[b].db = backup[b].db
          /\ backup'[b].vault = backup[b].vault /\ backup'[b].sealed = backup[b].sealed
      BY <2>0, <3>1, <3>2 DEF Machine
    <3>4. \A p : p \notin {"ready", "confirm", "oversized"} => (At(b, p)' <=> At(b, p))
      BY <2>0, <2>1 DEF HandleReady, At, Call
    <3>5. b \notin Lost => StateOf(b)'
      BY <2>a, <2>1, <3>3, <3>4 DEF HandleReady, StateOf, HasState
    <3>6. b \notin Lost => RotationOf(b)'
      BY <2>a, <2>1, <3>3, <3>4 DEF HandleReady, RotationOf, BeforeRotation
    <3>7. \A d : d.to # c.to => (d \in calls' <=> d \in calls)
      BY <2>0, <2>1 DEF HandleReady, Call
    <3>8. \A a \in Backup \ {b} : backup'[a] = backup[a]
      BY <2>1 DEF HandleReady, TypeOK
    <3> QED
      BY <2>0, <2>1, <3>5, <3>6, <3>7, <3>8, Elsewhere DEF HandleReady, Lost
  <2>2. CASE RefuseBody(c)
    BY <2>2, RefusedEarly DEF RefuseBody
  <2>3. CASE Unwrap(c)
    <3>1. /\ backup'[b].vault = "fleet"
          /\ UNCHANGED <<backup[b].session, backup[b].db, backup[b].sealed>>
      BY <2>0, <2>3 DEF Unwrap, TypeOK, Machine
    <3>2. \A a \in Backup \ {b} : backup'[a] = backup[a]
      BY <2>3 DEF Unwrap, TypeOK
    <3>3. b \notin Lost => StateOf(b)'
      BY <2>a, <2>3, <3>1, Moves DEF Unwrap, StateOf, HasState
    <3>4. RotationOf(b)'
      BY <2>3, Moves DEF Unwrap, RotationOf, BeforeRotation
    <3> QED
      BY <2>0, <2>3, <3>2, <3>3, <3>4, Moves, Elsewhere DEF Unwrap, Lost
  <2>4. CASE CannotUnwrap(c)
    BY <2>4, RefusedEarly DEF CannotUnwrap
  <2>5. CASE SkipPayload(c)
    <3>1. CASE ~Usable(b)
      BY <2>5, <3>1, RefusedEarly DEF SkipPayload
    <3>2. CASE Usable(b)
      <4>1. MovesTo(c, "recording")
        BY <2>5, <3>2 DEF SkipPayload
      <4>2. b \notin Lost => StateOf(b)'
        BY <2>a, <2>5, <4>1, Moves DEF SkipPayload, StateOf, HasState
      <4>3. RotationOf(b)'
        BY <4>1, Moves DEF RotationOf, BeforeRotation
      <4> QED
        BY <2>0, <2>5, <4>1, <4>2, <4>3, Moves, Elsewhere DEF SkipPayload, Lost
    <3> QED
      BY <3>1, <3>2
  <2>6. CASE Seal(c)
    <3>1. UNCHANGED <<backup[b].session, backup[b].db, backup[b].vault>>
      BY <2>0, <2>6 DEF Seal, TypeOK, Machine
    <3>2. \A a \in Backup \ {b} : backup'[a] = backup[a]
      BY <2>6 DEF Seal, TypeOK
    <3>3. b \notin Lost => StateOf(b)'
      BY <2>a, <2>6, <3>1, Moves DEF Seal, StateOf, HasState
    <3>4. RotationOf(b)'
      BY <2>6, Moves DEF Seal, RotationOf, BeforeRotation
    <3> QED
      BY <2>0, <2>6, <3>2, <3>3, <3>4, Moves, Elsewhere DEF Seal, Lost
  <2>7. CASE ApplySnapshot(c)
    <3>1. backup'[b].db = "closed"
      BY <2>0, <2>7 DEF ApplySnapshot, TypeOK, Machine
    <3>2. \A a \in Backup \ {b} : backup'[a] = backup[a]
      BY <2>7 DEF ApplySnapshot, TypeOK
    <3>3. At(b, "writing")'
      BY <2>7, Moves DEF ApplySnapshot
    <3>4. StateOf(b)'
      BY <3>1, <3>3 DEF StateOf, HasState
    <3>5. RotationOf(b)'
      BY <3>3 DEF RotationOf, BeforeRotation
    <3> QED
      BY <2>0, <2>7, <3>2, <3>4, <3>5, Moves, Elsewhere DEF ApplySnapshot
  <2>8. CASE Reinitialize(c)
    <3>1. PICK db \in Left :
            /\ b \notin crossed => db = "state"
            /\ IF db = "torn"
               THEN Refused(c) /\ backup' = [backup EXCEPT ![c.to].db = db]
               ELSE /\ MovesTo(c, "recording") /\ UNCHANGED guardian
                    /\ backup' = [backup EXCEPT ![c.to].db = db, ![c.to].session = NoSession]
      BY <2>8 DEF Reinitialize, Left
    <3>2. \A a \in Backup \ {b} : backup'[a] = backup[a]
      BY <3>1 DEF TypeOK
    <3>3. c.pc = "writing" /\ UNCHANGED <<stopped, promoted, crossed, restarted>>
      BY <2>8 DEF Reinitialize
    <3>4. CASE db = "torn"
      BY <2>0, <3>1, <3>2, <3>3, <3>4, Ends, Elsewhere DEF Lost
    <3>5. CASE db # "torn"
      <4>1. MovesTo(c, "recording") /\ backup'[b].db = db
        BY <2>0, <3>1, <3>5 DEF TypeOK, Machine
      <4>2. b \notin Lost => StateOf(b)'
        BY <3>1, <4>1 DEF StateOf, HasState, Lost
      <4>3. RotationOf(b)'
        BY <4>1, Moves DEF RotationOf, BeforeRotation
      <4> QED
        BY <2>0, <3>2, <3>3, <4>1, <4>2, <4>3, Moves, Elsewhere DEF Lost
    <3> QED
      BY <3>4, <3>5
  <2>9. CASE RecordSuccession(c)
    <3>1. c.pc = "recording" /\ UNCHANGED <<stopped, backup, promoted, crossed, restarted>>
      BY <2>9 DEF RecordSuccession
    <3>2. CASE ~Usable(b)
      <4>1. Refused(c)
        BY <2>9, <3>2 DEF RecordSuccession
      <4>2. b \notin Lost => At(b, "writing")
        BY <2>a, <3>2 DEF Usable, StateOf
      <4>3. b \notin Lost => At(b, "writing")'
        BY <3>1, <4>1, <4>2, Ends
      <4>4. b \notin Lost => StateOf(b)'
        BY <2>a, <3>1, <4>1, <4>3, Ends DEF StateOf, HasState
      <4>5. b \notin Lost => RotationOf(b)'
        BY <4>3 DEF RotationOf, BeforeRotation
      <4> QED
        BY <2>0, <3>1, <4>1, <4>4, <4>5, Ends, Elsewhere DEF Lost
    <3>3. CASE Usable(b)
      <4>1. MovesTo(c, "rotating")
        BY <2>9, <3>3 DEF RecordSuccession
      <4>2. b \notin Lost => StateOf(b)'
        BY <2>a, <3>1, <4>1, Moves DEF StateOf, HasState
      <4>3. RotationOf(b)'
        BY <4>1, Moves DEF RotationOf, BeforeRotation
      <4> QED
        BY <2>0, <3>1, <4>1, <4>2, <4>3, Moves, Elsewhere DEF Lost
    <3> QED
      BY <3>2, <3>3
  <2>10. CASE RotateVaultKey(c)
    <3>1. /\ backup'[b].vault = "rotated"
          /\ UNCHANGED <<backup[b].session, backup[b].db, backup[b].sealed>>
      BY <2>0, <2>10 DEF RotateVaultKey, TypeOK, Machine
    <3>2. \A a \in Backup \ {b} : backup'[a] = backup[a]
      BY <2>10 DEF RotateVaultKey, TypeOK
    <3>3. b \notin Lost => StateOf(b)'
      BY <2>a, <2>10, <3>1, Moves DEF RotateVaultKey, StateOf, HasState
    <3>4. RotationOf(b)'
      BY <2>10, <3>1, Moves DEF RotateVaultKey, RotationOf, BeforeRotation
    <3> QED
      BY <2>0, <2>10, <3>2, <3>3, <3>4, Moves, Elsewhere DEF RotateVaultKey, Lost
  <2>11. CASE Promote(c)
    <3>1. /\ backup'[b].sealed = backup[b].vault
          /\ UNCHANGED <<backup[b].session, backup[b].db, backup[b].vault>>
      BY <2>0, <2>11 DEF Promote, TypeOK, Machine
    <3>2. \A a \in Backup \ {b} : backup'[a] = backup[a]
      BY <2>11 DEF Promote, TypeOK
    <3>3. /\ At(b, "resealing")
          /\ \A p : p # "ready" /\ At(b, p)' => At(b, p)
          /\ \A p : p # "resealing" /\ At(b, p) => At(b, p)'
          /\ \A d : d.to # c.to /\ d.pc # "ready" => (d \in calls' <=> d \in calls)
      BY <2>11, Ends DEF Promote, At
    <3>4. b \notin Lost => StateOf(b)'
      BY <2>a, <3>1, <3>3 DEF StateOf, HasState
    <3>5. b \notin Lost => RotationOf(b)'
      BY <2>a, <3>1, <3>3 DEF RotationOf, BeforeRotation
    <3> QED
      BY <2>0, <2>11, <3>2, <3>3, <3>4, <3>5, Elsewhere DEF Promote, Lost
  <2> QED
    BY <1>5, <2>1, <2>2, <2>3, <2>4, <2>5, <2>6, <2>7, <2>8, <2>9, <2>10, <2>11 DEF HandlerStep
<1>6. ASSUME NEW g \in Guardian, GuardianStops(g) PROVE Ahead'
  <2>1. \A d \in Call : /\ [d EXCEPT !.waited = FALSE].to = d.to
                        /\ [d EXCEPT !.waited = FALSE].pc = d.pc
    BY DEF Call
  <2>2. ASSUME NEW c \in calls' PROVE \E d \in calls : d.to = c.to /\ d.pc = c.pc
    <3>1. PICK d \in calls : c = IF d.from = g THEN [d EXCEPT !.waited = FALSE] ELSE d
      BY <1>6 DEF GuardianStops
    <3> QED
      BY <2>1, <3>1 DEF TypeOK
  <2>3. ASSUME NEW d \in calls PROVE \E c \in calls' : c.to = d.to /\ c.pc = d.pc
    <3>1. CASE d.from = g
      <4>1. [d EXCEPT !.waited = FALSE] \in calls'
        BY <1>6, <3>1 DEF GuardianStops
      <4> QED
        BY <2>1, <4>1 DEF TypeOK
    <3>2. CASE d.from # g
      BY <1>6, <3>2 DEF GuardianStops
    <3> QED
      BY <3>1, <3>2
  <2> QED
    BY <1>6, <2>2, <2>3, QuietStep DEF GuardianStops, Lost
<1>7. ASSUME NEW b \in Backup, BackupStops(b) PROVE Ahead'
  BY <1>7, QuietStep DEF BackupStops, Lost
<1>8. ASSUME NEW b \in Backup, BackupRestarts(b) PROVE Ahead'
  <2>1. \A a \in Backup \ {b} : backup'[a] = backup[a]
    BY <1>8 DEF BackupRestarts, TypeOK
  <2>2. b \in restarted' /\ Lost \subseteq Lost' /\ promoted' = promoted
    BY <1>8 DEF BackupRestarts, Lost
  <2>3. calls' = {c \in calls : c.to # b}
    BY <1>8 DEF BackupRestarts
  <2> QED
    BY <2>1, <2>2, <2>3, QuietStep DEF Lost
<1>9. CASE UNCHANGED vars
  BY <1>9, QuietStep DEF vars, Lost
<1> QED
  BY <1>1, <1>2, <1>3, <1>4, <1>5, <1>6, <1>7, <1>8, <1>9 DEF Next, GuardianStep, Failure

\* A guardian that is stopped, or is not waiting, waits for no call, and steps
\* of one guardian's calls are none of another's.
LEMMA StepPlan ==
  ASSUME TypeOK, Plan, TypeOK', [Next]_vars
  PROVE  Plan'
<1> DEFINE PlanOf(g) ==
      /\ guardian[g].pc = "waiting" => guardian[g].todo # << >>
      /\ g \in stopped => Waited(g) = {}
      /\ \A c \in Waited(g) : /\ guardian[g].pc = "waiting" /\ c.to = Head(guardian[g].todo)
                             /\ \A d \in Waited(g) : d = c
<1>0. (Plan <=> \A g \in Guardian : PlanOf(g)) /\ (Plan' <=> \A g \in Guardian : PlanOf(g)')
  BY DEF Plan, OneCandidateAtATime
<1>a. ASSUME NEW g \in Guardian, stopped' = stopped, guardian'[g] = guardian[g],
             Waited(g)' = Waited(g), PlanOf(g)
      PROVE  PlanOf(g)'
  BY <1>a
<1>b. ASSUME NEW g \in Guardian, g \notin stopped, stopped' = stopped,
             NEW todo \in Seq(Backup), NEW others, \A c \in others : ~(c.from = g /\ c.waited),
             Contact(g, todo, others)
      PROVE  PlanOf(g)'
  <2>1. CASE todo = << >>
    <3>1. guardian'[g] = [pc |-> "idle", todo |-> << >>]
      BY <1>b, <2>1 DEF Contact, TypeOK
    <3>2. Waited(g)' = {}
      BY <1>b, <2>1 DEF Contact, Waited
    <3> QED
      BY <3>1, <3>2
  <2>2. CASE todo # << >>
    <3>1. guardian'[g] = [pc |-> "waiting", todo |-> todo]
      BY <1>b, <2>2 DEF Contact, TypeOK
    <3>2. Waited(g)' \subseteq {Ready(g, Head(todo))}
      BY <1>b, <2>2 DEF Contact, Waited
    <3>3. Ready(g, Head(todo)).to = Head(todo)
      BY DEF Ready
    <3> QED
      BY <1>b, <2>2, <3>1, <3>2, <3>3
  <2> QED
    BY <2>1, <2>2
<1>c. ASSUME NEW g \in Guardian, NEW h \in Guardian, h # g, NEW todo, NEW others,
             {c \in others : c.from = h /\ c.waited} = Waited(h), Contact(g, todo, others)
      PROVE  guardian'[h] = guardian[h] /\ Waited(h)' = Waited(h)
  <2>1. Ready(g, Head(todo)).from = g
    BY DEF Ready
  <2> QED
    BY <1>c, <2>1 DEF Contact, Waited, TypeOK
<1>1. ASSUME NEW g \in Guardian, Initiate(g) PROVE Plan'
  <2>1. \A c \in calls : ~(c.from = g /\ c.waited)
    BY <1>1 DEF Initiate, Plan, OneCandidateAtATime, Waited
  <2>2. PlanOf(g)'
    BY <1>1, <1>b, <2>1, SuccessionAssumption DEF Initiate
  <2>3. ASSUME NEW h \in Guardian \ {g} PROVE PlanOf(h)'
    BY <1>0, <1>1, <1>a, <1>c DEF Initiate, Waited
  <2> QED
    BY <1>0, <2>2, <2>3
<1>2. ASSUME NEW g \in Guardian, Timeout(g) PROVE Plan'
  <2>1. PICK c \in Waited(g) :
          Contact(g, Tail(guardian[g].todo), (calls \ {c}) \cup {[c EXCEPT !.waited = FALSE]})
    BY <1>2 DEF Timeout
  <2> DEFINE left == [c EXCEPT !.waited = FALSE]
             others == (calls \ {c}) \cup {left}
  <2>2. c \in calls /\ c.from = g /\ left.from = g /\ ~left.waited
    BY DEF Waited, TypeOK, Call
  <2>3. guardian[g].todo # << >> /\ g \notin stopped /\ \A d \in Waited(g) : d = c
    BY DEF Plan, OneCandidateAtATime
  <2>4. /\ \A d \in others : ~(d.from = g /\ d.waited)
        /\ \A h : h # g => {d \in others : d.from = h /\ d.waited} = Waited(h)
    BY <2>2, <2>3 DEF Waited
  <2>5. Contact(g, Tail(guardian[g].todo), others)
    BY <2>1
  <2> HIDE DEF left, others
  <2>6. stopped' = stopped /\ Tail(guardian[g].todo) \in Seq(Backup)
    BY <1>2, <2>3, TailType DEF Timeout
  <2>7. PlanOf(g)'
    BY <1>b, <2>3, <2>4, <2>5, <2>6
  <2>8. ASSUME NEW h \in Guardian \ {g} PROVE PlanOf(h)'
    BY <1>0, <1>a, <1>c, <2>4, <2>5, <2>6
  <2> QED
    BY <1>0, <2>7, <2>8
<1>3. ASSUME NEW g \in Guardian, ConnectionLost(g) PROVE Plan'
  <2>1. \A c \in calls : ~(c.from = g /\ c.waited)
    BY <1>3 DEF ConnectionLost, Waited
  <2>2. Tail(guardian[g].todo) \in Seq(Backup)
    BY <1>3, TailType DEF ConnectionLost, Plan
  <2>3. PlanOf(g)'
    BY <1>3, <1>b, <2>1, <2>2 DEF ConnectionLost
  <2>4. ASSUME NEW h \in Guardian \ {g} PROVE PlanOf(h)'
    BY <1>0, <1>3, <1>a, <1>c DEF ConnectionLost, Waited
  <2> QED
    BY <1>0, <2>3, <2>4
<1>4. ASSUME NEW g \in Guardian, StandDown(g) PROVE Plan'
  <2>1. Waited(g)' = {}
    BY <1>4 DEF StandDown, Plan, OneCandidateAtATime, Waited
  <2>2. guardian'[g].pc = "idle"
    BY <1>4 DEF StandDown, TypeOK
  <2>3. ASSUME NEW h \in Guardian \ {g} PROVE PlanOf(h)'
    BY <1>0, <1>4, <1>a DEF StandDown, Waited, TypeOK
  <2> QED
    BY <1>0, <2>1, <2>2, <2>3
\* A handler that moves a call on leaves its guardian waiting for it.
<1>d. ASSUME NEW c \in calls, NEW d, d.from = c.from, d.to = c.to, d.waited = c.waited,
             calls' = (calls \ {c}) \cup {d}, UNCHANGED <<stopped, guardian>>
      PROVE  Plan'
  <2>1. ASSUME NEW g \in Guardian, g # c.from PROVE PlanOf(g)'
    <3>1. Waited(g)' = Waited(g)
      BY <1>d, <2>1 DEF Waited
    <3> QED
      BY <1>0, <1>d, <1>a, <3>1
  <2>2. ASSUME c.waited, NEW g \in Guardian, g = c.from PROVE PlanOf(g)'
    <3>1. c \in Waited(g)
      BY <2>2 DEF Waited
    <3>2. /\ guardian[g].pc = "waiting" /\ guardian[g].todo # << >> /\ g \notin stopped
          /\ c.to = Head(guardian[g].todo) /\ \A e \in Waited(g) : e = c
      BY <3>1 DEF Plan, OneCandidateAtATime
    <3>3. Waited(g)' = {d}
      BY <1>d, <2>2, <3>2 DEF Waited
    <3> QED
      BY <1>d, <3>2, <3>3
  <2>3. ASSUME ~c.waited, NEW g \in Guardian, g = c.from PROVE PlanOf(g)'
    <3>1. Waited(g)' = Waited(g)
      BY <1>d, <2>3 DEF Waited
    <3> QED
      BY <1>0, <1>d, <1>a, <3>1
  <2> QED
    BY <1>0, <2>1, <2>2, <2>3
\* A call that fails sends its guardian to the next candidate.
<1>e. ASSUME NEW c \in calls, Refused(c), stopped' = stopped PROVE Plan'
  <2>1. c.from \in Guardian
    BY DEF TypeOK, Call
  <2>2. CASE c.waited
    <3>1. c \in Waited(c.from)
      BY <2>2 DEF Waited
    <3>2. /\ guardian[c.from].todo # << >> /\ c.from \notin stopped
          /\ \A d \in Waited(c.from) : d = c
      BY <2>1, <3>1 DEF Plan, OneCandidateAtATime
    <3>3. /\ \A d \in calls \ {c} : ~(d.from = c.from /\ d.waited)
          /\ \A h : h # c.from => {d \in calls \ {c} : d.from = h /\ d.waited} = Waited(h)
      BY <3>2 DEF Waited
    <3>4. Tail(guardian[c.from].todo) \in Seq(Backup)
      BY <2>1, <3>2, TailType
    <3>5. Contact(c.from, Tail(guardian[c.from].todo), calls \ {c})
      BY <1>e, <2>2 DEF Refused
    <3>6. PlanOf(c.from)'
      BY <1>b, <1>e, <2>1, <3>2, <3>3, <3>4, <3>5
    <3>7. ASSUME NEW h \in Guardian \ {c.from} PROVE PlanOf(h)'
      BY <1>0, <1>a, <1>c, <1>e, <2>1, <3>3, <3>5
    <3> QED
      BY <1>0, <3>6, <3>7
  <2>3. CASE ~c.waited
    <3>1. \A g \in Guardian : Waited(g)' = Waited(g)
      BY <1>e, <2>3 DEF Refused, Waited
    <3> QED
      BY <1>0, <1>a, <1>e, <2>3, <3>1 DEF Refused
  <2> QED
    BY <2>2, <2>3
<1>5. ASSUME NEW c \in calls, HandlerStep(c) PROVE Plan'
  <2>0. c \in Call /\ c.from \in Guardian /\ c.waited \in BOOLEAN
    BY DEF TypeOK, Call
  <2>1. \A pc : /\ [c EXCEPT !.pc = pc].from = c.from /\ [c EXCEPT !.pc = pc].to = c.to
               /\ [c EXCEPT !.pc = pc].waited = c.waited
    BY <2>0 DEF Call
  <2>2. ASSUME NEW k \in Session, HandleReady(c, k) PROVE Plan'
    <3>1. CASE c.waited
      <4> DEFINE d == [c EXCEPT !.key = k,
                               !.pc = IF c.from \in large THEN "oversized" ELSE "confirm"]
      <4>1. d.from = c.from /\ d.to = c.to /\ d.waited = c.waited
        BY <2>0 DEF Call
      <4>2. calls' = (calls \ {c}) \cup {d}
        BY <2>2, <3>1 DEF HandleReady
      <4> HIDE DEF d
      <4> QED
        BY <1>d, <2>2, <4>1, <4>2 DEF HandleReady
    <3>2. CASE ~c.waited
      <4>1. \A g \in Guardian : Waited(g)' = Waited(g)
        BY <2>2, <3>2 DEF HandleReady, Waited
      <4> QED
        BY <1>0, <1>a, <2>2, <4>1 DEF HandleReady
    <3> QED
      BY <3>1, <3>2
  <2>3. ASSUME NEW pc, MovesTo(c, pc), UNCHANGED <<stopped, guardian>> PROVE Plan'
    BY <1>d, <2>1, <2>3 DEF MovesTo
  <2>4. CASE RefuseBody(c) \/ CannotUnwrap(c)
    BY <1>e, <2>4 DEF RefuseBody, CannotUnwrap
  <2>5. CASE Unwrap(c) \/ Seal(c) \/ ApplySnapshot(c) \/ RotateVaultKey(c)
    BY <2>3, <2>5 DEF Unwrap, Seal, ApplySnapshot, RotateVaultKey
  <2>6. CASE SkipPayload(c)
    BY <1>e, <2>3, <2>6 DEF SkipPayload
  <2>7. CASE Reinitialize(c)
    BY <1>e, <2>3, <2>7 DEF Reinitialize
  <2>8. CASE RecordSuccession(c)
    BY <1>e, <2>3, <2>8 DEF RecordSuccession
  <2>9. CASE Promote(c)
    <3>1. ASSUME NEW g \in Guardian, g # c.from \/ ~c.waited PROVE PlanOf(g)'
      <4>1. Waited(g)' = Waited(g)
        BY <2>9, <3>1 DEF Promote, Waited
      <4>2. guardian'[g] = guardian[g]
        BY <2>9, <3>1 DEF Promote, TypeOK
      <4> QED
        BY <1>0, <1>a, <2>9, <4>1, <4>2 DEF Promote
    <3>2. ASSUME c.waited PROVE PlanOf(c.from)'
      <4>1. guardian'[c.from].pc = "standing"
        BY <2>0, <2>9, <3>2 DEF Promote, TypeOK
      <4>2. \A d \in Waited(c.from) : d = c
        BY <2>0, <3>2 DEF Plan, OneCandidateAtATime, Waited
      <4>3. Waited(c.from)' = {}
        BY <2>9, <4>2 DEF Promote, Waited
      <4> QED
        BY <4>1, <4>3
    <3> QED
      BY <1>0, <2>0, <3>1, <3>2
  <2> QED
    BY <1>5, <2>2, <2>3, <2>4, <2>5, <2>6, <2>7, <2>8, <2>9 DEF HandlerStep
<1>6. ASSUME NEW g \in Guardian, GuardianStops(g) PROVE Plan'
  <2>1. \A d \in calls : /\ [d EXCEPT !.waited = FALSE].from = d.from
                         /\ ~[d EXCEPT !.waited = FALSE].waited
    BY DEF TypeOK, Call
  <2>2. Waited(g)' = {}
    BY <1>6, <2>1 DEF GuardianStops, Waited
  <2>3. \A h \in Guardian : h # g => Waited(h)' = Waited(h)
    BY <1>6, <2>1 DEF GuardianStops, Waited
  <2>4. guardian' = guardian /\ stopped' = stopped \cup {g}
    BY <1>6 DEF GuardianStops
  <2> QED
    BY <1>0, <2>2, <2>3, <2>4
<1>7. ASSUME NEW b \in Backup, BackupStops(b) PROVE Plan'
  <2>1. \A g \in Guardian : Waited(g)' \subseteq Waited(g)
    BY <1>7 DEF BackupStops, Waited
  <2>2. \A g \in Guardian : g \in stopped' <=> g \in stopped
    BY <1>7, SuccessionAssumption DEF BackupStops
  <2> QED
    BY <1>0, <1>7, <2>1, <2>2 DEF BackupStops
<1>8. ASSUME NEW b \in Backup, BackupRestarts(b) PROVE Plan'
  <2>1. \A g \in Guardian : Waited(g)' \subseteq Waited(g)
    BY <1>8 DEF BackupRestarts, Waited
  <2>2. \A g \in Guardian : g \in stopped' <=> g \in stopped
    BY <1>8, SuccessionAssumption DEF BackupRestarts
  <2> QED
    BY <1>0, <1>8, <2>1, <2>2 DEF BackupRestarts
<1>9. CASE UNCHANGED vars
  BY <1>9 DEF Plan, OneCandidateAtATime, Waited, vars
<1> QED
  BY <1>1, <1>2, <1>3, <1>4, <1>5, <1>6, <1>7, <1>8, <1>9 DEF Next, GuardianStep, Failure

LEMMA StepInv == IInv /\ [Next]_vars => IInv'
BY StepType, StepPlan, StepAhead DEF IInv

-----------------------------------------------------------------------------
(***************************************************************************)
(* The theorems                                                            *)
(***************************************************************************)

\* Types, plans, and what every await guarantees, in every reachable state.
THEOREM Invariance == Spec => []IInv
BY InitInv, StepInv, PTL DEF Spec

\* The variables of the succession always have their types.
THEOREM TypeCorrect == Spec => []TypeOK
<1>1. IInv => TypeOK
  BY DEF IInv
<1> QED
  BY <1>1, Invariance, PTL

\* A guardian waits for one candidate at a time, the first it has not tried,
\* whatever the time-outs (initiate and initiateSuccession).
THEOREM OneCandidate == Spec => []OneCandidateAtATime
<1>1. IInv => OneCandidateAtATime
  BY DEF IInv, Plan
<1> QED
  BY <1>1, Invariance, PTL

\* A backup takes the role (handleBackupConfirm) only with the fleet's state in
\* its database, or about to be written there by another confirmation, however
\* many guardians offer it at once, unless it restarted or two wrote at once.
THEOREM StateBeforeRole == Spec => []PromotedHasState
<1>1. IInv => PromotedHasState
  <2> SUFFICES ASSUME IInv, NEW b \in promoted \ (restarted \cup crossed \cup stopped)
               PROVE  backup[b].db = "state" \/ (backup[b].db = "closed" /\ Writers(b) # {})
    BY DEF PromotedHasState
  <2>1. StateOf(b)
    BY DEF IInv, TypeOK, Ahead, Lost
  <2>2. At(b, "writing") => Writers(b) # {}
    BY DEF At, Writers
  <2> QED
    BY <2>1, <2>2 DEF StateOf, HasState
<1> QED
  BY <1>1, Invariance, PTL

\* When the last confirmation at a new primary is done it uses, and has sealed,
\* a key of its own (rotateVaultKey), whoever's confirmation that was, and
\* whichever failed because another had closed the database.
THEOREM KeyRotation == Spec => []KeyIsRotated
<1>1. IInv => KeyIsRotated
  <2> SUFFICES ASSUME IInv, NEW b \in promoted \ (restarted \cup crossed \cup stopped),
                      \A c \in calls : c.to = b => c.pc \in {"ready", "confirm", "oversized"}
               PROVE  backup[b].vault = "rotated" /\ backup[b].sealed = "rotated"
    BY DEF KeyIsRotated
  <2>1. ~BeforeRotation(b) /\ ~At(b, "resealing")
    BY DEF BeforeRotation, At
  <2> QED
    BY <2>1 DEF IInv, TypeOK, Ahead, Lost, RotationOf
<1> QED
  BY <1>1, Invariance, PTL
=============================================================================
