----------------------------- MODULE Succession -----------------------------
(***************************************************************************)
(* Succession: the primary falls silent and guardians, each on its own,    *)
(* hand its state and vault key to a backup.                               *)
(*                                                                         *)
(* A guardian that has missed enough pings walks through its ranking of    *)
(* standby backups.  It asks a candidate to get ready, which makes the     *)
(* candidate open a key session, and sends it the vault key wrapped for    *)
(* that session with a snapshot; the candidate stores both, rotates the    *)
(* key and becomes primary.  Both calls have a time-out that ends the      *)
(* guardian's wait and not the candidate's work, and a candidate has room  *)
(* for one session, whichever guardian opened it.                          *)
(*                                                                         *)
(* The candidate closes its database, waits for the file to be written and *)
(* opens it again.  What two writes at once, or a crash within one, leave  *)
(* may be the snapshot, an empty database or a file that is none.  A       *)
(* request carries the whole database and is refused above 100 kB.         *)
(*                                                                         *)
(* Not here: the measurement check of candidates (its config key is never  *)
(* set in this repository), the update of the registry (the agent passes   *)
(* its handlers no registry client), and files that cannot be written.     *)
(* Guardians that missed the rotation keep the fleet's old key.            *)
(***************************************************************************)
EXTENDS Naturals, Sequences, FiniteSets

CONSTANTS
  Guardian, Backup,
  Ranking,     \* each guardian's candidates, best first
  Session,     \* numbers for key sessions
  MaxTimeout,  \* bound: time-outs of calls
  MaxRestart,  \* bound: backups that restart
  MaxStop,     \* bound: machines that stop
  MaxLarge     \* bound: guardians whose database does not fit a request

ASSUME SuccessionAssumption ==
  /\ Guardian \cap Backup = {}
  /\ Ranking \in [Guardian -> Seq(Backup)]
  /\ Session \subseteq Nat \ {0}
  /\ {MaxTimeout, MaxRestart, MaxStop, MaxLarge} \subseteq Nat

VARIABLES
  stopped,   \* machines that stopped for good
  guardian,  \* where each guardian stands, and the candidates it has left
  calls,     \* requests a backup has not finished, waited for or not
  backup,    \* each backup's session, keys and database
  large,     \* guardians whose database does not fit a request
  promoted,  \* history: backups that took the role
  crossed,   \* history: backups whose file two confirmations wrote at once
  restarted, \* backups that restarted
  timeouts   \* time-outs so far

vars == <<stopped, guardian, calls, backup, large, promoted, crossed, restarted, timeouts>>

NoSession == 0

Call == [from : Guardian, to : Backup, key : {NoSession} \cup Session, waited : BOOLEAN,
         pc : {"ready", "confirm", "oversized", "sealing", "applying", "writing",
               "recording", "rotating", "resealing"}]

Place == [pc : {"idle", "waiting", "standing"}, todo : Seq(Backup)]

\* Keys: the backup's own, the one the guardians hold, and one it made itself.
Keys == {"own", "fleet", "rotated"}

\* Databases: the backup's own, the fleet's, and what a write may leave besides.
Left == {"state", "empty", "torn"}
Databases == {"own", "closed"} \cup Left

Machine == [session : {NoSession} \cup Session, vault : Keys, sealed : Keys, db : Databases]

FreshBackup == [session |-> NoSession, vault |-> "own", sealed |-> "own", db |-> "own"]

Init ==
  /\ stopped = {}
  /\ guardian = [g \in Guardian |-> [pc |-> "idle", todo |-> << >>]]
  /\ calls = {}
  /\ backup = [b \in Backup |-> FreshBackup]
  /\ large \in SUBSET Guardian /\ Cardinality(large) <= MaxLarge
  /\ promoted = {} /\ crossed = {} /\ restarted = {} /\ timeouts = 0

-----------------------------------------------------------------------------
\* The guardian.  A step that ends one candidate begins the next.

Ready(g, b) == [from |-> g, to |-> b, key |-> NoSession, waited |-> TRUE, pc |-> "ready"]

\* Go on with these candidates, in a world with these calls.
Contact(g, todo, others) ==
  IF todo = << >>
  THEN /\ guardian' = [guardian EXCEPT ![g] = [pc |-> "idle", todo |-> << >>]]
       /\ calls' = others
  ELSE /\ guardian' = [guardian EXCEPT ![g] = [pc |-> "waiting", todo |-> todo]]
       /\ calls' = others \cup (IF Head(todo) \in stopped THEN {} ELSE {Ready(g, Head(todo))})

\* Mutant: the flag is not looked at.
InitiateAgain(g) ==
  /\ g \notin stopped
  /\ Contact(g, Ranking[g], calls)
  /\ UNCHANGED <<stopped, backup, large, promoted, crossed, restarted, timeouts>>

\* It is noted in the guardian's database, which may outgrow a request.
Initiate(g) ==
  /\ g \notin stopped /\ guardian[g].pc = "idle"
  /\ Contact(g, Ranking[g], calls)
  /\ large' \in {large, large \cup {g}} /\ Cardinality(large') <= MaxLarge
  /\ UNCHANGED <<stopped, backup, promoted, crossed, restarted, timeouts>>

Waited(g) == {c \in calls : c.from = g /\ c.waited}

\* The candidate goes on with a call nobody waits for any more.
Timeout(g) ==
  /\ timeouts < MaxTimeout
  /\ \E c \in Waited(g) :
       Contact(g, Tail(guardian[g].todo), (calls \ {c}) \cup {[c EXCEPT !.waited = FALSE]})
  /\ timeouts' = timeouts + 1
  /\ UNCHANGED <<stopped, backup, large, promoted, crossed, restarted>>

\* Mutant: the other candidates are not tried.
ConnectionLostEnds(g) ==
  /\ g \notin stopped /\ guardian[g].pc = "waiting" /\ Waited(g) = {}
  /\ Contact(g, << >>, calls)
  /\ UNCHANGED <<stopped, backup, large, promoted, crossed, restarted, timeouts>>

\* The candidate is down, or was when the call arrived.
ConnectionLost(g) ==
  /\ g \notin stopped /\ guardian[g].pc = "waiting" /\ Waited(g) = {}
  /\ Contact(g, Tail(guardian[g].todo), calls)
  /\ UNCHANGED <<stopped, backup, large, promoted, crossed, restarted, timeouts>>

\* Mutant: no deadline.
StandDownForPrimary(g) ==
  /\ g \notin stopped /\ guardian[g].pc = "standing" /\ promoted \ stopped # {}
  /\ guardian' = [guardian EXCEPT ![g] = [pc |-> "idle", todo |-> << >>]]
  /\ UNCHANGED <<stopped, calls, backup, large, promoted, crossed, restarted, timeouts>>

\* A new primary is registered, or two minutes have passed.
StandDown(g) ==
  /\ g \notin stopped /\ guardian[g].pc = "standing"
  /\ guardian' = [guardian EXCEPT ![g] = [pc |-> "idle", todo |-> << >>]]
  /\ UNCHANGED <<stopped, calls, backup, large, promoted, crossed, restarted, timeouts>>

-----------------------------------------------------------------------------
\* The backup.

InUse(b) == {backup[b].session} \cup {c.key : c \in {d \in calls : d.to = b}}

\* A database that takes queries.
Usable(b) == backup[b].db \notin {"closed", "torn"}

\* The confirmation fails: a guardian that waits for it tries the next candidate.
Refused(c) ==
  IF c.waited THEN Contact(c.from, Tail(guardian[c.from].todo), calls \ {c})
              ELSE calls' = calls \ {c} /\ UNCHANGED guardian

MovesTo(c, pc) == calls' = (calls \ {c}) \cup {[c EXCEPT !.pc = pc]}

\* handleBackupReady: the new session replaces the pending one, whoever holds
\* it.  A guardian that still waits wraps the key for it and sends the payload.
HandleReady(c, k) ==
  /\ c \in calls /\ c.pc = "ready"
  /\ k \notin InUse(c.to) /\ \A j \in Session : j < k => j \in InUse(c.to)
  /\ backup' = [backup EXCEPT ![c.to].session = k]
  /\ calls'  = (calls \ {c}) \cup
       (IF c.waited
        THEN {[c EXCEPT !.key = k, !.pc = IF c.from \in large THEN "oversized" ELSE "confirm"]}
        ELSE {})
  /\ UNCHANGED <<stopped, guardian, large, promoted, crossed, restarted, timeouts>>

\* The body is over the limit, and the handler never sees it.
RefuseBody(c) ==
  /\ c \in calls /\ c.pc = "oversized"
  /\ Refused(c)
  /\ UNCHANGED <<stopped, backup, large, promoted, crossed, restarted, timeouts>>

\* Mutant: the wrapped key is stored.
StoreWrapped(c) ==
  /\ c \in calls /\ c.pc = "confirm" /\ backup[c.to].session = c.key
  /\ backup' = [backup EXCEPT ![c.to].vault = "wrapped"]
  /\ MovesTo(c, "sealing")
  /\ UNCHANGED <<stopped, guardian, large, promoted, crossed, restarted, timeouts>>

\* handleBackupConfirm, with the payload wrapped for the pending session,
Unwrap(c) ==
  /\ c \in calls /\ c.pc = "confirm" /\ backup[c.to].session = c.key
  /\ backup' = [backup EXCEPT ![c.to].vault = "fleet"]
  /\ MovesTo(c, "sealing")
  /\ UNCHANGED <<stopped, guardian, large, promoted, crossed, restarted, timeouts>>

\* for another one, which cannot be unwrapped,
CannotUnwrap(c) ==
  /\ c \in calls /\ c.pc = "confirm" /\ backup[c.to].session \notin {c.key, NoSession}
  /\ Refused(c)
  /\ UNCHANGED <<stopped, backup, large, promoted, crossed, restarted, timeouts>>

\* or with no session pending: the payload is left aside, the rest is done.
SkipPayload(c) ==
  /\ c \in calls /\ c.pc = "confirm" /\ backup[c.to].session = NoSession
  /\ IF Usable(c.to) THEN MovesTo(c, "recording") /\ UNCHANGED guardian ELSE Refused(c)
  /\ UNCHANGED <<stopped, backup, large, promoted, crossed, restarted, timeouts>>

\* Sealing writes the key of the moment, not the one of its caller.
Seal(c) ==
  /\ c \in calls /\ c.pc = "sealing"
  /\ backup' = [backup EXCEPT ![c.to].sealed = backup[c.to].vault]
  /\ MovesTo(c, "applying")
  /\ UNCHANGED <<stopped, guardian, large, promoted, crossed, restarted, timeouts>>

Writers(b) == {c \in calls : c.to = b /\ c.pc = "writing"}

\* Mutant: the session is closed and the snapshot left aside.
ApplyNothing(c) ==
  /\ c \in calls /\ c.pc = "applying"
  /\ backup' = [backup EXCEPT ![c.to].session = NoSession]
  /\ MovesTo(c, "recording")
  /\ UNCHANGED <<stopped, guardian, large, promoted, crossed, restarted, timeouts>>

\* applySnapshot: the database is closed and the file is being written,
ApplySnapshot(c) ==
  /\ c \in calls /\ c.pc = "applying"
  /\ backup'  = [backup EXCEPT ![c.to].db = "closed"]
  /\ crossed' = crossed \cup (IF Writers(c.to) # {} THEN {c.to} ELSE {})
  /\ MovesTo(c, "writing")
  /\ UNCHANGED <<stopped, guardian, large, promoted, restarted, timeouts>>

\* written and opened again, which fails if it is no database.
Reinitialize(c) ==
  /\ c \in calls /\ c.pc = "writing"
  /\ \E db \in IF c.to \in crossed THEN Left ELSE {"state"} :
       IF db = "torn"
       THEN Refused(c) /\ backup' = [backup EXCEPT ![c.to].db = db]
       ELSE /\ MovesTo(c, "recording") /\ UNCHANGED guardian
            /\ backup' = [backup EXCEPT ![c.to].db = db, ![c.to].session = NoSession]
  /\ UNCHANGED <<stopped, large, promoted, crossed, restarted, timeouts>>

\* The succession is noted in the database, if no other call has closed it.
RecordSuccession(c) ==
  /\ c \in calls /\ c.pc = "recording"
  /\ IF Usable(c.to) THEN MovesTo(c, "rotating") /\ UNCHANGED guardian ELSE Refused(c)
  /\ UNCHANGED <<stopped, backup, large, promoted, crossed, restarted, timeouts>>

\* Mutant: a primary that has rotated its key once keeps the one it has.
RotateOnce(c) ==
  /\ c \in calls /\ c.pc = "rotating"
  /\ backup' = IF c.to \in promoted THEN backup
               ELSE [backup EXCEPT ![c.to].vault = "rotated"]
  /\ MovesTo(c, "resealing")
  /\ UNCHANGED <<stopped, guardian, large, promoted, crossed, restarted, timeouts>>

\* Every guardian was asked and refused the new key; it is used all the same.
RotateVaultKey(c) ==
  /\ c \in calls /\ c.pc = "rotating"
  /\ backup' = [backup EXCEPT ![c.to].vault = "rotated"]
  /\ MovesTo(c, "resealing")
  /\ UNCHANGED <<stopped, guardian, large, promoted, crossed, restarted, timeouts>>

Promote(c) ==
  /\ c \in calls /\ c.pc = "resealing"
  /\ backup'   = [backup EXCEPT ![c.to].sealed = backup[c.to].vault]
  /\ promoted' = promoted \cup {c.to}
  /\ calls'    = calls \ {c}
  /\ guardian' = IF c.waited
                  THEN [guardian EXCEPT ![c.from] = [pc |-> "standing", todo |-> << >>]]
                  ELSE guardian
  /\ UNCHANGED <<stopped, large, crossed, restarted, timeouts>>

-----------------------------------------------------------------------------
\* Failures.

GuardianStops(g) ==
  /\ g \notin stopped /\ Cardinality(stopped) < MaxStop
  /\ stopped' = stopped \cup {g}
  /\ calls' = {IF c.from = g THEN [c EXCEPT !.waited = FALSE] ELSE c : c \in calls}
  /\ UNCHANGED <<guardian, backup, large, promoted, crossed, restarted, timeouts>>

BackupStops(b) ==
  /\ b \notin stopped /\ Cardinality(stopped) < MaxStop
  /\ stopped' = stopped \cup {b}
  /\ calls' = {c \in calls : c.to # b}
  /\ UNCHANGED <<guardian, backup, large, promoted, crossed, restarted, timeouts>>

\* What was sealed and written survives; the session and running calls do not.
\* A machine that finds no database in its file does not come up again.
BackupRestarts(b) ==
  /\ b \notin stopped \cup restarted /\ Cardinality(restarted) < MaxRestart
  /\ restarted' = restarted \cup {b}
  /\ \E db \in IF backup[b].db = "closed" \/ b \in crossed THEN Left ELSE {backup[b].db} :
       /\ backup' = [backup EXCEPT ![b] = [session |-> NoSession, vault |-> backup[b].sealed,
                                           sealed |-> backup[b].sealed, db |-> db]]
       /\ stopped' = stopped \cup (IF db = "torn" THEN {b} ELSE {})
  /\ calls' = {c \in calls : c.to # b}
  /\ UNCHANGED <<guardian, large, promoted, crossed, timeouts>>

-----------------------------------------------------------------------------
GuardianStep(g) ==
  Initiate(g) \/ Timeout(g) \/ ConnectionLost(g) \/ StandDown(g)

HandlerStep(c) ==
  \/ \E k \in Session : HandleReady(c, k)
  \/ RefuseBody(c) \/ Unwrap(c) \/ CannotUnwrap(c) \/ SkipPayload(c)
  \/ Seal(c) \/ ApplySnapshot(c) \/ Reinitialize(c) \/ RecordSuccession(c)
  \/ RotateVaultKey(c) \/ Promote(c)

Failure ==
  \/ \E g \in Guardian : GuardianStops(g)
  \/ \E b \in Backup : BackupStops(b) \/ BackupRestarts(b)

Next ==
  \/ \E g \in Guardian : GuardianStep(g)
  \/ \E c \in calls : HandlerStep(c)
  \/ Failure

Spec == Init /\ [][Next]_vars

\* No ping comes any more and the guardians' timers run; connections to dead
\* machines break; a handler that is waited for goes on.
FairSpec ==
  /\ Spec
  /\ \A g \in Guardian :
       /\ WF_vars(Initiate(g)) /\ WF_vars(ConnectionLost(g)) /\ WF_vars(StandDown(g))
       /\ WF_vars(\E c \in Waited(g) : HandlerStep(c))

-----------------------------------------------------------------------------
(***************************************************************************)
(* Properties                                                              *)
(***************************************************************************)

TypeOK ==
  /\ stopped \subseteq Guardian \cup Backup
  /\ guardian \in [Guardian -> Place]
  /\ calls \subseteq Call
  /\ backup \in [Backup -> Machine]
  /\ large \subseteq Guardian
  /\ promoted \subseteq Backup /\ crossed \subseteq Backup /\ restarted \subseteq Backup
  /\ timeouts \in Nat

\* The call a guardian waits for is the only one, and goes to the candidate it
\* has come to: time-outs leave calls running, but nobody hears their answers.
OneCandidateAtATime ==
  \A g \in Guardian : \A c \in Waited(g) :
    /\ guardian[g].pc = "waiting" /\ c.to = Head(guardian[g].todo)
    /\ \A d \in Waited(g) : d = c

\* A new primary's database is the fleet's, or is being written over by another
\* confirmation that brings it, however sessions and confirmations of several
\* guardians overlap, but for two writes at once, which may leave anything, and
\* a restart, which loses the session, so that the payload is left aside.
PromotedHasState ==
  \A b \in promoted \ (restarted \cup crossed \cup stopped) :
    \/ backup[b].db = "state"
    \/ backup[b].db = "closed" /\ Writers(b) # {}

\* When its last confirmation is done, a new primary uses, and will find after
\* a restart, a key of its own making: nobody who held the old one can read on.
\* (After two writes at once a confirmation may fail between the two keys.)
KeyIsRotated ==
  \A b \in promoted \ (restarted \cup crossed \cup stopped) :
    (\A c \in calls : c.to = b => c.pc \in {"ready", "confirm", "oversized"}) =>
      backup[b].vault = "rotated" /\ backup[b].sealed = "rotated"

\* A succession ends: no guardian waits or stands by for ever.
SuccessionSettles ==
  \A g \in Guardian : guardian[g].pc # "idle" ~> guardian[g].pc = "idle" \/ g \in stopped

\* If the primary is gone and one guardian is left, whose database fits a
\* request, one of its candidates takes over, if one stays up and two writes
\* never meet there.  (Two guardians may for ever replace each other's sessions;
\* a guardian whose database does not fit is refused by everyone, for ever.)
SomeoneTakesOver ==
  \A g \in Guardian :
    <>[](/\ stopped \cap Guardian = Guardian \ {g} /\ g \notin large
         /\ \E i \in DOMAIN Ranking[g] : Ranking[g][i] \notin stopped \cup crossed)
      => <>(promoted # {})

-----------------------------------------------------------------------------
\* A claim of a comment that the interleavings contradict.

\* selector.ts: guardians with the same ranking "always converge on the same
\* target", so no two machines up were both promoted.
OneSuccessor == \A a, b \in promoted \ stopped : a = b
=============================================================================
