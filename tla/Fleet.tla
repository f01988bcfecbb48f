-------------------------------- MODULE Fleet --------------------------------
(***************************************************************************)
(* AutonomousGuardianManager: it keeps two guardians and a backup running  *)
(* by creating machines, and takes its own guardians down when there are   *)
(* more than three.                                                        *)
(*                                                                         *)
(* evaluate looks at the database once and then awaits the creation or the *)
(* stop of machines; other guardians and backups may be admitted in        *)
(* between.  A request that fails ends the whole evaluation.  A guardian   *)
(* counts as active from its creation on.                                  *)
(*                                                                         *)
(* index.ts makes the manager and does not call it ("auto-provisioning     *)
(* DISABLED"); the model calls evaluate again and again, one at a time.    *)
(* Guardians and backups are counted.  restartGuardian has no caller and   *)
(* is left out.  MaxExternal, MaxBackup and MaxFail are bounds of the      *)
(* model.                                                                  *)
(***************************************************************************)
EXTENDS Naturals

CONSTANTS MaxExternal, MaxBackup, MaxFail

FleetAssumption == MaxExternal \in Nat /\ MaxBackup \in Nat /\ MaxFail \in Nat

VARIABLES
  own, external,  \* active rows of each origin in the guardians table
  stable,         \* the external ones seen lately
  pending,        \* guardian_provisioning_pending is set
  deficit,        \* guardian_deficit_since: no, new or old
  backups,        \* rows in standby
  ownBackup,      \* agent_backup_vm_id is set
  pendingBackup,  \* backup_provisioning_pending: no, new or old
  backupDeficit,  \* backup_deficit_since: no, new or old
  work,           \* what evaluate is at, and how many machines are to go
  ready,          \* backup_rtmr3 is set and the start-up delay has passed
  failures

guardians == <<own, external, stable, pending, deficit>>
standby   == <<backups, ownBackup, pendingBackup, backupDeficit>>
vars      == <<guardians, standby, work, ready, failures>>

Idle == [pc |-> "idle", left |-> 0]
At(pc, n) == work' = [pc |-> pc, left |-> n]

Init ==
  /\ own = 0 /\ external \in 0..MaxExternal /\ stable = 0
  /\ pending = FALSE /\ deficit = "no"
  /\ backups = 0 /\ ownBackup = FALSE
  /\ pendingBackup = "no" /\ backupDeficit = "no"
  /\ work = Idle /\ ready = FALSE /\ failures = 0

Total == own + external
Smaller(a, b) == IF a < b THEN a ELSE b

-----------------------------------------------------------------------------
\* The surroundings.
Ready ==
  /\ ~ready /\ ready' = TRUE
  /\ UNCHANGED <<guardians, standby, work, failures>>

Aged(age) == IF age = "new" THEN "old" ELSE age

\* DEFICIT_DELAY_MS passes; a pending backup is old after ten minutes.
Delay ==
  /\ deficit' = Aged(deficit) /\ backupDeficit' = Aged(backupDeficit)
  /\ pendingBackup' \in {pendingBackup, Aged(pendingBackup)}
  /\ UNCHANGED <<own, external, stable, pending, backups, ownBackup, work, ready, failures>>

\* An admission writes a row of its own, also for a machine that has one
\* from its creation, because its identity is another.
AdmitGuardian ==
  /\ external < MaxExternal /\ external' = external + 1 /\ stable' = stable + 1
  /\ UNCHANGED <<own, pending, deficit, standby, work, ready, failures>>

StableChanges ==
  /\ stable' \in 0..external
  /\ UNCHANGED <<own, external, pending, deficit, standby, work, ready, failures>>

BackupsChange ==
  /\ backups' \in 0..MaxBackup
  /\ UNCHANGED <<guardians, ownBackup, pendingBackup, backupDeficit, work, ready, failures>>

-----------------------------------------------------------------------------
Needed == 2 - Total

\* Mutant: two guardians are enough to stay.
ExcessOverTwo == Total - 2

Excess == Total - 3

\* Mutant: the time of the deficit is noted again at every look.
NeverDue(age) == age = "never"

Due(age) == age = "old"

\* evaluate, up to the first thing it awaits.
Evaluate ==
  /\ work = Idle /\ ready
  /\ \/ /\ Total < 2
        /\ IF pending THEN UNCHANGED deficit /\ At("backups", 0)
           ELSE IF Due(deficit) THEN UNCHANGED deficit /\ At("provision", Needed)
           ELSE deficit' = "new" /\ At("backups", 0)
        /\ UNCHANGED pending
     \/ /\ Total >= 2
        /\ deficit' = "no" /\ pending' = FALSE
        /\ IF Total > 3 /\ stable >= 2
           THEN At("deprovision", Smaller(Excess, own)) ELSE At("backups", 0)
  /\ UNCHANGED <<own, external, stable, standby, ready, failures>>

ProvisionGuardian ==
  /\ work.pc = "provision" /\ work.left > 0
  /\ own' = own + 1 /\ pending' = TRUE
  /\ At("provision", work.left - 1)
  /\ UNCHANGED <<external, stable, deficit, standby, ready, failures>>

Provisioned ==
  /\ work.pc = "provision" /\ work.left = 0
  /\ deficit' = "no" /\ At("backups", 0)
  /\ UNCHANGED <<own, external, stable, pending, standby, ready, failures>>

DeprovisionGuardian ==
  /\ work.pc = "deprovision"
  /\ IF work.left > 0
     THEN own' = own - 1 /\ At("deprovision", work.left - 1)
     ELSE UNCHANGED own /\ At("backups", 0)
  /\ UNCHANGED <<external, stable, pending, deficit, standby, ready, failures>>

\* The second half, with the backups as they are by now.  The stop of the
\* agent's own backup may fail.
LookAtBackups ==
  /\ work.pc = "backups"
  /\ \/ /\ backups = 0 /\ UNCHANGED ownBackup
        /\ IF pendingBackup = "old"
           THEN pendingBackup' = "no" /\ work' = Idle /\ UNCHANGED backupDeficit
           ELSE IF pendingBackup = "new"
           THEN work' = Idle /\ UNCHANGED <<pendingBackup, backupDeficit>>
           ELSE IF backupDeficit = "old"
           THEN At("provisionBackup", 1) /\ UNCHANGED <<pendingBackup, backupDeficit>>
           ELSE backupDeficit' = "new" /\ work' = Idle /\ UNCHANGED pendingBackup
     \/ /\ backups > 0
        /\ backupDeficit' = "no" /\ pendingBackup' = "no" /\ work' = Idle
        /\ ownBackup' \in IF backups < 2 THEN {ownBackup} ELSE {ownBackup, FALSE}
  /\ UNCHANGED <<guardians, backups, ready, failures>>

ProvisionBackup ==
  /\ work.pc = "provisionBackup"
  /\ ownBackup' = TRUE /\ pendingBackup' = "new" /\ backupDeficit' = "no"
  /\ work' = Idle
  /\ UNCHANGED <<guardians, backups, ready, failures>>

\* No machine is created, or one is not stopped: the exception ends the
\* evaluation where it is.
RequestFails ==
  /\ \/ work.pc = "provisionBackup"
     \/ work.pc \in {"provision", "deprovision"} /\ work.left > 0
  /\ failures < MaxFail /\ failures' = failures + 1
  /\ work' = Idle
  /\ UNCHANGED <<guardians, standby, ready>>

Working ==
  \/ Evaluate \/ ProvisionGuardian \/ Provisioned \/ DeprovisionGuardian
  \/ LookAtBackups \/ ProvisionBackup

Next ==
  \/ Working \/ RequestFails
  \/ Ready \/ Delay \/ AdmitGuardian \/ StableChanges \/ BackupsChange

Spec == Init /\ [][Next]_vars

\* Time passes, and the caller that would be there goes on calling.
Fairness == WF_vars(Working) /\ WF_vars(Ready) /\ WF_vars(Delay)

FairSpec == Spec /\ Fairness

-----------------------------------------------------------------------------
Ages == {"no", "new", "old"}

TypeOK ==
  /\ own \in Nat /\ external \in 0..MaxExternal /\ stable \in 0..MaxExternal
  /\ pending \in BOOLEAN /\ deficit \in Ages
  /\ backups \in 0..MaxBackup /\ ownBackup \in BOOLEAN
  /\ pendingBackup \in Ages /\ backupDeficit \in Ages
  /\ work \in [pc : {"idle", "provision", "deprovision", "backups", "provisionBackup"},
               left : Nat]
  /\ ready \in BOOLEAN /\ failures \in 0..MaxFail

\* The manager takes guardians down one by one, by a count it made before,
\* and leaves three that are active.
DeprovisionKeepsThree == [][own' < own => own' + external >= 3]_vars

\* A shortage of guardians ends, except when a creation failed after another
\* had succeeded: then the machine that is pending is waited for without end.
DeficitRepaired == Total < 2 ~> (Total >= 2 \/ pending)
=============================================================================
