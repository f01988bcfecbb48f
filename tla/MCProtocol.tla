------------------------------ MODULE MCProtocol ------------------------------
(***************************************************************************)
(* Small instances of three services of the protocol that share no state:  *)
(* the copies of the database, the heartbeat and the guardian fleet.       *)
(* A behaviour chooses one of them at the start and is a behaviour of that *)
(* one; the variables of the others stay where they begin, in a state "off" *)
(* in which their fairness asks for nothing.                               *)
(***************************************************************************)
EXTENDS Replication

CONSTANTS
  Part,                                                    \* the services to run
  Backup, Round, Threshold, MaxDrift, MaxStop, MaxRestart, \* Heartbeat
  MaxExternal, MaxBackup, MaxFail                          \* Fleet

VARIABLES
  part,
  up, streak, round, pinged, down, wire, silence, looked, tried, stops, restarts,
  own, external, stable, pending, deficit,
  backups, ownBackup, pendingBackup, backupDeficit, work, ready, failures

Heart == INSTANCE Heartbeat
Fleet == INSTANCE Fleet

ASSUME InstanceAssumption == Heart!HeartbeatAssumption /\ Fleet!FleetAssumption

-----------------------------------------------------------------------------
heartVars == <<up, streak, round, pinged, down, wire, silence, looked, tried, stops,
               restarts>>
fleetVars == <<own, external, stable, pending, deficit, backups, ownBackup,
               pendingBackup, backupDeficit, work, ready, failures>>

protocolVars == <<part, vars, heartVars, fleetVars>>

ReplicationOff ==
  /\ version = 0 /\ number = 0 /\ key = "first" /\ losses = 0 /\ limit = 0
  /\ push = [s \in Slot |-> [Idle EXCEPT !.pc = "off"]]
  /\ inbox = [g \in Guardian |-> {}] /\ answer = [g \in Guardian |-> {}]
  /\ held = [g \in Guardian |-> "none"] /\ crossed = {}
  /\ applying = [g \in Guardian |-> {}] /\ replica = [g \in Guardian |-> 0]

HeartOff ==
  /\ up = Backup /\ streak = [b \in Backup |-> 0]
  /\ round = [r \in Round |-> Heart!Idle]
  /\ pinged = FALSE /\ down = 1 /\ wire = {}
  /\ silence = [g \in Guardian |-> Heart!None]
  /\ looked = Guardian \cup {"off"} /\ tried = [g \in Guardian |-> FALSE]
  /\ stops = 0 /\ restarts = 0

FleetOff ==
  /\ own = 0 /\ external = MaxExternal /\ stable = 0
  /\ pending = FALSE /\ deficit = "no" /\ backups = 0 /\ ownBackup = FALSE
  /\ pendingBackup = "no" /\ backupDeficit = "no"
  /\ work = [pc |-> "off", left |-> 0] /\ ready = TRUE /\ failures = 0

ProtocolInit ==
  /\ part \in Part
  /\ IF part = "replication" THEN Init ELSE ReplicationOff
  /\ IF part = "heartbeat" THEN Heart!Init ELSE HeartOff
  /\ IF part = "fleet" THEN Fleet!Init ELSE FleetOff

ProtocolNext ==
  \/ part = "replication" /\ Next /\ UNCHANGED <<part, heartVars, fleetVars>>
  \/ part = "heartbeat" /\ Heart!Next /\ UNCHANGED <<part, vars, fleetVars>>
  \/ part = "fleet" /\ Fleet!Next /\ UNCHANGED <<part, vars, heartVars>>

ProtocolSpec == ProtocolInit /\ [][ProtocolNext]_protocolVars

ProtocolFairSpec == ProtocolSpec /\ Fairness /\ Heart!Fairness /\ Fleet!Fairness

-----------------------------------------------------------------------------
\* Heartbeat: a primary that is down is noticed in time by every guardian that
\* has heard it, whatever the network still delivers.
DetectedInTime == Heart!DetectedInTime

\* Heartbeat: a backup that is dead for good has no streak for good.
DeadBackupReset == Heart!DeadBackupReset

\* Fleet: guardians are taken down only while three stay active.
DeprovisionKeepsThree == Fleet!DeprovisionKeepsThree

\* Fleet: a shortage of guardians ends, or a machine that was created is
\* waited for.
DeficitRepaired == Fleet!DeficitRepaired
=============================================================================
