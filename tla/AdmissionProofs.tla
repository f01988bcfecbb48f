--------------------------- MODULE AdmissionProofs ---------------------------
(***************************************************************************)
(* Theorems about Admission, for every set of machines, measurement of     *)
(* each, approved list and number of attempts.                             *)
(*                                                                         *)
(* The invariants are not inductive by themselves: what a machine knows    *)
(* when it is in went from the handler that attested it, to the row, to    *)
(* the answer.  Trace says what holds at each of these places.             *)
(***************************************************************************)
EXTENDS Admission, TLAPS

\* What is known of a machine while it is exchanging keys, once it has a row,
\* while an answer that accepts it is on its way, and when it is in.
Trace ==
  /\ \A r \in handler.exchanging : Fits(r[1])
  /\ \A n \in Node : record[n] # NoMeasurement => record[n] = MeasurementOf[n] /\ Fits(n)
  /\ \A reply \in replies : reply.answer = "accepted" =>
       record[reply.req[1]] = MeasurementOf[reply.req[1]]
  /\ InIsRecorded

IInv == TypeOK /\ Trace

-----------------------------------------------------------------------------
\* A request names a machine, and a machine has a role and a measurement.
LEMMA RequestFacts ==
  ASSUME NEW r \in Request
  PROVE  r[1] \in Node /\ r[2] \in 1..MaxAttempt /\ r = <<r[1], r[2]>>
BY DEF Request

LEMMA NodeFacts ==
  ASSUME NEW n \in Node
  PROVE  /\ MeasurementOf[n] \in Measurement
         /\ MeasurementOf[n] # NoMeasurement
         /\ Role(n) \in {"guardian", "backup"}
BY AdmissionAssumption DEF Role

\* The initial state has the types and nothing to trace.
LEMMA InitInv == Init => IInv
<1> SUFFICES ASSUME Init PROVE IInv
  OBVIOUS
<1>1. TypeOK
  BY AdmissionAssumption DEF Init, TypeOK
<1>2. Trace
  BY DEF Init, Trace, InIsRecorded
<1> QED
  BY <1>1, <1>2 DEF IInv

\* Every step keeps the type of every variable.
LEMMA StepType ==
  ASSUME TypeOK, [Next]_vars
  PROVE  TypeOK'
<1> USE AdmissionAssumption
<1>1. ASSUME NEW n \in Node, Ask(n) PROVE TypeOK'
  BY <1>1 DEF Ask, TypeOK, primary
<1>2. ASSUME NEW n \in Node, ClientTimeout(n) PROVE TypeOK'
  BY <1>2 DEF ClientTimeout, AfterFailure, TypeOK, primary
<1>3. ASSUME NEW n \in Node, NEW a \in {"accepted", "mismatch", "refused"},
             ClientAnswered(n, a)
      PROVE  TypeOK'
  BY <1>3 DEF ClientAnswered, AfterFailure, TypeOK, primary
<1>4. ASSUME NEW r \in Request, ReceiveRequest(r) PROVE TypeOK'
  BY <1>4 DEF ReceiveRequest, Reply, TypeOK
<1>5. ASSUME NEW r \in Request, RefuseReplay(r) PROVE TypeOK'
  BY <1>5 DEF RefuseReplay, Reply, TypeOK, primary
<1>6. ASSUME NEW r \in Request, AttestationFails(r) PROVE TypeOK'
  BY <1>6 DEF AttestationFails, Reply, TypeOK
<1>7. ASSUME NEW r \in Request, Attested(r) PROVE TypeOK'
  BY <1>7, RequestFacts, NodeFacts DEF Attested, Reply, TypeOK
<1>8. ASSUME NEW r \in Request, Admit(r) PROVE TypeOK'
  <2>1. r[1] \in Node /\ r[2] \in 0..MaxAttempt /\ MeasurementOf[r[1]] \in Measurement
    BY RequestFacts, NodeFacts
  <2> QED
    BY <1>8, <2>1 DEF Admit, Reply, TypeOK
<1>9. CASE LockBackupMeasurement
  BY <1>9 DEF LockBackupMeasurement, TypeOK
<1>10. CASE Restart
  BY <1>10 DEF Restart, TypeOK
<1>11. ASSUME NEW r \in Request, GoStale(r) PROVE TypeOK'
  BY <1>11 DEF GoStale, TypeOK, primary
<1>12. ASSUME NEW reply \in replies, LoseReply(reply) PROVE TypeOK'
  BY <1>12 DEF LoseReply, TypeOK, primary
<1>13. CASE UNCHANGED vars
  BY <1>13 DEF vars, primary, TypeOK
<1> QED
  BY <1>1, <1>2, <1>3, <1>4, <1>5, <1>6, <1>7, <1>8, <1>9, <1>10, <1>11, <1>12, <1>13
  DEF Next, Client, Primary, Environment

-----------------------------------------------------------------------------
\* A lock changes only while it is empty, so what fitted it still does.
LEMMA LockStep ==
  ASSUME TypeOK, [Next]_vars, NEW role \in {"guardian", "backup"},
         lock[role] # NoMeasurement
  PROVE  lock'[role] = lock[role]
<1> USE AdmissionAssumption
<1>1. ASSUME NEW r \in Request, Attested(r) PROVE lock'[role] = lock[role]
  BY <1>1, RequestFacts, NodeFacts DEF Attested, LocksNow, TypeOK
<1>2. CASE LockBackupMeasurement
  BY <1>2 DEF LockBackupMeasurement, TypeOK
<1>3. ASSUME ~LockBackupMeasurement, \A r \in Request : ~Attested(r)
      PROVE  UNCHANGED lock
  BY <1>3 DEF Next, Client, Primary, Environment, Ask, ClientTimeout, ClientAnswered,
     ReceiveRequest, RefuseReplay, AttestationFails, Admit, Restart, GoStale, LoseReply,
     vars, primary
<1> QED
  BY <1>1, <1>2, <1>3

LEMMA FitsStep ==
  ASSUME TypeOK, [Next]_vars, NEW n \in Node, Fits(n)
  PROVE  Fits(n)'
<1>1. CASE lock[Role(n)] # NoMeasurement
  BY <1>1, LockStep, NodeFacts DEF Fits, Listed, Role
<1>2. CASE lock[Role(n)] = NoMeasurement
  BY <1>2, NodeFacts DEF Fits, Listed, Role
<1> QED
  BY <1>1, <1>2

\* Attestation leaves a machine that fits the lock, also when it sets it.
LEMMA AttestedFits ==
  ASSUME TypeOK, NEW r \in Request, Attested(r), r \in handler'.exchanging,
         r \notin handler.exchanging
  PROVE  Fits(r[1])'
<1>1. r[1] \in Node
  BY RequestFacts
<1>2. CASE LocksNow(r[1])
  BY <1>1, <1>2, NodeFacts DEF Attested, LocksNow, Fits, Listed, TypeOK, Role
<1>3. CASE ~LocksNow(r[1])
  BY <1>1, <1>3 DEF Attested, Fits, Listed, TypeOK, Role
<1> QED
  BY <1>2, <1>3

\* Trace is kept by every step: attestation adds to what is being exchanged,
\* Admit carries it to the row and the answer, and the answer to the machine.
LEMMA StepTrace ==
  ASSUME IInv, [Next]_vars
  PROVE  Trace'
<1> USE AdmissionAssumption DEF IInv
<1>fit. ASSUME NEW n \in Node, Fits(n) PROVE Fits(n)'
  BY <1>fit, FitsStep
<1>keep. ASSUME UNCHANGED record, handler'.exchanging \subseteq handler.exchanging,
                \A reply \in replies' \ replies : reply.answer # "accepted",
                \A n \in Node : client'[n].pc = "in" => client[n].pc = "in"
         PROVE  Trace'
  <2>1. \A r \in handler'.exchanging : Fits(r[1])'
    BY <1>keep, <1>fit, RequestFacts DEF Trace, TypeOK
  <2>2. \A n \in Node : record'[n] # NoMeasurement =>
                           record'[n] = MeasurementOf[n] /\ Fits(n)'
    BY <1>keep, <1>fit DEF Trace
  <2>3. \A reply \in replies' : reply.answer = "accepted" =>
          record'[reply.req[1]] = MeasurementOf[reply.req[1]]
    BY <1>keep DEF Trace
  <2>4. InIsRecorded'
    BY <1>keep DEF Trace, InIsRecorded
  <2> QED
    BY <2>1, <2>2, <2>3, <2>4 DEF Trace
<1>1. ASSUME NEW n \in Node, Ask(n) \/ ClientTimeout(n) PROVE Trace'
  BY <1>1, <1>keep DEF Ask, ClientTimeout, AfterFailure, TypeOK, primary
<1>2. ASSUME NEW n \in Node, NEW a \in {"accepted", "mismatch", "refused"},
             ClientAnswered(n, a)
      PROVE  Trace'
  <2>1. CASE a # "accepted"
    BY <1>2, <2>1, <1>keep DEF ClientAnswered, AfterFailure, TypeOK, primary
  <2>2. CASE a = "accepted"
    <3>1. record[n] = MeasurementOf[n]
      BY <1>2, <2>2 DEF ClientAnswered, Trace
    <3>2. UNCHANGED <<record, handler, lock>> /\ replies' \subseteq replies
      BY <1>2 DEF ClientAnswered, primary
    <3>3. \A m \in Node : client'[m].pc = "in" => client[m].pc = "in" \/ m = n
      BY <1>2 DEF ClientAnswered, TypeOK
    <3> QED
      BY <3>1, <3>2, <3>3 DEF Trace, InIsRecorded, Fits, Listed, Role
  <2> QED
    BY <2>1, <2>2
<1>3. ASSUME NEW r \in Request, ReceiveRequest(r) PROVE Trace'
  BY <1>3, <1>keep DEF ReceiveRequest, Reply, TypeOK
<1>4. ASSUME NEW r \in Request, RefuseReplay(r) \/ AttestationFails(r) PROVE Trace'
  BY <1>4, <1>keep DEF RefuseReplay, AttestationFails, Reply, TypeOK, primary
<1>5. ASSUME NEW r \in Request, Attested(r) PROVE Trace'
  <2>1. UNCHANGED <<record, client>>
    BY <1>5 DEF Attested
  <2>2. \A q \in handler'.exchanging : Fits(q[1])'
    <3> SUFFICES ASSUME NEW q \in handler'.exchanging PROVE Fits(q[1])'
      OBVIOUS
    <3>1. CASE q \in handler.exchanging
      BY <3>1, <1>fit, RequestFacts DEF Trace, TypeOK
    <3>2. CASE q \notin handler.exchanging
      <4>1. q = r
        BY <1>5, <3>2 DEF Attested, TypeOK
      <4> QED
        BY <1>5, <3>2, <4>1, AttestedFits
    <3> QED
      BY <3>1, <3>2
  <2>3. \A reply \in replies' \ replies : reply.answer # "accepted"
    BY <1>5 DEF Attested, Reply
  <2> QED
    BY <2>1, <2>2, <2>3, <1>fit DEF Trace, InIsRecorded
<1>6. ASSUME NEW r \in Request, Admit(r) PROVE Trace'
  <2> DEFINE n == r[1]
  <2>1. n \in Node /\ Fits(n)
    BY <1>6, RequestFacts DEF Admit, Trace
  <2>2. record' = [record EXCEPT ![n] = MeasurementOf[n]] /\ UNCHANGED client
    BY <1>6 DEF Admit
  <2>3. \A m \in Node : record'[m] = IF m = n THEN MeasurementOf[n] ELSE record[m]
    BY <2>1, <2>2 DEF TypeOK
  <2>4. \A q \in handler'.exchanging : Fits(q[1])'
    BY <1>6, <1>fit, RequestFacts DEF Admit, Trace, TypeOK
  <2>5. \A reply \in replies' : reply \in replies \/ reply.req = r
    BY <1>6 DEF Admit, Reply
  <2>6. \A reply \in replies : reply.req[1] \in Node
    BY RequestFacts DEF TypeOK
  <2>7. \A reply \in replies' : reply.answer = "accepted" =>
          record'[reply.req[1]] = MeasurementOf[reply.req[1]]
    BY <2>1, <2>3, <2>5, <2>6 DEF Trace
  <2> QED
    BY <2>1, <2>2, <2>3, <2>4, <2>7, <1>fit DEF Trace, InIsRecorded
<1>7. CASE LockBackupMeasurement
  BY <1>7, <1>keep DEF LockBackupMeasurement
<1>8. CASE Restart
  BY <1>8, <1>keep DEF Restart
<1>9. ASSUME NEW r \in Request, GoStale(r) PROVE Trace'
  BY <1>9, <1>keep DEF GoStale, primary
<1>10. ASSUME NEW reply \in replies, LoseReply(reply) PROVE Trace'
  BY <1>10, <1>keep DEF LoseReply, primary
<1>11. CASE UNCHANGED vars
  BY <1>11, <1>keep DEF vars, primary
<1> QED
  BY <1>1, <1>2, <1>3, <1>4, <1>5, <1>6, <1>7, <1>8, <1>9, <1>10, <1>11
  DEF Next, Client, Primary, Environment

\* The strengthened invariant holds in every reachable state.
THEOREM Invariance == Spec => []IInv
<1>1. IInv /\ [Next]_vars => IInv'
  BY StepType, StepTrace DEF IInv
<1> QED
  BY InitInv, <1>1, PTL DEF Spec

-----------------------------------------------------------------------------
\* Every variable keeps its type.
THEOREM TypeCorrect == Spec => []TypeOK
<1>1. IInv => TypeOK
  BY DEF IInv
<1> QED
  BY <1>1, Invariance, PTL

\* A machine that was told it is in has a row with its attested measurement.
THEOREM Recorded == Spec => []InIsRecorded
<1>1. IInv => InIsRecorded
  BY DEF IInv, Trace
<1> QED
  BY <1>1, Invariance, PTL

\* Without an approved list, machines of one role that are in run one
\* measurement, whichever first requests raced and whenever the primary died.
THEOREM OneFleet == Spec => []FleetAgrees
<1>1. ASSUME IInv PROVE FleetAgrees
  <2> SUFFICES ASSUME NEW n \in Node, NEW m \in Node,
                      client[n].pc = "in", client[m].pc = "in",
                      Role(n) = Role(m), ~Listed(n)
               PROVE  MeasurementOf[n] = MeasurementOf[m]
    BY DEF FleetAgrees
  <2>1. Fits(n) /\ Fits(m)
    BY <1>1, NodeFacts DEF IInv, Trace, InIsRecorded
  <2>2. ~Listed(m)
    BY DEF Listed, Role
  <2> QED
    BY <2>1, <2>2 DEF Fits
<1> QED
  BY <1>1, Invariance, PTL

\* A locked measurement is never replaced.
THEOREM LocksNeverMove == Spec => LockStays
<1>1. ASSUME TypeOK, [Next]_vars
      PROVE  [\A role \in DOMAIN lock :
                lock[role] # NoMeasurement => lock'[role] = lock[role]]_lock
  BY <1>1, LockStep DEF TypeOK
<1> QED
  BY <1>1, TypeCorrect, PTL DEF Spec, LockStays

-----------------------------------------------------------------------------
\* Admission implements Membership, for the guardians and for the backups.

\* A lock that changes is set by a machine of its role without an approved
\* list, or by the primary for the backups; the rows do not change with it.
LEMMA LockedBy ==
  ASSUME TypeOK, [Next]_vars, NEW role \in {"guardian", "backup"},
         lock'[role] # lock[role]
  PROVE  /\ lock[role] = NoMeasurement /\ lock'[role] \in Measurement
         /\ role = "guardian" => Approved = {}
         /\ UNCHANGED record
<1> USE AdmissionAssumption
<1>1. ASSUME NEW r \in Request, Attested(r)
      PROVE  /\ lock[role] = NoMeasurement /\ lock'[role] \in Measurement
             /\ role = "guardian" => Approved = {}
             /\ UNCHANGED record
  <2>1. r[1] \in Node
    BY RequestFacts
  <2> QED
    BY <1>1, <2>1, NodeFacts DEF Attested, LocksNow, Listed, Role, TypeOK
<1>2. CASE LockBackupMeasurement
  BY <1>2 DEF LockBackupMeasurement, TypeOK
<1>3. ASSUME ~LockBackupMeasurement, \A r \in Request : ~Attested(r)
      PROVE  UNCHANGED lock
  BY <1>3 DEF Next, Client, Primary, Environment, Ask, ClientTimeout, ClientAnswered,
     ReceiveRequest, RefuseReplay, AttestationFails, Admit, Restart, GoStale, LoseReply,
     vars, primary
<1> QED
  BY <1>1, <1>2, <1>3

\* A row that changes is the row of one machine, which fits the lock.
LEMMA RecordedBy ==
  ASSUME IInv, [Next]_vars, record' # record
  PROVE  \E n \in Node : /\ record' = [record EXCEPT ![n] = MeasurementOf[n]]
                         /\ Fits(n) /\ UNCHANGED lock
<1>1. PICK r \in Request : Admit(r)
  BY DEF Next, Client, Primary, Environment, Ask, ClientTimeout, ClientAnswered,
     ReceiveRequest, RefuseReplay, AttestationFails, Attested, LockBackupMeasurement,
     Restart, GoStale, LoseReply, vars, primary
<1>2. r[1] \in Node /\ Fits(r[1])
  BY <1>1, RequestFacts DEF Admit, IInv, Trace
<1> QED
  BY <1>1, <1>2 DEF Admit

\* Every step of admission is a step of the guardians' fleet or none of its.
LEMMA GuardianStep ==
  ASSUME IInv, [Next]_vars
  PROVE  [GuardianFleet!Next]_(GuardianFleet!memberVars)
<1> DEFINE members == {n \in Guardian : record[n] # NoMeasurement}
<1>1. CASE lock'["guardian"] # lock["guardian"]
  <2>1. GuardianFleet!Lock(lock'["guardian"]) /\ lock'["guardian"] \in Measurement
    BY <1>1, LockedBy DEF IInv, GuardianFleet!Lock
  <2> QED
    BY <2>1 DEF GuardianFleet!Next
<1>2. CASE lock'["guardian"] = lock["guardian"] /\ record' # record
  <2>1. PICK n \in Node : /\ record' = [record EXCEPT ![n] = MeasurementOf[n]]
                          /\ Fits(n) /\ UNCHANGED lock
    BY <1>2, RecordedBy
  <2>2. \A m \in Node : record'[m] = IF m = n THEN MeasurementOf[n] ELSE record[m]
    BY <2>1 DEF IInv, TypeOK
  <2>3. Guardian \subseteq Node /\ MeasurementOf[n] # NoMeasurement
    BY NodeFacts DEF Node
  <2>4. CASE n \in Guardian
    <3>1. members' = members \cup {n}
      BY <2>2, <2>3, <2>4
    <3>2. MeasurementOf[n] \in Approved \cup {lock["guardian"]}
      BY <2>1, <2>4 DEF Fits, Listed, Role
    <3>3. GuardianFleet!Join(n)
      BY <1>2, <3>1, <3>2 DEF GuardianFleet!Join
    <3> QED
      BY <2>4, <3>3 DEF GuardianFleet!Next
  <2>5. CASE n \notin Guardian
    <3>1. members' = members
      BY <2>2, <2>3, <2>5
    <3> QED
      BY <1>2, <3>1 DEF GuardianFleet!memberVars
  <2> QED
    BY <2>4, <2>5
<1>3. CASE lock'["guardian"] = lock["guardian"] /\ record' = record
  BY <1>3 DEF GuardianFleet!memberVars
<1> QED
  BY <1>1, <1>2, <1>3

\* What admission does is what the guardians' fleet is promised: one canonical
\* measurement, and nobody joins with another one that is not approved.
THEOREM GuardianRefinement == Spec => GuardianFleetSpec
<1>1. Init => GuardianFleet!Init
  BY DEF Init, GuardianFleet!Init, Node
<1> QED
  BY <1>1, GuardianStep, Invariance, PTL
  DEF Spec, GuardianFleetSpec, GuardianFleet!Spec

\* The same for the backups, whose measurement the primary may lock itself.
LEMMA BackupStep ==
  ASSUME IInv, [Next]_vars
  PROVE  [BackupFleet!Next]_(BackupFleet!memberVars)
<1> DEFINE members == {n \in Backup : record[n] # NoMeasurement}
<1>1. CASE lock'["backup"] # lock["backup"]
  <2>1. BackupFleet!Lock(lock'["backup"]) /\ lock'["backup"] \in Measurement
    BY <1>1, LockedBy DEF IInv, BackupFleet!Lock
  <2> QED
    BY <2>1 DEF BackupFleet!Next
<1>2. CASE lock'["backup"] = lock["backup"] /\ record' # record
  <2>1. PICK n \in Node : /\ record' = [record EXCEPT ![n] = MeasurementOf[n]]
                          /\ Fits(n) /\ UNCHANGED lock
    BY <1>2, RecordedBy
  <2>2. \A m \in Node : record'[m] = IF m = n THEN MeasurementOf[n] ELSE record[m]
    BY <2>1 DEF IInv, TypeOK
  <2>3. Backup \subseteq Node /\ MeasurementOf[n] # NoMeasurement
    BY NodeFacts DEF Node
  <2>4. CASE n \in Backup
    <3>1. members' = members \cup {n}
      BY <2>2, <2>3, <2>4
    <3>2. MeasurementOf[n] = lock["backup"]
      BY <2>1, <2>4, AdmissionAssumption DEF Fits, Listed, Role
    <3>3. BackupFleet!Join(n)
      BY <1>2, <3>1, <3>2 DEF BackupFleet!Join
    <3> QED
      BY <2>4, <3>3 DEF BackupFleet!Next
  <2>5. CASE n \notin Backup
    <3>1. members' = members
      BY <2>2, <2>3, <2>5
    <3> QED
      BY <1>2, <3>1 DEF BackupFleet!memberVars
  <2> QED
    BY <2>4, <2>5
<1>3. CASE lock'["backup"] = lock["backup"] /\ record' = record
  BY <1>3 DEF BackupFleet!memberVars
<1> QED
  BY <1>1, <1>2, <1>3

\* The backups' fleet is Membership with an empty approved list.
THEOREM BackupRefinement == Spec => BackupFleetSpec
<1>1. Init => BackupFleet!Init
  BY DEF Init, BackupFleet!Init, Node
<1> QED
  BY <1>1, BackupStep, Invariance, PTL
  DEF Spec, BackupFleetSpec, BackupFleet!Spec
=============================================================================
