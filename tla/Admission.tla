------------------------------ MODULE Admission ------------------------------
(***************************************************************************)
(* Admission of guardians and backups by the primary.                      *)
(*                                                                         *)
(* A machine posts a request, the primary attests it over the network,     *)
(* compares its measurement with the approved list or the locked value,    *)
(* exchanges keys (a call to the signing service) and writes the record.   *)
(* Requests are handled concurrently: a handler lets others run while it   *)
(* attests and while it exchanges keys.  A guardian gives up on an answer  *)
(* after ten seconds and asks again with a fresh key, while the handler of *)
(* its first request may still be running.                                 *)
(*                                                                         *)
(* This is the production path; with DEV_MODE the primary believes the     *)
(* measurement a request claims.  Of the nonce cache only its answer is    *)
(* modelled: it remembers every nonce while the request is fresh.  The     *)
(* repository has no admission client for backups; they are assumed to ask *)
(* the way guardians do.                                                   *)
(***************************************************************************)
EXTENDS Naturals

CONSTANTS
  Guardian, Backup,  \* the machines, by teeInstanceId
  Measurement,       \* values of the RTMR3 register
  NoMeasurement,     \* the config key is not set
  MeasurementOf,     \* what attestation finds on each machine
  AgentMeasurement,  \* the primary's own
  Approved,          \* GUARDIAN_APPROVED_RTMR3
  MaxAttempt         \* initiateAdmission's maxAttempts

Node    == Guardian \cup Backup
Request == Node \X (1..MaxAttempt)

ASSUME AdmissionAssumption ==
  /\ Guardian \cap Backup = {}
  /\ NoMeasurement \notin Measurement
  /\ MeasurementOf \in [Node -> Measurement]
  /\ AgentMeasurement \in Measurement
  /\ Approved \subseteq Measurement
  /\ MaxAttempt \in Nat

VARIABLES
  lock,    \* guardian_rtmr3 and backup_rtmr3 in the primary's config
  record,  \* the measurement in the row of each admitted machine
  peerKey, \* the attempt whose public key the primary stored for a machine
  nonces,  \* requests whose nonce the primary has seen
  handler, \* the requests in the primary's handlers, by what they wait for
  stale,   \* requests older than the timestamp tolerance
  replies, \* answers on their way
  client   \* where each machine stands, and its number of attempts

primary == <<lock, record, peerKey, nonces, handler>>
vars    == <<primary, stale, replies, client>>

Init ==
  /\ lock    = [role \in {"guardian", "backup"} |-> NoMeasurement]
  /\ record  = [n \in Node |-> NoMeasurement]
  /\ peerKey = [n \in Node |-> 0]
  /\ nonces = {} /\ stale = {} /\ replies = {}
  /\ handler = [attesting |-> {}, exchanging |-> {}]
  /\ client  = [n \in Node |-> [pc |-> "idle", attempt |-> 0]]

-----------------------------------------------------------------------------
\* The machine that wants to join (initiateAdmission).

Ask(n) ==
  /\ client[n].pc = "idle" /\ client[n].attempt < MaxAttempt
  /\ client' = [client EXCEPT ![n] = [pc |-> "asking", attempt |-> @.attempt + 1]]
  /\ UNCHANGED <<primary, stale, replies>>

\* The request <<n, k>> was sent; the network may deliver it late or twice.
Sent(r) == r[2] <= client[r[1]].attempt

\* Mutant: the last attempt is waited for without a limit.
ClientTimeoutExceptLast(n) ==
  /\ client[n].pc = "asking" /\ client[n].attempt < MaxAttempt
  /\ client' = [client EXCEPT ![n].pc = "idle"]
  /\ UNCHANGED <<primary, stale, replies>>

AfterFailure(n) == IF client[n].attempt < MaxAttempt THEN "idle" ELSE "gaveUp"

ClientTimeout(n) ==
  /\ client[n].pc = "asking"
  /\ client' = [client EXCEPT ![n].pc = AfterFailure(n)]
  /\ UNCHANGED <<primary, stale, replies>>

\* Only the answer to the current attempt has anyone waiting for it.
ClientAnswered(n, answer) ==
  LET reply == [req |-> <<n, client[n].attempt>>, answer |-> answer]
  IN  /\ client[n].pc = "asking"
      /\ reply \in replies
      /\ client' = [client EXCEPT ![n].pc = CASE answer = "accepted" -> "in"
                                              [] answer = "mismatch" -> "rejected"
                                              [] answer = "refused"  -> AfterFailure(n)]
      /\ replies' = replies \ {reply}
      /\ UNCHANGED <<primary, stale>>

LoseReply(reply) ==
  /\ replies' = replies \ {reply}
  /\ UNCHANGED <<primary, stale, client>>

-----------------------------------------------------------------------------
\* The primary (handleAdmissionRequest).

Reply(r, answer) == replies' = replies \cup {[req |-> r, answer |-> answer]}

\* The nonce first, the timestamp next, then attestation is asked for.
ReceiveRequest(r) ==
  /\ Sent(r) /\ r \notin nonces
  /\ nonces' = nonces \cup {r}
  /\ IF r \in stale
     THEN Reply(r, "refused") /\ UNCHANGED handler
     ELSE handler' = [handler EXCEPT !.attesting = @ \cup {r}] /\ UNCHANGED replies
  /\ UNCHANGED <<lock, record, peerKey, stale, client>>

RefuseReplay(r) ==
  /\ Sent(r) /\ r \in nonces
  /\ Reply(r, "refused")
  /\ UNCHANGED <<primary, stale, client>>

AttestationFails(r) ==
  /\ r \in handler.attesting
  /\ handler' = [handler EXCEPT !.attesting = @ \ {r}]
  /\ Reply(r, "refused")
  /\ UNCHANGED <<lock, record, peerKey, nonces, stale, client>>

Role(n)   == IF n \in Guardian THEN "guardian" ELSE "backup"
Listed(n) == n \in Guardian /\ Approved # {}

\* Mutant: the lock is written without looking at it.
LocksAlways(n) == ~Listed(n)

LocksNow(n) == ~Listed(n) /\ lock[Role(n)] = NoMeasurement

\* Mutant: the fallback to the locked value accepts any measurement.
FitsAny(n) == Listed(n) => MeasurementOf[n] \in Approved

Fits(n) ==
  IF Listed(n) THEN MeasurementOf[n] \in Approved \cup {lock["guardian"]}
               ELSE MeasurementOf[n] = lock[Role(n)]

\* The quote is verified; the lock is checked and set in one go.
Attested(r) ==
  LET n == r[1]
  IN  /\ r \in handler.attesting
      /\ \/ /\ LocksNow(n) \/ Fits(n)
            /\ lock' = IF LocksNow(n) THEN [lock EXCEPT ![Role(n)] = MeasurementOf[n]]
                                      ELSE lock
            /\ handler' = [attesting  |-> handler.attesting \ {r},
                           exchanging |-> handler.exchanging \cup {r}]
            /\ UNCHANGED replies
         \/ /\ ~LocksNow(n) /\ ~Fits(n)
            /\ handler' = [handler EXCEPT !.attesting = @ \ {r}]
            /\ Reply(r, "mismatch")
            /\ UNCHANGED lock
      /\ UNCHANGED <<record, peerKey, nonces, stale, client>>

\* Mutant: the row is written for guardians only.
AdmitUnrecorded(r) ==
  LET n == r[1]
  IN  /\ r \in handler.exchanging
      /\ handler' = [handler EXCEPT !.exchanging = @ \ {r}]
      /\ record'  = IF n \in Guardian THEN [record EXCEPT ![n] = MeasurementOf[n]] ELSE record
      /\ peerKey' = [peerKey EXCEPT ![n] = r[2]]
      /\ Reply(r, "accepted")
      /\ UNCHANGED <<lock, nonces, stale, client>>

\* Mutant: key and measurement are swapped.
AdmitSwapped(r) ==
  LET n == r[1]
  IN  /\ r \in handler.exchanging
      /\ handler' = [handler EXCEPT !.exchanging = @ \ {r}]
      /\ record'  = [record EXCEPT ![n] = r[2]]
      /\ peerKey' = [peerKey EXCEPT ![n] = MeasurementOf[n]]
      /\ Reply(r, "accepted")
      /\ UNCHANGED <<lock, nonces, stale, client>>

\* The key exchange is over: row, public key and answer.  A snapshot that fails
\* after the rows are written is a lost answer.
Admit(r) ==
  LET n == r[1]
  IN  /\ r \in handler.exchanging
      /\ handler' = [handler EXCEPT !.exchanging = @ \ {r}]
      /\ record'  = [record EXCEPT ![n] = MeasurementOf[n]]
      /\ peerKey' = [peerKey EXCEPT ![n] = r[2]]
      /\ Reply(r, "accepted")
      /\ UNCHANGED <<lock, nonces, stale, client>>

\* At the end of its boot a primary that can provision backups locks its own
\* measurement for them; by then its server is already answering requests.
LockBackupMeasurement ==
  /\ lock["backup"] = NoMeasurement
  /\ lock' = [lock EXCEPT !["backup"] = AgentMeasurement]
  /\ UNCHANGED <<record, peerKey, nonces, handler, stale, replies, client>>

\* The process restarts with its database; its handlers are gone.
Restart ==
  /\ handler' = [attesting |-> {}, exchanging |-> {}]
  /\ UNCHANGED <<lock, record, peerKey, nonces, stale, replies, client>>

GoStale(r) ==
  /\ Sent(r) /\ r \notin nonces \cup stale
  /\ stale' = stale \cup {r}
  /\ UNCHANGED <<primary, replies, client>>

-----------------------------------------------------------------------------
Client == \E n \in Node :
  \/ Ask(n) \/ ClientTimeout(n)
  \/ \E answer \in {"accepted", "mismatch", "refused"} : ClientAnswered(n, answer)

Primary == \E r \in Request :
  \/ ReceiveRequest(r) \/ RefuseReplay(r)
  \/ AttestationFails(r) \/ Attested(r) \/ Admit(r)

Environment ==
  \/ LockBackupMeasurement \/ Restart
  \/ \E r \in Request : GoStale(r)
  \/ \E reply \in replies : LoseReply(reply)

Next == Client \/ Primary \/ Environment

Spec == Init /\ [][Next]_vars

\* A machine's own timers run, whatever the primary and the network do.
Fairness == \A n \in Node : WF_vars(Ask(n)) /\ WF_vars(ClientTimeout(n))

FairSpec == Spec /\ Fairness

-----------------------------------------------------------------------------
(***************************************************************************)
(* Properties                                                              *)
(***************************************************************************)

TypeOK ==
  /\ lock    \in [{"guardian", "backup"} -> Measurement \cup {NoMeasurement}]
  /\ record  \in [Node -> Measurement \cup {NoMeasurement}]
  /\ peerKey \in [Node -> 0..MaxAttempt]
  /\ nonces \subseteq Request /\ stale \subseteq Request
  /\ handler \in [attesting : SUBSET Request, exchanging : SUBSET Request]
  /\ replies \subseteq [req : Request, answer : {"accepted", "mismatch", "refused"}]
  /\ client  \in [Node -> [pc : {"idle", "asking", "in", "rejected", "gaveUp"},
                           attempt : 0..MaxAttempt]]

\* Machines that joined run the same code: without an approved list, all
\* admitted guardians have one measurement, and so have all backups, also when
\* two first requests are attested at the same time or the primary restarts.
FleetAgrees ==
  \A n, m \in Node :
    /\ client[n].pc = "in" /\ client[m].pc = "in"
    /\ Role(n) = Role(m) /\ ~Listed(n)
    => MeasurementOf[n] = MeasurementOf[m]

\* A machine that was told it is in is in the primary's tables with what was
\* attested, so that it is pinged and gets snapshots, whatever was retried,
\* lost or restarted in between.
InIsRecorded == \A n \in Node : client[n].pc = "in" => record[n] = MeasurementOf[n]

\* A locked measurement never changes, whoever locks it first: a guardian, a
\* backup, or the primary at the end of its boot.
LockStays == [][\A role \in DOMAIN lock :
                  lock[role] # NoMeasurement => lock'[role] = lock[role]]_lock

\* A machine ends up in, rejected or giving up, even if the primary is silent.
ClientSettles ==
  \A n \in Node : <>(client[n].pc \in {"in", "rejected", "gaveUp"})

\* What admission promises of the guardians, and of the backups.
GuardianFleet == INSTANCE Membership WITH
  Member <- Guardian, canon <- lock["guardian"],
  members <- {n \in Guardian : record[n] # NoMeasurement}

BackupFleet == INSTANCE Membership WITH
  Member <- Backup, Approved <- {}, canon <- lock["backup"],
  members <- {n \in Backup : record[n] # NoMeasurement}

GuardianFleetSpec == GuardianFleet!Spec
BackupFleetSpec   == BackupFleet!Spec

-----------------------------------------------------------------------------
\* A claim of a comment that the interleavings contradict.

\* handlers.ts, "Look up guardian's stored X25519 public key": the key stored
\* for a guardian that is in is the one of the session it was admitted with.
StoredKeyIsCurrent ==
  \A n \in Node : client[n].pc = "in" => peerKey[n] = client[n].attempt
=============================================================================
