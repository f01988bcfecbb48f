----------------------------- MODULE MCAdmission -----------------------------
(***************************************************************************)
(* Small instances of Admission: two guardians built from different code,  *)
(* and a backup that differs from the primary.                             *)
(***************************************************************************)
EXTENDS Admission, TLC

CONSTANTS g1, g2, b2, m1, m2

TwoGuardians == {g1, g2}
OneGuardian  == {g1}
OneBackup    == {b2}
NoMachine    == {}
TwoValues    == {m1, m2}
NoneListed   == {}
Measured     == [n \in Node |-> IF n = g1 THEN m1 ELSE m2]

\* Two of the three machines want to join: both guardians, or a guardian and
\* the backup.  The third never asks; it stands where one that gave up does.
Joining == {{g1, g2}, {g1, b2}}

JoiningInit ==
  \E joining \in Joining :
    /\ lock    = [role \in {"guardian", "backup"} |-> NoMeasurement]
    /\ record  = [n \in Node |-> NoMeasurement]
    /\ peerKey = [n \in Node |-> 0]
    /\ nonces = {} /\ stale = {} /\ replies = {}
    /\ handler = [attesting |-> {}, exchanging |-> {}]
    /\ client  = [n \in Node |-> [pc |-> IF n \in joining THEN "idle" ELSE "gaveUp",
                                  attempt |-> 0]]

JoiningSpec == JoiningInit /\ [][Next]_vars /\ Fairness
=============================================================================
