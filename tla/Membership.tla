----------------------------- MODULE Membership -----------------------------
(***************************************************************************)
(* What admission promises of one fleet (the guardians, or the backups):   *)
(* the fleet has a canonical measurement, set once by the first member     *)
(* unless the operator configured an approved list, and whoever joins has  *)
(* an approved or the canonical measurement.                               *)
(***************************************************************************)
CONSTANTS
  Member,        \* the machines that may join
  Measurement,   \* values of the RTMR3 register
  NoMeasurement, \* no canonical value yet
  MeasurementOf, \* what attestation finds on each machine
  Approved       \* the configured list, or {}

VARIABLES
  canon,   \* the canonical measurement
  members  \* the machines that joined

memberVars == <<canon, members>>

Init == canon = NoMeasurement /\ members = {}

\* The first measurement becomes the canonical one and stays it.
Lock(m) ==
  /\ canon = NoMeasurement /\ Approved = {}
  /\ canon' = m
  /\ UNCHANGED members

Join(n) ==
  /\ MeasurementOf[n] \in Approved \cup {canon}
  /\ members' = members \cup {n}
  /\ UNCHANGED canon

Next == (\E m \in Measurement : Lock(m)) \/ (\E n \in Member : Join(n))

Spec == Init /\ [][Next]_memberVars
=============================================================================
