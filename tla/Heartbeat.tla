------------------------------ MODULE Heartbeat ------------------------------
(***************************************************************************)
(* The primary pings its backups and guardians every interval; the backups *)
(* answer, which is what their streak counts, and the guardians notice     *)
(* when the pings stop.                                                    *)
(*                                                                         *)
(* The pings of an interval are sent together, and their results are noted *)
(* together, when the slowest has been answered or has failed.  A request  *)
(* may take many intervals, so results of an older round may be noted      *)
(* after those of a newer one.  A ping may be lost, arrive late, or arrive *)
(* again: a guardian refuses a nonce it has seen and a timestamp that is   *)
(* too old.  It knows the last ping in memory only.                        *)
(*                                                                         *)
(* The clock counts intervals, and every machine has the same one.  A      *)
(* guardian looks at it once in each.  Counters stop at the last value     *)
(* that makes a difference; MaxStop and MaxRestart are bounds of the model. *)
(***************************************************************************)
EXTENDS Naturals, FiniteSets

CONSTANTS
  Backup, Guardian,
  Round,      \* rounds of pings that may be under way at a time
  Threshold,  \* livenessFailureThreshold
  MaxDrift,   \* 60 seconds, in intervals
  MaxStop, MaxRestart

HeartbeatAssumption ==
  Threshold \in Nat /\ MaxDrift \in Nat /\ MaxStop \in Nat /\ MaxRestart \in Nat

VARIABLES
  up,       \* the backups that answer
  streak,   \* heartbeat_streak of each: none, one, or more
  round,    \* the results of each round under way
  pinged,   \* the primary has pinged in this interval
  down,     \* intervals since the primary stopped; 0 while it runs
  wire,     \* pings sent to guardians, and whether their nonce is new there
  silence,  \* intervals since a guardian's last ping; None before the first
  looked,   \* the guardians that have looked in this interval
  tried,    \* the guardian has initiated a succession since that ping
  stops, restarts

vars == <<up, streak, round, pinged, down, wire, silence, looked, tried, stops, restarts>>
primary == <<streak, round, pinged>>
guardian == <<silence, looked, tried>>

None   == Threshold + 2
Latest == MaxDrift + Threshold + 2
AtMost(n, max) == IF n > max THEN max ELSE n

Idle == [pc |-> "idle"]
Waiting == [pc |-> "sent", result |-> [b \in Backup |-> "none"]]

Init ==
  /\ up = Backup /\ streak = [b \in Backup |-> 0]
  /\ round = [r \in Round |-> Idle]
  /\ pinged = FALSE /\ down = 0 /\ wire = {}
  /\ silence = [g \in Guardian |-> None]
  /\ looked = {} /\ tried = [g \in Guardian |-> FALSE]
  /\ stops = 0 /\ restarts = 0

-----------------------------------------------------------------------------
\* An interval passes, once every guardian has looked.
Interval ==
  /\ looked = Guardian
  /\ looked' = {} /\ pinged' = FALSE
  /\ down' = IF down = 0 THEN 0 ELSE AtMost(down + 1, Latest)
  /\ wire' = {[p EXCEPT !.age = AtMost(p.age + 1, MaxDrift + 1)] : p \in wire}
  /\ silence' = [g \in Guardian |->
                   IF silence[g] = None THEN None ELSE AtMost(silence[g] + 1, Threshold + 1)]
  /\ UNCHANGED <<up, streak, round, tried, stops, restarts>>

\* pingAll: a round of pings.
PingAll(r) ==
  /\ down = 0 /\ ~pinged /\ round[r] = Idle
  /\ pinged' = TRUE
  /\ round' = [round EXCEPT ![r] = Waiting]
  /\ wire' = wire \cup {[to |-> g, age |-> 0, new |-> TRUE] : g \in Guardian}
  /\ UNCHANGED <<up, streak, down, guardian, stops, restarts>>

\* A backup answers, or the request fails.  The transport catches every error,
\* and the signer is local: that a ping is rejected before it is sent is left out.
Answer(r, b, result) ==
  /\ round[r] # Idle /\ round[r].result[b] = "none"
  /\ result = "ok" => b \in up
  /\ round' = [round EXCEPT ![r].result[b] = result]
  /\ UNCHANGED <<up, streak, pinged, down, wire, guardian, stops, restarts>>

\* Mutant: a request that failed is passed over like one that was rejected.
NotedIfAnswered(b, result) ==
  IF result = "ok" THEN AtMost(streak[b] + 1, 2) ELSE streak[b]

Noted(b, result) == IF result = "ok" THEN AtMost(streak[b] + 1, 2) ELSE 0

\* All requests of a round are over: the streaks are written.
EndRound(r) ==
  /\ round[r] # Idle /\ \A b \in Backup : round[r].result[b] # "none"
  /\ streak' = [b \in Backup |-> Noted(b, round[r].result[b])]
  /\ round' = [round EXCEPT ![r] = Idle]
  /\ UNCHANGED <<up, pinged, down, wire, guardian, stops, restarts>>

\* The primary stops, and with it its rounds; it starts again with a ping.
PrimaryStops ==
  /\ down = 0 /\ stops < MaxStop /\ stops' = stops + 1
  /\ down' = 1
  /\ round' = [r \in Round |-> Idle]
  /\ UNCHANGED <<up, streak, pinged, wire, guardian, restarts>>

PrimaryStarts ==
  /\ down > 0 /\ restarts < MaxRestart /\ restarts' = restarts + 1
  /\ down' = 0 /\ pinged' = FALSE
  /\ UNCHANGED <<up, streak, round, wire, guardian, stops>>

BackupStops(b) ==
  /\ b \in up /\ stops < MaxStop /\ stops' = stops + 1
  /\ up' = up \ {b}
  /\ UNCHANGED <<primary, down, wire, guardian, restarts>>

BackupStarts(b) ==
  /\ b \notin up /\ restarts < MaxRestart /\ restarts' = restarts + 1
  /\ up' = up \cup {b}
  /\ UNCHANGED <<primary, down, wire, guardian, stops>>

-----------------------------------------------------------------------------
\* The guardian.

\* Mutant: the timestamp is not looked at.
AnyAge(p) == p.age \in Nat

InTime(p) == p.age <= MaxDrift

\* A ping arrives whose nonce is new; it stays on the wire, to arrive again,
\* which changes nothing.
OnPingReceived(p) ==
  /\ p \in wire /\ p.new
  /\ wire' = (wire \ {p}) \cup {[p EXCEPT !.new = FALSE]}
  /\ IF InTime(p)
     THEN /\ silence' = [silence EXCEPT ![p.to] = 0]
          /\ tried' = [tried EXCEPT ![p.to] = FALSE]
     ELSE UNCHANGED <<silence, tried>>
  /\ UNCHANGED <<up, primary, down, looked, stops, restarts>>

Lose(p) ==
  /\ p \in wire /\ wire' = wire \ {p}
  /\ UNCHANGED <<up, primary, down, guardian, stops, restarts>>

LivenessFailure(g) == silence[g] # None /\ silence[g] > Threshold

\* The look at the clock; an attempt under way is not started twice.
Look(g) ==
  /\ g \notin looked /\ looked' = looked \cup {g}
  /\ tried' = [tried EXCEPT ![g] = @ \/ LivenessFailure(g)]
  /\ UNCHANGED <<up, primary, down, wire, silence, stops, restarts>>

GuardianRestarts(g) ==
  /\ restarts < MaxRestart /\ restarts' = restarts + 1
  /\ silence' = [silence EXCEPT ![g] = None]
  /\ tried' = [tried EXCEPT ![g] = FALSE]
  /\ UNCHANGED <<up, primary, down, wire, looked, stops>>

Rounds ==
  \/ Interval
  \/ \E r \in Round : PingAll(r) \/ EndRound(r)
  \/ \E g \in Guardian : Look(g)

Answers(r, b) == Answer(r, b, "ok") \/ Answer(r, b, "failed")

Next ==
  \/ Rounds
  \/ \E r \in Round, b \in Backup : Answers(r, b)
  \/ \E p \in wire : OnPingReceived(p) \/ Lose(p)
  \/ \E b \in Backup : BackupStops(b) \/ BackupStarts(b)
  \/ \E g \in Guardian : GuardianRestarts(g)
  \/ PrimaryStops \/ PrimaryStarts

Spec == Init /\ [][Next]_vars

\* Interval timers, and requests that end at the latest by a time-out.  The
\* network owes nothing.
Fairness ==
  /\ WF_vars(Interval)
  /\ \A r \in Round : WF_vars(PingAll(r)) /\ WF_vars(EndRound(r))
                      /\ \A b \in Backup : WF_vars(Answers(r, b))
  /\ \A g \in Guardian : WF_vars(Look(g))

FairSpec == Spec /\ Fairness

-----------------------------------------------------------------------------
Ping == [to : Guardian, age : 0..(MaxDrift + 1), new : BOOLEAN]

Rounding == {Idle} \cup [pc : {"sent"}, result : [Backup -> {"none", "ok", "failed"}]]

TypeOK ==
  /\ up \subseteq Backup /\ streak \in [Backup -> 0..2]
  /\ round \in [Round -> Rounding] /\ pinged \in BOOLEAN
  /\ down \in 0..Latest /\ wire \subseteq Ping
  /\ silence \in [Guardian -> 0..None]
  /\ looked \subseteq Guardian /\ tried \in [Guardian -> BOOLEAN]
  /\ stops \in Nat /\ restarts \in Nat

\* A guardian that has heard the primary has initiated a succession when the
\* primary is down for the threshold and the drift it tolerates, and it looks,
\* whatever the network still delivers.
DetectedInTime ==
  \A g \in Guardian :
    (down > MaxDrift + Threshold + 1 /\ g \in looked /\ silence[g] # None) => tried[g]

\* A backup that stops for good while the primary runs loses its streak for
\* good, although answers of older rounds are noted after newer failures.
DeadBackupReset ==
  \A b \in Backup :
    <>[](b \notin up /\ down = 0) => <>[](streak[b] = 0)
=============================================================================
