---------------------------- MODULE MCSuccession ----------------------------
(***************************************************************************)
(* Small instances of Succession: guardians with the same database, hence  *)
(* the same ranking.                                                       *)
(***************************************************************************)
EXTENDS Succession, TLC

CONSTANTS g1, g2, b1, b2

TwoGuardians == {g1, g2}
OneGuardian  == {g1}
OneBackup    == {b1}
TwoBackups   == {b1, b2}
OnlyBackup   == [g \in Guardian |-> <<b1>>]
SameRanking  == [g \in Guardian |-> <<b1, b2>>]
ThreeNumbers == 1..3
FourNumbers  == 1..4

Guardians == Permutations(TwoGuardians)
=============================================================================
