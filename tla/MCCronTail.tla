----------------------------- MODULE MCCronTail -----------------------------
(* The instances of CronTail that TLC checks. *)
EXTENDS CronTail, TLC

CONSTANTS r1, r2

TwoRuns == {r1, r2}
RunSymmetry == Permutations(Runs)

=============================================================================
