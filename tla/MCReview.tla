------------------------------ MODULE MCReview ------------------------------
(***************************************************************************)
(* Values of the constants of Review for model checking.                   *)
(***************************************************************************)
EXTENDS Review, TLC

CONSTANTS alice, bob, dev, rev

\* One policy of each mode; the reviewer is the other profile.
EveryMode ==
  {[mode |-> "human", reviewer |-> Nobody],
   [mode |-> "agent", reviewer |-> rev],
   [mode |-> "mixed", reviewer |-> rev]}

ToAgent == {p \in EveryMode : p.mode = "agent"}
MixedOnly == {[mode |-> "mixed", reviewer |-> rev]}

TwoProfiles == {dev, rev}
TwoPersons == {alice, bob}
PersonSymmetry == Permutations(Persons)

OnceEach == [kind \in Kinds |-> 1]

=============================================================================
