------------------------- MODULE MCProfileServices --------------------------
EXTENDS ProfileServices, TLC

CONSTANTS r1, r2, \* requests, people, workers, profiles: two of each
          c1, c2  \* uploads, servers, jobs, cards: two of each

Actors == {r1, r2}
Things == {c1, c2}

MCConversation == [f \in Files |-> f]
MCOwnKey == [n \in Servers |-> <<"own", n>>]
MCRefSets == [n \in Servers |-> {{<<"shared">>}}]
MCForeign == {<<"foreign">>}
MCTurns == {<<[key |-> "k", text |-> "x", of |-> 0], [key |-> "u", text |-> "u", of |-> 0]>>}

Symmetry == Permutations(Actors)
ServerSymmetry == Symmetry \cup Permutations(Things)

=============================================================================
